----------------------------- MODULE TftpProofs -----------------------------
(***************************************************************************)
(* Proofs about the TFTP client: that it uses the loop as NetLoop says, and *)
(* that it loads the file, for every file, block size and sequence size,   *)
(* whatever the network loses, repeats and delays.                         *)
(***************************************************************************)
EXTENDS Tftp, NetLoopProofs

-----------------------------------------------------------------------------
(***************************************************************************)
(* The client implements the loop's specification.                         *)
(***************************************************************************)
\* A send is a send of the loop's.
LEMMA SendsAsLoop ==
  ASSUME NEW known, NEW rest, NEW p, NetSendUDPPacket(known, rest, p)
  PROVE  MaySend
BY DEF NetSendUDPPacket, MaySend

\* A packet that a handler of the client takes is one for the loop's handler.
LEMMA ClientRxAsLoop ==
  ASSUME ClientRx PROVE [Next]_loopVars
<1>1. CASE RxIgnored
  BY <1>1 DEF RxIgnored, AtTftp, AtClient, HandlerIgnores, loopVars, devVars, hist, arpVars
<1>2. CASE RxOack
  <2>1. PICK m \in net, dup \in BOOLEAN :
          /\ AtTftp(m, dup) /\ ForUs(m) /\ HandlerIgnores
          /\ NetSendUDPPacket(NetServerEther, Left(m, dup),
               TftpPacket("OACK", TftpOurPort, m.src, TftpBlock))
    BY <1>2 DEF RxOack
  <2>2. MaySend
    BY <2>1, SendsAsLoop
  <2> QED BY <2>1, <2>2 DEF AtTftp, AtClient, ForUs, RxPacket, Next
<1>3. CASE RxDataNotFirst
  <2>1. PICK m \in net, dup \in BOOLEAN :
          AtTftp(m, dup) /\ ForUs(m) /\ HandlerStartsAgain /\ UNCHANGED arpVars
    BY <1>3 DEF RxDataNotFirst
  <2> QED BY <2>1 DEF AtTftp, AtClient, ForUs, RxPacket, MaySend, Next
<1>4. CASE RxDataAgain
  <2>1. PICK m \in net, dup \in BOOLEAN :
          AtTftp(m, dup) /\ ForUs(m) /\ HandlerIgnores /\ UNCHANGED arpVars
    BY <1>4 DEF RxDataAgain
  <2> QED BY <2>1 DEF AtTftp, AtClient, ForUs, RxPacket, MaySend, Next
<1>5. CASE RxDataStore
  <2>1. PICK m \in net, dup \in BOOLEAN :
          /\ AtTftp(m, dup) /\ ForUs(m)
          /\ HandlerSucceeds \/ HandlerRearms
          /\ NetSendUDPPacket(NetServerEther, Left(m, dup),
               TftpPacket("DATA", TftpOurPort, m.src, m.block))
    BY <1>5 DEF RxDataStore
  <2>2. MaySend
    BY <2>1, SendsAsLoop
  <2> QED BY <2>1, <2>2 DEF AtTftp, AtClient, ForUs, RxPacket, Next
<1>6. CASE RxError
  <2>1. PICK m \in net, dup \in BOOLEAN :
          /\ AtTftp(m, dup) /\ ForUs(m) /\ UNCHANGED arpVars
          /\ HandlerFails \/ HandlerStartsAgain
    BY <1>6 DEF RxError
  <2> QED BY <2>1 DEF AtTftp, AtClient, ForUs, RxPacket, MaySend, Next
<1>7. CASE RxArp
  <2>1. PICK m \in net, dup \in BOOLEAN :
          /\ AtTftp(m, dup) /\ HandlerIgnores /\ UNCHANGED NetArpWaitTry
          /\ \/ NetArpWait /\ NetArpWait' = FALSE
             \/ UNCHANGED NetArpWait
    BY <1>7 DEF RxArp
  <2>2. CASE NetArpWait /\ NetArpWait' = FALSE
    BY <2>1, <2>2 DEF AtTftp, AtClient, HandlerIgnores, RxArpReply, Next
  <2>3. CASE UNCHANGED NetArpWait
    BY <2>1, <2>3 DEF AtTftp, AtClient, HandlerIgnores, loopVars, devVars, hist, arpVars
  <2> QED BY <2>1, <2>2, <2>3
<1> QED BY <1>1, <1>2, <1>3, <1>4, <1>5, <1>6, <1>7 DEF ClientRx

\* So are the timeouts ...
LEMMA TimeoutsAsLoop ==
  ASSUME TftpArpRetry \/ TftpArpGiveUp \/ TftpTimeout PROVE Next
BY DEF TftpArpRetry, TftpArpGiveUp, TftpTimeout, Next

\* ... and the server and the network do not touch the loop.
LEMMA EnvAsLoop ==
  ASSUME ServerStep \/ Lose PROVE UNCHANGED loopVars
BY DEF ServerStep, Lose, SrvRrq, SrvAck, SrvArp, SrvResend

\* Every step of the client, the server or the network is a step of the loop,
\* or none.
LEMMA TftpStepAsLoop ==
  ASSUME [TftpNext]_vars PROVE [Next]_loopVars
<1>1. CASE LoopStep
  BY <1>1 DEF LoopStep, Next
<1>2. CASE RestartNoMac
  BY <1>2 DEF Next
<1>3. CASE RestartTftp
  <2>1. MaySend
    BY <1>3, SendsAsLoop DEF RestartTftp, TftpStart
  <2> QED BY <1>3, <2>1 DEF RestartTftp, Next
<1>4. CASE TftpStep
  BY <1>4, ClientRxAsLoop, TimeoutsAsLoop DEF TftpStep
<1>5. CASE EnvStep
  BY <1>5, EnvAsLoop DEF EnvStep
<1>6. CASE UNCHANGED vars
  BY <1>6 DEF vars
<1> QED BY <1>1, <1>2, <1>3, <1>4, <1>5, <1>6 DEF TftpNext, ClientStep

\* The TFTP client in the network loop, with its server and any network,
\* implements the loop with an arbitrary protocol: all that is proved of the
\* loop, that it never waits without a timeout above all, holds of it.
THEOREM TftpImplementsLoop == TftpSpec => LoopSpec
<1>1. TftpInit => Init
  BY DEF TftpInit, TftpInitBut
<1>2. [TftpNext]_vars => [Next]_loopVars
  BY TftpStepAsLoop
<1> QED BY <1>1, <1>2, PTL DEF TftpSpec, LoopSpec, Spec

-----------------------------------------------------------------------------
(***************************************************************************)
(* Sequence numbers.  Blocks are counted 1, 2, 3 ... without bound here; a *)
(* packet carries the remainder by SequenceSize.                           *)
(***************************************************************************)
\* No packet lives past a half turn: of the blocks up to j none younger has
\* opened a half turn by the time that block k is the current one.
Recent(j, k) == \A i \in j + 1 .. k : i % HalfTurn # 0

\* Division with remainder.
LEMMA ModDef ==
  ASSUME NEW a \in Nat, NEW n \in Nat, n > 0
  PROVE  a % n \in 0 .. n - 1 /\ a \div n \in Nat /\ a = n * (a \div n) + (a % n)
OBVIOUS

\* Multiples of n are n apart.
LEMMA MultiplesApart ==
  ASSUME NEW a \in Int, NEW b \in Int, NEW n \in Nat, a < b
  PROVE  n * a + n <= n * b
<1>1. b - a - 1 \in Nat
  OBVIOUS
<1>2. n * (b - a - 1) \in Nat
  BY <1>1
<1> QED BY <1>2

\* The remainder is the only one.
LEMMA ModUnique ==
  ASSUME NEW q \in Nat, NEW n \in Nat, n > 0, NEW r \in 0 .. n - 1
  PROVE  (n * q + r) % n = r
<1> DEFINE a == n * q + r
<1>1. a \in Nat
  OBVIOUS
<1>2. a % n \in 0 .. n - 1 /\ a \div n \in Nat /\ a = n * (a \div n) + (a % n)
  <2> HIDE DEF a
  <2> QED BY <1>1, ModDef
<1>3. CASE a \div n < q
  <2>1. n * (a \div n) + n <= n * q
    BY <1>2, <1>3, MultiplesApart
  <2> QED BY <1>2, <2>1
<1>4. CASE q < a \div n
  <2>1. n * q + n <= n * (a \div n)
    BY <1>2, <1>4, MultiplesApart
  <2> QED BY <1>2, <2>1
<1>5. CASE q = a \div n
  BY <1>2, <1>5
<1> QED BY <1>2, <1>3, <1>4, <1>5

\* Two numbers less than n apart that have the same remainder are equal.
LEMMA SameRemainder ==
  ASSUME NEW a \in Nat, NEW b \in Nat, NEW n \in Nat, n > 0,
         a < b + n, b < a + n, a % n = b % n
  PROVE  a = b
<1>1. /\ a = n * (a \div n) + (a % n) /\ a \div n \in Nat
      /\ b = n * (b \div n) + (b % n) /\ b \div n \in Nat
      /\ a % n \in Nat
  BY ModDef
<1>2. ~(a \div n < b \div n)
  BY <1>1, MultiplesApart
<1>3. ~(b \div n < a \div n)
  BY <1>1, MultiplesApart
<1> QED BY <1>1, <1>2, <1>3

\* The remainder of what follows a multiple of n closely.
LEMMA ModAfter ==
  ASSUME NEW a \in Nat, NEW n \in Nat, n > 0, a % n = 0, NEW d \in 0 .. n - 1
  PROVE  (a + d) % n = d
<1>1. a = n * (a \div n) /\ a \div n \in Nat
  BY ModDef
<1> QED BY <1>1, ModUnique

\* ... and the multiple of n before a number.
LEMMA MultipleBefore ==
  ASSUME NEW a \in Nat, NEW n \in Nat, n > 0
  PROVE  a - (a % n) \in Nat /\ (a - (a % n)) % n = 0
<1>1. a = n * (a \div n) + (a % n) /\ a \div n \in Nat /\ a % n \in 0 .. n - 1
  BY ModDef
<1>2. a - (a % n) = n * (a \div n) + 0 /\ n * (a \div n) \in Nat
  BY <1>1
<1>3. 0 \in 0 .. n - 1
  OBVIOUS
<1>4. (n * (a \div n) + 0) % n = 0
  BY <1>1, <1>3, ModUnique
<1> QED BY <1>2, <1>4

\* Two half turns fit in a turn.
LEMMA HalfTurnFits ==
  /\ HalfTurn \in Nat /\ HalfTurn > 0 /\ HalfTurn + HalfTurn <= SequenceSize
  /\ SequenceSize \in Nat /\ SequenceSize > 1
BY TftpAssumption DEF HalfTurn

\* A turn begins with a half turn.
LEMMA TurnIsHalfTurn ==
  ASSUME NEW a \in Nat, a % SequenceSize = 0
  PROVE  a % HalfTurn = 0
<1>1. PICK v \in Nat : a = SequenceSize * v
  BY ModDef, HalfTurnFits
<1>2. PICK u \in Nat : SequenceSize = HalfTurn * u
  BY ModDef, HalfTurnFits, TftpAssumption
<1>3. HalfTurn * (u * v) = (HalfTurn * u) * v /\ u * v \in Nat
  BY HalfTurnFits
<1>4. a = HalfTurn * (u * v) + 0
  BY <1>1, <1>2, <1>3
<1>5. 0 \in 0 .. HalfTurn - 1
  BY HalfTurnFits
<1>6. (HalfTurn * (u * v) + 0) % HalfTurn = 0
  BY <1>3, <1>5, HalfTurnFits, ModUnique
<1> QED BY <1>4, <1>6

\* A recent block is less than half a turn old.
LEMMA RecentWithin ==
  ASSUME NEW j \in Nat, NEW k \in Nat, Recent(j, k)
  PROVE  k < j + HalfTurn
<1> SUFFICES ASSUME k >= j + HalfTurn PROVE FALSE
  BY HalfTurnFits
<1> DEFINE i == (j + HalfTurn) - ((j + HalfTurn) % HalfTurn)
<1>0. HalfTurn \in Nat /\ HalfTurn > 0
  BY HalfTurnFits
<1>1. j + HalfTurn \in Nat
  BY <1>0
<1>2. (j + HalfTurn) % HalfTurn \in 0 .. HalfTurn - 1
  BY <1>0, <1>1, ModDef
<1>3. i \in Nat /\ i % HalfTurn = 0
  BY <1>0, <1>1, MultipleBefore
<1>4. i \in j + 1 .. k
  BY <1>0, <1>2
<1> QED BY <1>3, <1>4 DEF Recent

\* An acknowledgement of the last block received, sent while the server is at
\* most one block on, is less than a turn old.
LEMMA RecentAck ==
  ASSUME NEW c \in Nat, NEW x \in Nat, NEW k \in Nat, Recent(c, x), c <= x, k <= x + 1
  PROVE  Recent(c + HalfTurn, k)
<1> SUFFICES ASSUME NEW i \in c + HalfTurn + 1 .. k, i % HalfTurn = 0 PROVE FALSE
  BY DEF Recent
<1>0. HalfTurn \in Nat /\ HalfTurn > 0
  BY HalfTurnFits
<1>1. i \in Nat /\ i - HalfTurn \in c + 1 .. x
  BY <1>0
<1>2. i = HalfTurn * (i \div HalfTurn) /\ i \div HalfTurn \in Nat
  BY <1>0, <1>1, ModDef
<1>3. (i \div HalfTurn) - 1 \in Nat
  BY <1>0, <1>1, <1>2
<1>4. i - HalfTurn = HalfTurn * ((i \div HalfTurn) - 1) + 0
  BY <1>0, <1>2
<1>5. 0 \in 0 .. HalfTurn - 1
  BY <1>0
<1>6. (HalfTurn * ((i \div HalfTurn) - 1) + 0) % HalfTurn = 0
  BY <1>0, <1>3, <1>5, ModUnique
<1> QED BY <1>1, <1>4, <1>6 DEF Recent

\* What was recent for block k is so for the next one, unless that one opens a
\* half turn.
LEMMA RecentNext ==
  ASSUME NEW j \in Nat, NEW k \in Nat, Recent(j, k), (k + 1) % HalfTurn # 0
  PROVE  Recent(j, k + 1)
<1> SUFFICES ASSUME NEW i \in j + 1 .. k + 1 PROVE i % HalfTurn # 0
  BY DEF Recent
<1>1. i = k + 1 \/ i \in j + 1 .. k
  OBVIOUS
<1> QED BY <1>1 DEF Recent

\* Two blocks between which no turn begins lie in the same turn.
LEMMA SameTurn ==
  ASSUME NEW a \in Nat, NEW b \in Nat, a <= b,
         \A i \in a + 1 .. b : i % SequenceSize # 0
  PROVE  a - (a % SequenceSize) = b - (b % SequenceSize)
<1> DEFINE e == b - (b % SequenceSize)
<1>0. SequenceSize \in Nat /\ SequenceSize > 0
  BY HalfTurnFits
<1>1. e \in Nat /\ e % SequenceSize = 0
  BY <1>0, MultipleBefore
<1>2. b % SequenceSize \in 0 .. SequenceSize - 1
  BY <1>0, ModDef
<1>3. e <= a
  BY <1>1, <1>2
<1>4. a - e \in 0 .. SequenceSize - 1
  BY <1>0, <1>1, <1>2, <1>3
<1> HIDE DEF e
<1>5. (e + (a - e)) % SequenceSize = a - e
  BY <1>0, <1>1, <1>4, ModAfter
<1>6. e + (a - e) = a
  BY <1>1
<1>7. a - (a % SequenceSize) = e
  BY <1>1, <1>5, <1>6
<1> QED BY <1>7 DEF e

\* A number before a multiple of n.
LEMMA ModSucc ==
  ASSUME NEW a \in Nat, NEW n \in Nat, n > 0, a % n = n - 1
  PROVE  (a + 1) % n = 0
<1>1. a = n * (a \div n) + (n - 1) /\ a \div n \in Nat
  BY ModDef
<1>2. a + 1 = n * ((a \div n) + 1) + 0
  BY <1>1
<1>3. (a \div n) + 1 \in Nat /\ 0 \in 0 .. n - 1
  BY <1>1
<1>4. (n * ((a \div n) + 1) + 0) % n = 0
  BY <1>3, ModUnique
<1> QED BY <1>2, <1>4

\* What the client can tell from the sequence number of block j, which the
\* network delivers while the server is at block k, when it has stored the
\* blocks up to x and received block c last.
LEMMA SequenceNumber ==
  ASSUME NEW k \in Nat, NEW x \in Nat, NEW c \in Nat, NEW j \in Nat,
         x <= k, k <= x + 1, c <= x, Recent(c, x), j <= k, Recent(j, k)
  PROVE  /\ j % SequenceSize = c % SequenceSize => j = c
         /\ j % SequenceSize # 0 =>
              j - (j % SequenceSize) = c - (c % SequenceSize)
         /\ j % SequenceSize = 0 /\ c % SequenceSize = SequenceSize - 1 => j = c + 1
<1>0. /\ SequenceSize \in Nat /\ SequenceSize > 1 /\ HalfTurn \in Nat /\ HalfTurn > 0
      /\ HalfTurn + HalfTurn <= SequenceSize
  BY HalfTurnFits
<1>1. k < j + HalfTurn /\ x < c + HalfTurn
  BY RecentWithin
<1>2. j <= c + HalfTurn /\ c < j + HalfTurn
  BY <1>0, <1>1
<1>3. ASSUME j % SequenceSize = c % SequenceSize PROVE j = c
  <2>1. j < c + SequenceSize /\ c < j + SequenceSize
    BY <1>0, <1>2
  <2> QED BY <1>0, <1>3, <2>1, SameRemainder, SMTT(30)
<1>4. ASSUME j % SequenceSize # 0
      PROVE  j - (j % SequenceSize) = c - (c % SequenceSize)
  <2>1. CASE j <= c
    <3>1. \A i \in j + 1 .. c : i % SequenceSize # 0
      <4> SUFFICES ASSUME NEW i \in j + 1 .. c, i % SequenceSize = 0 PROVE FALSE
        OBVIOUS
      <4>1. i \in Nat /\ i \in j + 1 .. k
        OBVIOUS
      <4> QED BY <4>1, TurnIsHalfTurn DEF Recent
    <3> QED BY <2>1, <3>1, SameTurn
  <2>2. CASE c < j
    <3>1. \A i \in c + 1 .. j : i % SequenceSize # 0
      <4> SUFFICES ASSUME NEW i \in c + 1 .. j, i % SequenceSize = 0 PROVE FALSE
        OBVIOUS
      <4>1. i # j
        BY <1>4
      <4>2. i \in Nat /\ i \in c + 1 .. x
        BY <4>1
      <4> QED BY <4>2, TurnIsHalfTurn DEF Recent
    <3>2. c - (c % SequenceSize) = j - (j % SequenceSize)
      BY <2>2, <3>1, SameTurn
    <3> QED BY <3>2
  <2> QED BY <2>1, <2>2
<1>5. ASSUME j % SequenceSize = 0, c % SequenceSize = SequenceSize - 1 PROVE j = c + 1
  <2>0. SequenceSize \in Nat /\ SequenceSize > 0 /\ c % SequenceSize = SequenceSize - 1
    BY <1>0, <1>5
  <2>1. (c + 1) % SequenceSize = 0
    BY ONLY <2>0, ModSucc, c \in Nat
  <2>2. j < c + 1 + SequenceSize /\ c + 1 < j + SequenceSize /\ c + 1 \in Nat
    BY <1>0, <1>2
  <2> QED BY <1>0, <1>5, <2>1, <2>2, SameRemainder
<1> QED BY <1>3, <1>4, <1>5

\* The file in blocks: where block k ends.
End(bs, k) == IF k = 0 THEN 0 ELSE (k - 1) * bs + LenOf(bs, k)

\* Only the last block is short, and it ends where the file does.
LEMMA FileInBlocks ==
  ASSUME NEW bs \in Nat, bs > 0, NEW k \in Nat, k > 0, k <= LastK(bs)
  PROVE  /\ LastK(bs) \in Nat /\ LenOf(bs, k) \in 0 .. bs
         /\ (k - 1) * bs \in Nat /\ (k - 1) * bs + LenOf(bs, k) <= FileLen
         /\ End(bs, k - 1) = (k - 1) * bs
         /\ LenOf(bs, k) < bs <=> k = LastK(bs)
         /\ k = LastK(bs) => End(bs, k) = FileLen
<1> DEFINE q == FileLen \div bs
<1>0. FileLen \in Nat
  BY TftpAssumption
<1>1. FileLen = bs * q + (FileLen % bs) /\ q \in Nat /\ FileLen % bs \in 0 .. bs - 1
  BY <1>0, ModDef
<1>2. LastK(bs) = q + 1
  BY DEF LastK
<1>3. k - 1 \in Nat /\ (k - 1) * bs \in Nat
  BY <1>0
<1> HIDE DEF q
<1>4. k < LastK(bs) => k * bs <= FileLen /\ (k - 1) * bs + bs = k * bs
  <2> SUFFICES ASSUME k < LastK(bs) PROVE k * bs <= FileLen /\ (k - 1) * bs + bs = k * bs
    OBVIOUS
  <2>1. q - k \in Nat
    BY <1>1, <1>2
  <2>2. bs * (q - k) \in Nat
    BY <2>1
  <2>3. bs * q = bs * (q - k) + bs * k
    BY <1>1, <2>1
  <2> QED BY <1>0, <1>1, <2>2, <2>3
<1>5. k = LastK(bs) => (k - 1) * bs = bs * q
  BY <1>1, <1>2
<1>6. LenOf(bs, k) \in 0 .. bs /\ (k - 1) * bs + LenOf(bs, k) <= FileLen
  BY <1>0, <1>1, <1>2, <1>3, <1>4, <1>5 DEF LenOf
<1>7. LenOf(bs, k) < bs <=> k = LastK(bs)
  BY <1>0, <1>1, <1>2, <1>3, <1>5 DEF LenOf
<1>8. k = LastK(bs) => End(bs, k) = FileLen
  BY <1>0, <1>1, <1>3, <1>5 DEF End, LenOf
<1>9. End(bs, k - 1) = (k - 1) * bs
  <2>1. k - 1 < LastK(bs)
    BY <1>1, <1>2
  <2>2. k # 1 => (k - 1 - 1) * bs + bs = (k - 1) * bs
    OBVIOUS
  <2> QED BY <2>1, <2>2 DEF End, LenOf
<1> QED BY <1>1, <1>2, <1>3, <1>6, <1>7, <1>8, <1>9

-----------------------------------------------------------------------------
(***************************************************************************)
(* The wire.  Whatever is in flight is the work of a transfer of the       *)
(* server's or of this client, and a block in flight is no older than the  *)
(* half turn its transfer is in.                                           *)
(***************************************************************************)
\* Packet m carries block j in blocks of bs units.
DataOf(m, bs, j) ==
  m.block = j % SequenceSize /\ m.base = (j - 1) * bs /\ m.len = LenOf(bs, j)

FromTransfer(m) ==
  /\ m.src \in Tid
  /\ srv[m.src] # Free
  /\ m.dst = srv[m.src].client
  /\ m.op = "OACK" => m.blksize = srv[m.src].bs
  /\ m.op = "DATA" => \E j \in 1 .. srv[m.src].k :
                        DataOf(m, srv[m.src].bs, j) /\ Recent(j, srv[m.src].k)

PacketOK(m) ==
  /\ m.op \in {"OACK", "DATA", "ERROR"} => FromTransfer(m)
  /\ m.op \in {"RRQ", "ACK"} => m.src \in 0 .. TftpOurPort
  /\ m.op = "ACK" => m.dst \in Tid /\ m.block \in 0 .. SequenceSize - 1

TransferOK(s) ==
  /\ s.k <= LastK(s.bs)
  /\ s.client <= TftpOurPort
  /\ s.open \/ s.k >= 1 \/ s = Free

WireOK ==
  /\ srv \in [Tid -> Session]
  /\ \A t \in Tid : TransferOK(srv[t])
  /\ \A m \in net : PacketOK(m)
  /\ NetArpWaitTxPacket.op \in {"none", "RRQ", "ACK"} /\ PacketOK(NetArpWaitTxPacket)

ClientOK ==
  /\ TftpState \in {"RRQ", "OACK", "DATA"}
  /\ TftpServerPort \in Tid \union {WELL_KNOWN_PORT}
  /\ TftpState # "RRQ" => TftpServerPort \in Tid
  /\ TftpOurPort \in Nat
  /\ TftpTimeoutCountMax \in {RRQTimeoutMax, TimeoutCount}
  /\ TftpTimeoutCount \in Nat
  /\ TftpBlock \in 0 .. SequenceSize - 1
  /\ TftpLastBlock \in 0 .. SequenceSize - 1
  /\ TftpBlockWrapOffset \in Nat
  /\ TftpBlkSize \in {DefBlk, OptBlk}
  /\ NetServerEther \in BOOLEAN /\ miscounted \in BOOLEAN

LoadOK ==
  /\ mem \in [0 .. MemSize - 1 -> {Garbage} \union 0 .. FileLen - 1]
  /\ NetBootFileXferSize \in Nat

WireInv == ClientOK /\ LoadOK /\ WireOK /\ faults \in 0 .. MaxFaults

\* Faults are counted within their bound.
LEMMA FaultsBounded ==
  ASSUME faults \in 0 .. MaxFaults,
         (\E m, dup : Receive(m, dup)) \/ (\E q : Expires(q)) \/ UNCHANGED faults
  PROVE  faults' \in 0 .. MaxFaults
<1>0. MaxFaults \in Nat
  BY TftpAssumption
<1>1. ASSUME NEW m, NEW dup, Receive(m, dup) PROVE faults' \in 0 .. MaxFaults
  BY <1>0, <1>1 DEF Receive
<1>2. ASSUME NEW q, Expires(q) PROVE faults' \in 0 .. MaxFaults
  BY <1>0, <1>2 DEF Expires
<1> QED BY <1>1, <1>2

\* What a packet taken from the network leaves behind.
LEMMA LeftIn ==
  ASSUME NEW m, NEW dup PROVE Left(m, dup) \subseteq net
BY DEF Left

\* The effect of NetSendUDPPacket() on the wire.
LEMMA SendEffect ==
  ASSUME NEW known \in BOOLEAN, NEW rest, NEW p, NetSendUDPPacket(known, rest, p)
  PROVE  /\ NetServerEther' = known
         /\ known => /\ net' \subseteq rest \union {p}
                     /\ UNCHANGED <<NetArpWait, NetArpWaitTxPacket>>
         /\ ~known => /\ \A m \in net' : m \in rest \/ m.op = "ARPREQ"
                      /\ NetArpWait' = TRUE /\ NetArpWaitTxPacket' = p
BY DEF NetSendUDPPacket, EthSend, SendStartsArp, ArpReq, arpVars

\* A packet stays good while the transfers stay and our port only grows.
LEMMA PacketStays ==
  ASSUME NEW m, PacketOK(m), srv' = srv, TftpOurPort \in Nat, TftpOurPort' \in Nat,
         TftpOurPort <= TftpOurPort'
  PROVE  PacketOK(m)'
<1>1. FromTransfer(m)' <=> FromTransfer(m)
  BY DEF FromTransfer, DataOf, Recent
<1>2. m.src \in 0 .. TftpOurPort => m.src \in 0 .. TftpOurPort'
  OBVIOUS
<1> QED BY <1>1, <1>2 DEF PacketOK

\* A step of the client: it may take packets out of the network and send one.
LEMMA ClientKeepsWire ==
  ASSUME WireOK, TftpOurPort \in Nat, TftpOurPort' \in Nat, TftpOurPort <= TftpOurPort',
         srv' = srv,
         \A m \in net' : m \in net \/ PacketOK(m)',
         \/ UNCHANGED NetArpWaitTxPacket
         \/ NetArpWaitTxPacket'.op \in {"none", "RRQ", "ACK"} /\ PacketOK(NetArpWaitTxPacket)'
  PROVE  WireOK'
<1>1. \A m : PacketOK(m) => PacketOK(m)'
  BY PacketStays
<1>2. \A m \in net' : PacketOK(m)'
  BY <1>1 DEF WireOK
<1>3. NetArpWaitTxPacket'.op \in {"none", "RRQ", "ACK"} /\ PacketOK(NetArpWaitTxPacket)'
  <2>1. CASE UNCHANGED NetArpWaitTxPacket
    <3>1. PacketOK(NetArpWaitTxPacket)
      BY DEF WireOK
    <3>2. PacketOK(NetArpWaitTxPacket)'
      BY <1>1, <2>1, <3>1 DEF PacketOK, FromTransfer, DataOf, Recent
    <3> QED BY <2>1, <3>2 DEF WireOK
  <2> QED BY <2>1
<1>4. \A t \in Tid : TransferOK(srv[t])'
  <2> SUFFICES ASSUME NEW t \in Tid PROVE TransferOK(srv[t])'
    OBVIOUS
  <2>1. srv[t] \in Session /\ TransferOK(srv[t])
    BY DEF WireOK
  <2>2. srv[t].client \in Nat
    BY <2>1 DEF Session
  <2> QED BY <2>1, <2>2 DEF TransferOK
<1> QED BY <1>2, <1>3, <1>4 DEF WireOK

\* The packets the client sends are good.
LEMMA SentOK ==
  ASSUME NEW state, NEW our \in 0 .. TftpOurPort', NEW port, NEW block,
         state # "RRQ" => port \in Tid /\ block \in 0 .. SequenceSize - 1,
         NEW p, p = TftpPacket(state, our, port, block)
  PROVE  p.op \in {"RRQ", "ACK"} /\ PacketOK(p)'
BY DEF TftpPacket, Rrq, Ack, PacketOK

\* ... and so is the wire after it sent one.
LEMMA SendKeepsWire ==
  ASSUME WireOK, TftpOurPort \in Nat, TftpOurPort' \in Nat, TftpOurPort <= TftpOurPort',
         srv' = srv, NEW known \in BOOLEAN, NEW rest \in SUBSET net,
         NEW p, p.op \in {"RRQ", "ACK"}, PacketOK(p)',
         NetSendUDPPacket(known, rest, p)
  PROVE  WireOK'
<1>1. \A m : m.op = "ARPREQ" => PacketOK(m)'
  BY DEF PacketOK
<1>2. \A m \in net' : m \in net \/ PacketOK(m)'
  BY <1>1, SendEffect
<1>3. \/ UNCHANGED NetArpWaitTxPacket
      \/ NetArpWaitTxPacket'.op \in {"none", "RRQ", "ACK"} /\ PacketOK(NetArpWaitTxPacket)'
  <2>1. CASE NetArpWaitTxPacket' = p
    BY <2>1 DEF PacketOK, FromTransfer, DataOf, Recent
  <2> QED BY <2>1, SendEffect
<1> QED BY <1>2, <1>3, ClientKeepsWire

\* A packet for the TFTP handler.
LEMMA PacketForUs ==
  ASSUME WireOK, NEW m \in net, ForUs(m)
  PROVE  /\ m.src \in Tid /\ srv[m.src] \in Session /\ srv[m.src] # Free
         /\ srv[m.src].client = TftpOurPort
         /\ m.op = "OACK" => m.blksize = srv[m.src].bs
         /\ m.op = "DATA" =>
              \E j \in 1 .. srv[m.src].k :
                /\ Recent(j, srv[m.src].k)
                /\ m.block = j % SequenceSize
                /\ m.base = (j - 1) * srv[m.src].bs
                /\ m.len = LenOf(srv[m.src].bs, j)
<1>1. FromTransfer(m) /\ srv[m.src] \in Session
  BY DEF WireOK, PacketOK, ForUs, FromTransfer
<1> QED BY <1>1 DEF FromTransfer, ForUs, DataOf

\* What store_block() writes are units of the file.
LEMMA StoreKeepsLoad ==
  ASSUME LoadOK, NEW offset \in Int, NEW m, m.base \in Nat, m.len \in Nat,
         m.base + m.len <= FileLen, StoreBlock(offset, m)
  PROVE  LoadOK'
<1>0. MemSize \in Nat /\ FileLen \in Nat
  BY TftpAssumption
<1>1. \A a \in 0 .. MemSize - 1 :
        (IF offset <= a /\ a < offset + m.len THEN m.base + (a - offset) ELSE mem[a])
          \in {Garbage} \union 0 .. FileLen - 1
  BY <1>0 DEF LoadOK
<1>2. mem' \in [0 .. MemSize - 1 -> {Garbage} \union 0 .. FileLen - 1]
  BY <1>1 DEF StoreBlock, CopyUnits
<1>3. NetBootFileXferSize' \in Nat
  BY DEF StoreBlock, GrowTo, LoadOK
<1> QED BY <1>2, <1>3 DEF LoadOK

\* The lesser of two numbers.
LEMMA MinOfTwo ==
  ASSUME NEW a \in Int, NEW b \in Int
  PROVE  Min({a, b}) = IF a <= b THEN a ELSE b
<1>1. \A c : c \in {a, b} /\ (\A y \in {a, b} : c <= y) <=> c = IF a <= b THEN a ELSE b
  OBVIOUS
<1> QED BY <1>1 DEF Min

\* The offset after a block is a number of units.
LEMMA WrapOffsetType ==
  ASSUME ClientOK, NEW m
  PROVE  /\ WrapOffset(m) \in Nat
         /\ m.block # 0 => WrapOffset(m) = TftpBlockWrapOffset
         /\ m.block = 0 /\ TftpBlockWrapOffset + TftpBlkSize * SequenceSize <= OffsetBound
              => WrapOffset(m) = TftpBlockWrapOffset + TftpBlkSize * SequenceSize
<1>1. TftpBlkSize \in Nat /\ SequenceSize \in Nat /\ TftpBlkSize * SequenceSize \in Nat
  BY TftpAssumption DEF ClientOK
<1>2. OffsetBound \in Nat
  <2>1. (DefBlk + OptBlk) * SequenceSize \in Nat
    BY TftpAssumption
  <2> QED BY <2>1, TftpAssumption DEF OffsetBound
<1>3. TftpBlockWrapOffset \in Nat
  BY DEF ClientOK
<1> DEFINE b == TftpBlockWrapOffset + TftpBlkSize * SequenceSize
<1>4. b \in Nat
  BY <1>1, <1>3
<1> HIDE DEF b
<1>5. Min({OffsetBound, b}) = IF OffsetBound <= b THEN OffsetBound ELSE b
  BY <1>2, <1>4, MinOfTwo
<1>6. WrapOffset(m) = IF m.block = 0 THEN Min({OffsetBound, b}) ELSE TftpBlockWrapOffset
  BY DEF WrapOffset, b
<1>7. /\ WrapOffset(m) \in Nat
      /\ m.block # 0 => WrapOffset(m) = TftpBlockWrapOffset
      /\ m.block = 0 /\ b <= OffsetBound => WrapOffset(m) = b
  BY <1>2, <1>3, <1>4, <1>5, <1>6
<1> QED BY <1>7 DEF b

\* The client's handlers keep the wire and their own variables in order.
LEMMA ClientRxKeeps ==
  ASSUME WireInv, ClientRx PROVE WireInv'
<1>0. /\ TftpOurPort \in Nat /\ faults \in 0 .. MaxFaults /\ NetServerEther \in BOOLEAN
      /\ ClientOK /\ LoadOK /\ WireOK /\ TftpOurPort \in 0 .. TftpOurPort
  BY DEF WireInv, ClientOK
<1>a. ASSUME NEW m \in net, NEW dup, AtTftp(m, dup)
      PROVE  srv' = srv /\ faults' \in 0 .. MaxFaults
  BY <1>0, <1>a, FaultsBounded DEF AtTftp, AtClient
<1>b. ASSUME TftpOurPort' = TftpOurPort, srv' = srv, net' \subseteq net,
             UNCHANGED NetArpWaitTxPacket
      PROVE  WireOK'
  BY <1>0, <1>b, ClientKeepsWire
<1>1. CASE RxIgnored
  <2>1. PICK m \in net, dup \in BOOLEAN :
          /\ AtTftp(m, dup) /\ net' = Left(m, dup)
          /\ UNCHANGED <<tftpVars, loadVars, NetServerEther, NetArpWaitTxPacket>>
    BY <1>1 DEF RxIgnored
  <2>2. WireOK'
    BY <1>a, <1>b, <2>1, LeftIn DEF tftpVars
  <2> QED BY <1>0, <1>a, <2>1, <2>2 DEF WireInv, ClientOK, LoadOK, tftpVars, loadVars
<1>2. CASE RxOack
  <2>1. PICK m \in net, dup \in BOOLEAN :
          /\ AtTftp(m, dup) /\ ForUs(m) /\ m.op = "OACK"
          /\ TftpState' = "OACK" /\ TftpServerPort' = m.src /\ TftpBlkSize' = m.blksize
          /\ NetSendUDPPacket(NetServerEther, Left(m, dup),
               TftpPacket("OACK", TftpOurPort, m.src, TftpBlock))
          /\ miscounted' = (miscounted \/ TftpState = "DATA")
          /\ UNCHANGED <<TftpOurPort, TftpTimeoutCount, TftpTimeoutCountMax, TftpBlock,
                         TftpLastBlock, TftpBlockWrapOffset, mem, NetBootFileXferSize>>
    BY <1>2 DEF RxOack
  <2>2. m.src \in Tid /\ m.blksize \in {DefBlk, OptBlk}
    BY <1>0, <2>1, PacketForUs DEF Session
  <2>3. PICK p : p = TftpPacket("OACK", TftpOurPort, m.src, TftpBlock)
    OBVIOUS
  <2>4. p.op \in {"RRQ", "ACK"} /\ PacketOK(p)'
    <3>1. TftpBlock \in 0 .. SequenceSize - 1 /\ TftpOurPort \in 0 .. TftpOurPort'
      BY <1>0, <2>1 DEF ClientOK
    <3> QED BY <2>2, <2>3, <3>1, SentOK
  <2>5. WireOK'
    BY <1>0, <1>a, <2>1, <2>3, <2>4, LeftIn, SendKeepsWire
  <2>6. NetServerEther' = NetServerEther
    BY <2>1 DEF NetSendUDPPacket
  <2> QED BY <1>0, <1>a, <2>1, <2>2, <2>5, <2>6 DEF WireInv, ClientOK, LoadOK
<1>3. CASE RxDataNotFirst
  <2>1. PICK m \in net, dup \in BOOLEAN :
          /\ AtTftp(m, dup) /\ ForUs(m) /\ m.op = "DATA"
          /\ TftpBlock' = m.block /\ TftpState' = "DATA" /\ TftpServerPort' = m.src
          /\ TftpLastBlock' = 0 /\ TftpBlockWrapOffset' = 0
          /\ net' = Left(m, dup)
          /\ UNCHANGED <<TftpOurPort, TftpTimeoutCount, TftpTimeoutCountMax,
                         TftpBlkSize, loadVars, NetServerEther, NetArpWaitTxPacket>>
    BY <1>3 DEF RxDataNotFirst
  <2>2. m.src \in Tid /\ m.block \in 0 .. SequenceSize - 1
    <3>1. PICK j \in 1 .. srv[m.src].k : m.block = j % SequenceSize
      BY <1>0, <2>1, PacketForUs
    <3>2. j \in Nat
      BY <1>0, <2>1, PacketForUs DEF Session
    <3> QED BY <1>0, <2>1, <3>1, <3>2, PacketForUs, ModDef, HalfTurnFits
  <2>3. WireOK'
    BY <1>a, <1>b, <2>1, LeftIn
  <2>4. 0 \in 0 .. SequenceSize - 1
    BY HalfTurnFits
  <2> QED BY <1>0, <1>a, <2>1, <2>2, <2>3, <2>4 DEF WireInv, ClientOK, LoadOK, loadVars
<1>4. CASE RxDataAgain
  <2>1. PICK m \in net, dup \in BOOLEAN :
          /\ AtTftp(m, dup) /\ m.block = TftpLastBlock
          /\ TftpBlock' = m.block /\ TftpBlockWrapOffset' = WrapOffset(m)
          /\ miscounted' = (miscounted \/ CountedTwice(m))
          /\ net' = Left(m, dup)
          /\ UNCHANGED <<TftpState, TftpServerPort, TftpOurPort, TftpTimeoutCount,
                         TftpTimeoutCountMax, TftpLastBlock, TftpBlkSize, mem,
                         NetBootFileXferSize, NetServerEther, NetArpWaitTxPacket>>
    BY <1>4 DEF RxDataAgain
  <2>2. WireOK'
    BY <1>a, <1>b, <2>1, LeftIn
  <2>3. WrapOffset(m) \in Nat
    BY <1>0, WrapOffsetType
  <2> QED BY <1>0, <1>a, <2>1, <2>2, <2>3 DEF WireInv, ClientOK, LoadOK
<1>5. CASE RxDataStore
  <2>1. PICK m \in net, dup \in BOOLEAN :
          /\ AtTftp(m, dup) /\ ForUs(m) /\ m.op = "DATA"
          /\ TftpBlock' = m.block /\ TftpLastBlock' = m.block
          /\ TftpBlockWrapOffset' = OffsetNow(m)
          /\ TftpState' = "DATA" /\ TftpServerPort' = m.src
          /\ TftpTimeoutCountMax' = TimeoutCount
          /\ miscounted' = (miscounted \/ CountedTwice(m))
          /\ StoreBlock((m.block - 1) * TftpBlkSize + OffsetNow(m), m)
          /\ NetSendUDPPacket(NetServerEther, Left(m, dup),
               TftpPacket("DATA", TftpOurPort, m.src, m.block))
          /\ UNCHANGED <<TftpOurPort, TftpTimeoutCount, TftpBlkSize>>
    BY <1>5 DEF RxDataStore
  <2>2. PICK j \in 1 .. srv[m.src].k :
          /\ m.block = j % SequenceSize
          /\ m.base = (j - 1) * srv[m.src].bs
          /\ m.len = LenOf(srv[m.src].bs, j)
    BY <1>0, <2>1, PacketForUs
  <2>3. m.src \in Tid /\ srv[m.src].k \in Nat /\ srv[m.src].bs \in {DefBlk, OptBlk}
    BY <1>0, <2>1, PacketForUs DEF Session
  <2>4. j \in Nat /\ j > 0 /\ j <= LastK(srv[m.src].bs) /\ srv[m.src].bs \in Nat
        /\ srv[m.src].bs > 0
    <3>1. srv[m.src].k <= LastK(srv[m.src].bs)
      BY <1>0, <2>3 DEF WireOK, TransferOK
    <3>2. srv[m.src].bs \in Nat /\ srv[m.src].bs > 0
      BY <2>3, TftpAssumption
    <3>3. LastK(srv[m.src].bs) \in Nat
      BY <3>2, ModDef, TftpAssumption DEF LastK
    <3> QED BY <2>3, <3>1, <3>2, <3>3
  <2>5. m.block \in 0 .. SequenceSize - 1
    BY <2>2, <2>4, ModDef, HalfTurnFits
  <2>6. m.base \in Nat /\ m.len \in Nat /\ m.base + m.len <= FileLen
    <3>1. PICK bs \in Nat : bs = srv[m.src].bs
      BY <2>4
    <3>2. /\ LenOf(bs, j) \in 0 .. bs /\ (j - 1) * bs \in Nat
          /\ (j - 1) * bs + LenOf(bs, j) <= FileLen
      BY <2>4, <3>1, FileInBlocks
    <3> QED BY <2>2, <3>1, <3>2
  <2>7. OffsetNow(m) \in Nat
    BY <1>0, WrapOffsetType DEF OffsetNow
  <2>8. (m.block - 1) * TftpBlkSize + OffsetNow(m) \in Int
    <3>1. TftpBlkSize \in Int /\ m.block - 1 \in Int
      BY <1>0, <2>5, TftpAssumption DEF ClientOK
    <3> QED BY <2>7, <3>1
  <2>9. LoadOK'
    BY <1>0, <2>1, <2>6, <2>8, StoreKeepsLoad
  <2>10. PICK p : p = TftpPacket("DATA", TftpOurPort, m.src, m.block)
    OBVIOUS
  <2>11. p.op \in {"RRQ", "ACK"} /\ PacketOK(p)'
    <3>1. TftpOurPort \in 0 .. TftpOurPort'
      BY <1>0, <2>1
    <3> QED BY <2>3, <2>5, <2>10, <3>1, SentOK
  <2>12. WireOK'
    BY <1>0, <1>a, <2>1, <2>10, <2>11, LeftIn, SendKeepsWire
  <2>13. NetServerEther' = NetServerEther
    BY <2>1 DEF NetSendUDPPacket
  <2> QED
    BY <1>0, <1>a, <2>1, <2>3, <2>5, <2>7, <2>9, <2>12, <2>13 DEF WireInv, ClientOK
<1>6. CASE RxError
  <2>1. PICK m \in net, dup \in BOOLEAN :
          /\ AtTftp(m, dup) /\ net' = Left(m, dup)
          /\ UNCHANGED <<tftpVars, loadVars, NetServerEther, NetArpWaitTxPacket>>
    BY <1>6 DEF RxError
  <2>2. WireOK'
    BY <1>a, <1>b, <2>1, LeftIn DEF tftpVars
  <2> QED BY <1>0, <1>a, <2>1, <2>2 DEF WireInv, ClientOK, LoadOK, tftpVars, loadVars
<1>7. CASE RxArp
  <2>1. PICK m \in net, dup \in BOOLEAN :
          /\ AtTftp(m, dup)
          /\ UNCHANGED <<tftpVars, loadVars, NetArpWaitTxPacket>>
          /\ \/ NetServerEther' = TRUE /\ EthSend(Left(m, dup), NetArpWaitTxPacket)
             \/ net' = Left(m, dup) /\ UNCHANGED NetServerEther
    BY <1>7 DEF RxArp
  <2>2. TftpOurPort' = TftpOurPort /\ srv' = srv
    BY <1>a, <2>1 DEF tftpVars
  <2>3. \A p \in net' : p \in net \/ PacketOK(p)'
    <3>1. \A p \in net' : p \in net \/ p = NetArpWaitTxPacket
      BY <2>1, LeftIn DEF EthSend
    <3>2. ASSUME NEW p, p = NetArpWaitTxPacket PROVE PacketOK(p)'
      <4>1. PacketOK(p)
        BY <1>0, <3>2 DEF WireOK
      <4> QED BY <1>0, <2>2, <4>1, PacketStays
    <3> QED BY <3>1, <3>2
  <2>4. WireOK'
    BY <1>0, <2>1, <2>2, <2>3, ClientKeepsWire
  <2>5. NetServerEther' \in BOOLEAN
    BY <1>0, <2>1
  <2> QED
    BY <1>0, <1>a, <2>1, <2>4, <2>5 DEF WireInv, ClientOK, LoadOK, tftpVars, loadVars
<1> QED BY <1>1, <1>2, <1>3, <1>4, <1>5, <1>6, <1>7 DEF ClientRx

\* So do a start of the protocol ...
LEMMA StartKeeps ==
  ASSUME WireInv, TftpStart(net), srv' = srv, NetBootFileXferSize' \in Nat,
         faults' \in 0 .. MaxFaults
  PROVE  WireInv'
<1>0. ClientOK /\ LoadOK /\ WireOK /\ TftpOurPort \in Nat /\ TftpOurPort' = TftpOurPort + 1
  BY DEF WireInv, ClientOK, TftpStart
<1>1. PICK p : p = TftpPacket("RRQ", TftpOurPort', WELL_KNOWN_PORT, 0)
  OBVIOUS
<1>2. p.op \in {"RRQ", "ACK"} /\ PacketOK(p)'
  <2>1. TftpOurPort' \in 0 .. TftpOurPort'
    BY <1>0
  <2> QED BY <1>1, <2>1, SentOK
<1>3. NetSendUDPPacket(FALSE, net, p)
  BY <1>1 DEF TftpStart
<1>4. WireOK'
  <2>1. PICK known \in BOOLEAN : NetSendUDPPacket(known, net, p)
    BY <1>3, Zenon
  <2> QED BY <1>0, <1>2, <2>1, SendKeepsWire
<1>5. NetServerEther' \in BOOLEAN /\ miscounted' \in BOOLEAN
  BY <1>3, Zenon DEF TftpStart, NetSendUDPPacket
<1>6. 0 \in 0 .. SequenceSize - 1
  BY HalfTurnFits
<1> QED
  BY <1>0, <1>4, <1>5, <1>6 DEF WireInv, ClientOK, LoadOK, TftpStart

\* ... and its timeouts.
LEMMA TimeoutsKeep ==
  ASSUME WireInv, TftpArpRetry \/ TftpArpGiveUp \/ TftpTimeout PROVE WireInv'
<1>0. ClientOK /\ LoadOK /\ WireOK /\ TftpOurPort \in Nat /\ NetServerEther \in BOOLEAN
  BY DEF WireInv, ClientOK
<1>a. faults' \in 0 .. MaxFaults
  BY FaultsBounded DEF TftpArpRetry, TftpArpGiveUp, TftpTimeout, WireInv
<1>b. srv' = srv /\ TftpOurPort' = TftpOurPort
  BY DEF TftpArpRetry, TftpArpGiveUp, TftpTimeout, tftpVars
<1>1. CASE TftpArpRetry
  <2>1. \A m \in net' : m \in net \/ m.op = "ARPREQ"
    BY <1>1 DEF TftpArpRetry, EthSend, ArpReq
  <2>2. \A m \in net' : m \in net \/ PacketOK(m)'
    BY <2>1 DEF PacketOK
  <2>3. WireOK'
    BY <1>0, <1>1, <1>b, <2>2, ClientKeepsWire DEF TftpArpRetry
  <2> QED
    BY <1>0, <1>1, <1>a, <2>3 DEF TftpArpRetry, WireInv, ClientOK, LoadOK, tftpVars, loadVars
<1>2. CASE TftpArpGiveUp
  <2>1. UNCHANGED <<net, NetArpWaitTxPacket>>
    BY <1>2 DEF TftpArpGiveUp, sendVars
  <2>2. WireOK'
    BY <1>0, <1>b, <2>1, ClientKeepsWire
  <2> QED
    BY <1>0, <1>2, <1>a, <2>2
    DEF TftpArpGiveUp, WireInv, ClientOK, LoadOK, tftpVars, loadVars, sendVars
<1>3. CASE TftpTimeout
  <2>1. CASE UNCHANGED sendVars
    <3>1. WireOK'
      BY <1>0, <1>b, <2>1, ClientKeepsWire DEF sendVars
    <3> QED
      BY <1>0, <1>3, <1>a, <2>1, <3>1
      DEF TftpTimeout, WireInv, ClientOK, LoadOK, loadVars, sendVars
  <2>2. CASE NetSendUDPPacket(NetServerEther, net,
               TftpPacket(TftpState, TftpOurPort, TftpServerPort, TftpBlock))
    <3>1. PICK p : p = TftpPacket(TftpState, TftpOurPort, TftpServerPort, TftpBlock)
      OBVIOUS
    <3>2. p.op \in {"RRQ", "ACK"} /\ PacketOK(p)'
      <4>1. /\ TftpState # "RRQ" =>
                 TftpServerPort \in Tid /\ TftpBlock \in 0 .. SequenceSize - 1
            /\ TftpOurPort \in 0 .. TftpOurPort'
        BY <1>0, <1>b DEF ClientOK
      <4> QED BY <3>1, <4>1, SentOK
    <3>3. WireOK'
      BY <1>0, <1>b, <2>2, <3>1, <3>2, SendKeepsWire
    <3>4. NetServerEther' = NetServerEther
      BY <2>2 DEF NetSendUDPPacket
    <3> QED
      BY <1>0, <1>3, <1>a, <3>3, <3>4 DEF TftpTimeout, WireInv, ClientOK, LoadOK, loadVars
  <2> QED BY <1>3, <2>1, <2>2 DEF TftpTimeout
<1> QED BY <1>1, <1>2, <1>3

\* A step that leaves all of this alone.
LEMMA IdleKeeps ==
  ASSUME WireInv, UNCHANGED <<tftpVars, mem, miscounted, sendVars, srv>>,
         NetBootFileXferSize' \in Nat, faults' \in 0 .. MaxFaults
  PROVE  WireInv'
<1>1. WireOK'
  BY ClientKeepsWire DEF WireInv, ClientOK, tftpVars, sendVars
<1> QED BY <1>1 DEF WireInv, ClientOK, LoadOK, tftpVars, sendVars

\* What a transfer sends is good.
LEMMA SrvPacketOK ==
  ASSUME NEW t \in Tid, NEW s \in Session, s # Free, srv'[t] = s,
         NEW p, p = SrvPacket(t, s)
  PROVE  PacketOK(p)' /\ p.op \in {"OACK", "DATA"}
<1>1. s.k \in Nat
  BY DEF Session
<1>2. CASE s.k = 0
  <2>1. p = [op |-> "OACK", src |-> t, dst |-> s.client, blksize |-> s.bs]
    BY <1>2 DEF SrvPacket
  <2> QED BY <2>1 DEF PacketOK, FromTransfer
<1>3. CASE s.k # 0
  <2>1. p = [op |-> "DATA", src |-> t, dst |-> s.client,
             block |-> s.k % SequenceSize, base |-> (s.k - 1) * s.bs,
             len |-> LenOf(s.bs, s.k)]
    BY <1>3 DEF SrvPacket
  <2>2. s.k \in 1 .. s.k /\ Recent(s.k, s.k)
    BY <1>1, <1>3 DEF Recent
  <2>3. p.op = "DATA" /\ p.src = t /\ p.dst = s.client /\ DataOf(p, s.bs, s.k)
    BY <2>1 DEF DataOf
  <2>4. DataOf(p, s.bs, s.k)' /\ Recent(s.k, s.k)'
    BY <2>2, <2>3 DEF DataOf, LenOf, LastK
  <2>5. FromTransfer(p)'
    BY <2>2, <2>3, <2>4 DEF FromTransfer
  <2> QED BY <2>3, <2>5 DEF PacketOK
<1> QED BY <1>2, <1>3

\* A step of transfer t: it is enough to look at its own packets.
LEMMA TransferKeepsWire ==
  ASSUME WireOK, UNCHANGED <<TftpOurPort, NetArpWaitTxPacket>>,
         NEW t \in Tid, NEW s \in Session, srv' = [srv EXCEPT ![t] = s], TransferOK(s),
         \A m \in net' : m \in net \/ PacketOK(m)',
         \A m \in net' \intersect net :
           PacketOK(m) /\ m.op \in {"OACK", "DATA", "ERROR"} /\ m.src = t => FromTransfer(m)'
  PROVE  WireOK'
<1>1. srv' \in [Tid -> Session] /\ srv'[t] = s /\ \A u \in Tid \ {t} : srv'[u] = srv[u]
  BY DEF WireOK
<1>2. \A u \in Tid : TransferOK(srv[u])'
  <2> SUFFICES ASSUME NEW u \in Tid PROVE TransferOK(srv[u])'
    OBVIOUS
  <2>1. PICK v : v = srv'[u]
    OBVIOUS
  <2>2. TransferOK(v)
    BY <1>1, <2>1 DEF WireOK
  <2> QED BY <2>1, <2>2 DEF TransferOK, Free, LastK
<1>3. \A m \in net' : PacketOK(m)'
  <2> SUFFICES ASSUME NEW m \in net', m \in net, PacketOK(m) PROVE PacketOK(m)'
    BY DEF WireOK
  <2>1. m.op \in {"OACK", "DATA", "ERROR"} => FromTransfer(m)'
    <3> SUFFICES ASSUME m.op \in {"OACK", "DATA", "ERROR"}, m.src # t PROVE FromTransfer(m)'
      OBVIOUS
    <3>1. FromTransfer(m) /\ srv'[m.src] = srv[m.src]
      BY <1>1 DEF PacketOK, FromTransfer
    <3> QED BY <3>1 DEF FromTransfer, DataOf, Recent, Free, LenOf, LastK
  <2> QED BY <2>1 DEF PacketOK
<1>4. NetArpWaitTxPacket'.op \in {"none", "RRQ", "ACK"} /\ PacketOK(NetArpWaitTxPacket)'
  BY DEF WireOK, PacketOK
<1> QED BY <1>1, <1>2, <1>3, <1>4 DEF WireOK

\* The transfer's packets survive the next block only if it opens no half turn.
LEMMA AdvanceKeeps ==
  ASSUME WireOK, NEW t \in Tid, NEW rest \in SUBSET net,
         NoneOutlives(t, srv[t].k + 1, rest),
         srv' = [srv EXCEPT ![t] = [srv[t] EXCEPT !.k = srv[t].k + 1]],
         NEW m \in rest, m.op \in {"OACK", "DATA", "ERROR"}, m.src = t
  PROVE  FromTransfer(m)'
<1>0. FromTransfer(m) /\ srv[t] \in Session /\ srv[t].k \in Nat
  BY DEF WireOK, PacketOK, Session
<1>1. PICK s : s = srv'[t] /\ s = [srv[t] EXCEPT !.k = srv[t].k + 1]
  BY DEF WireOK
<1>2. /\ s.k = srv[t].k + 1 /\ s.bs = srv[t].bs /\ s.client = srv[t].client
      /\ s # Free
  BY <1>0, <1>1 DEF Session, Free
<1>3. CASE m.op = "DATA"
  <2>1. PICK j \in 1 .. srv[t].k : DataOf(m, srv[t].bs, j) /\ Recent(j, srv[t].k)
    BY <1>0, <1>3 DEF FromTransfer
  <2>2. (srv[t].k + 1) % HalfTurn # 0
    BY <1>3 DEF NoneOutlives
  <2>3. j \in Nat /\ j \in 1 .. s.k /\ Recent(j, s.k)
    BY <1>0, <1>2, <2>1, <2>2, RecentNext
  <2>4. DataOf(m, s.bs, j)' /\ Recent(j, s.k)'
    BY <1>2, <2>1, <2>3 DEF DataOf, Recent, LenOf, LastK
  <2> QED BY <1>0, <1>1, <1>2, <1>3, <2>3, <2>4 DEF FromTransfer, Free
<1>4. CASE m.op # "DATA"
  BY <1>0, <1>1, <1>2, <1>4 DEF FromTransfer, Free
<1> QED BY <1>3, <1>4

\* Every file has a last block.
LEMMA LastBlockExists ==
  ASSUME NEW bs \in {DefBlk, OptBlk}
  PROVE  bs \in Nat /\ bs > 0 /\ LastK(bs) \in Nat /\ LastK(bs) >= 1
<1>1. bs \in Nat /\ bs > 0 /\ FileLen \in Nat
  BY TftpAssumption
<1>2. FileLen \div bs \in Nat
  BY <1>1, ModDef
<1> QED BY <1>1, <1>2 DEF LastK

\* A request opens a transfer on a port that nothing has come from.
LEMMA RrqEffect ==
  ASSUME WireInv, SrvRrq
  PROVE  \E m, t, s, p :
           /\ m \in net /\ t \in Tid /\ s \in Session
           /\ m.op = "RRQ" /\ m.src \in Nat /\ m.src <= TftpOurPort
           /\ srv[t] = Free /\ s # Free /\ TransferOK(s)
           /\ s.client = m.src /\ s.k \in {0, 1} /\ (s.k = 1 => s.bs = DefBlk)
           /\ \/ p = SrvPacket(t, s)
              \/ p.op = "ERROR" /\ p.src = t /\ p.dst = m.src
           /\ srv' = [srv EXCEPT ![t] = s] /\ net' \subseteq net \union {p}
<1>1. PICK m \in net, dup \in BOOLEAN, t \in Tid, r \in Replies :
        /\ m.op = "RRQ" /\ srv[t] = Free
        /\ srv' = [srv EXCEPT ![t] = Opened(m.src, r)]
        /\ net' = Left(m, dup) \union {FirstReply(t, m.src, r)}
  BY DEF SrvRrq
<1>2. m.src \in Nat /\ m.src <= TftpOurPort
  BY <1>1 DEF WireInv, ClientOK, WireOK, PacketOK
<1>3. PICK s, p : s = Opened(m.src, r) /\ p = FirstReply(t, m.src, r)
  OBVIOUS
<1>5. srv' = [srv EXCEPT ![t] = s] /\ net' = Left(m, dup) \union {p}
  BY <1>1, <1>3
<1>8. /\ s \in Session /\ s.client = m.src /\ s.k \in {0, 1} /\ (s.k = 0 => s.open)
      /\ (s.k = 1 => s.bs = DefBlk) /\ s.bs \in {DefBlk, OptBlk}
  <2>1. /\ s.client = m.src /\ s.k = (IF r = "OACK" THEN 0 ELSE 1)
        /\ s.bs = (IF r = "OACK" THEN OptBlk ELSE DefBlk)
        /\ r = "OACK" => s.open
    BY <1>3 DEF Opened
  <2>2. s.open \in BOOLEAN
    BY <1>3 DEF Opened
  <2>3. s = [client |-> s.client, open |-> s.open, bs |-> s.bs, k |-> s.k]
    BY <1>3 DEF Opened
  <2>4. s \in Session
    BY <1>2, <2>1, <2>2, <2>3 DEF Session
  <2> QED BY <2>1, <2>4
<1>9. s # Free /\ TransferOK(s)
  <2>1. s # Free
    BY <1>8 DEF Free
  <2>2. LastK(s.bs) \in Nat /\ LastK(s.bs) >= 1
    BY <1>8, LastBlockExists
  <2> QED BY <1>2, <1>8, <2>1, <2>2 DEF TransferOK
<1>10. p = SrvPacket(t, s) \/ (p.op = "ERROR" /\ p.src = t /\ p.dst = m.src)
  BY <1>3 DEF FirstReply, SrvError
<1>11. net' \subseteq net \union {p}
  BY <1>5, LeftIn
<1> QED BY <1>1, <1>2, <1>5, <1>8, <1>9, <1>10, <1>11

LEMMA RrqKeepsWire ==
  ASSUME WireInv, SrvRrq PROVE WireOK'
<1>0. WireOK /\ UNCHANGED <<TftpOurPort, NetArpWaitTxPacket>>
  BY DEF WireInv, SrvRrq, tftpVars
<1>1. PICK m, t, s, p :
        /\ m \in net /\ t \in Tid /\ s \in Session
        /\ srv[t] = Free /\ s # Free /\ TransferOK(s) /\ s.client = m.src
        /\ \/ p = SrvPacket(t, s)
           \/ p.op = "ERROR" /\ p.src = t /\ p.dst = m.src
        /\ srv' = [srv EXCEPT ![t] = s] /\ net' \subseteq net \union {p}
  BY RrqEffect
<1> m \in net /\ t \in Tid /\ s \in Session
  BY <1>1
<1>2. srv'[t] = s
  BY <1>0, <1>1 DEF WireOK
<1>3. PacketOK(p)'
  <2>1. CASE p = SrvPacket(t, s)
    BY <1>1, <1>2, <2>1, SrvPacketOK
  <2>2. CASE p.op = "ERROR" /\ p.src = t /\ p.dst = m.src
    BY <1>1, <1>2, <2>2 DEF PacketOK, FromTransfer, Free
  <2> QED BY <1>1, <2>1, <2>2
<1>4. \A q \in net' : q \in net \/ PacketOK(q)'
  BY <1>1, <1>3
<1>5. \A q \in net' \intersect net :
        PacketOK(q) /\ q.op \in {"OACK", "DATA", "ERROR"} /\ q.src = t => FromTransfer(q)'
  BY <1>1 DEF PacketOK, FromTransfer
<1> QED BY <1>0, <1>1, <1>4, <1>5, TransferKeepsWire

\* An acknowledgement moves its transfer on, ends it, or is ignored.
Advances(m, rest, t, s, u) ==
  /\ s.open /\ m.src = s.client /\ m.block = s.k % SequenceSize
  /\ s.k < LastK(s.bs) /\ NoneOutlives(t, s.k + 1, rest)
  /\ u = [s EXCEPT !.k = s.k + 1]
  /\ srv' = [srv EXCEPT ![t] = u] /\ net' = rest \union {SrvPacket(t, u)}

Closes(rest, t, s, u) ==
  /\ s.k >= LastK(s.bs) /\ u = [s EXCEPT !.open = FALSE]
  /\ srv' = [srv EXCEPT ![t] = u] /\ net' = rest

AckStep(m, rest, t, s) ==
  /\ m.op = "ACK" /\ m.dst = t /\ s = srv[t]
  /\ TransferOK(s) /\ s.k \in Nat /\ LastK(s.bs) \in Nat
  /\ \/ \E u \in Session : Advances(m, rest, t, s, u)
     \/ \E u \in Session : Closes(rest, t, s, u)
     \/ net' = rest /\ UNCHANGED srv

LEMMA AckEffect ==
  ASSUME WireInv, SrvAck
  PROVE  \E m \in net, rest \in SUBSET net, t \in Tid, s \in Session : AckStep(m, rest, t, s)
<1>1. PICK m \in net, dup \in BOOLEAN :
       /\ m.op = "ACK"
       /\ LET t == m.dst
              s == srv[t]
              next == [s EXCEPT !.k = s.k + 1]
          IN IF s.open /\ m.src = s.client /\ m.block = s.k % SequenceSize
             THEN IF s.k < LastK(s.bs)
                  THEN /\ NoneOutlives(t, next.k, Left(m, dup))
                       /\ srv' = [srv EXCEPT ![t] = next]
                       /\ net' = Left(m, dup) \union {SrvPacket(t, next)}
                  ELSE /\ srv' = [srv EXCEPT ![t].open = FALSE]
                       /\ net' = Left(m, dup)
             ELSE net' = Left(m, dup) /\ UNCHANGED srv
  BY DEF SrvAck
<1>2. PICK t \in Tid, s \in Session : t = m.dst /\ s = srv[t] /\ TransferOK(s)
  BY <1>1 DEF WireInv, WireOK, PacketOK
<1>3. s.k \in Nat /\ LastK(s.bs) \in Nat
  BY LastBlockExists DEF Session
<1>4. PICK rest \in SUBSET net : rest = Left(m, dup)
  BY LeftIn
<1>5. PICK u \in Session : u = [s EXCEPT !.k = s.k + 1]
  <2>1. [s EXCEPT !.k = s.k + 1] \in Session
    BY <1>3 DEF Session
  <2> QED BY <2>1
<1>6. PICK v \in Session : v = [s EXCEPT !.open = FALSE]
  <2>1. [s EXCEPT !.open = FALSE] \in Session
    BY DEF Session
  <2> QED BY <2>1
<1>7. u.k = s.k + 1
  BY <1>5 DEF Session
<1>8. \/ /\ s.open /\ m.src = s.client /\ m.block = s.k % SequenceSize
         /\ s.k < LastK(s.bs) /\ NoneOutlives(t, s.k + 1, rest)
         /\ srv' = [srv EXCEPT ![t] = u] /\ net' = rest \union {SrvPacket(t, u)}
      \/ s.k >= LastK(s.bs) /\ srv' = [srv EXCEPT ![t] = v] /\ net' = rest
      \/ net' = rest /\ UNCHANGED srv
  <2>1. CASE ~(s.open /\ m.src = s.client /\ m.block = s.k % SequenceSize)
    BY <1>1, <1>2, <1>4, <2>1
  <2>2. CASE /\ s.open /\ m.src = s.client /\ m.block = s.k % SequenceSize
             /\ s.k < LastK(s.bs)
    BY <1>1, <1>2, <1>4, <1>5, <1>7, <2>2
  <2>3. CASE /\ s.open /\ m.src = s.client /\ m.block = s.k % SequenceSize
             /\ ~(s.k < LastK(s.bs))
    BY <1>1, <1>2, <1>3, <1>4, <1>6, <2>3
  <2> QED BY <2>1, <2>2, <2>3
<1>9. m.op = "ACK" /\ m.dst = t
  BY <1>1, <1>2
<1>10. \/ \E w \in Session : Advances(m, rest, t, s, w)
       \/ \E w \in Session : Closes(rest, t, s, w)
       \/ net' = rest /\ UNCHANGED srv
  BY <1>5, <1>6, <1>8 DEF Advances, Closes
<1>11. AckStep(m, rest, t, s)
  BY <1>2, <1>3, <1>9, <1>10 DEF AckStep
<1> QED BY <1>11

LEMMA AckKeepsWire ==
  ASSUME WireInv, SrvAck PROVE WireOK'
<1>0. WireOK /\ UNCHANGED <<TftpOurPort, NetArpWaitTxPacket>> /\ TftpOurPort \in Nat
  BY DEF WireInv, ClientOK, SrvAck, tftpVars
<1>1. PICK m \in net, rest \in SUBSET net, t \in Tid, s \in Session : AckStep(m, rest, t, s)
  BY AckEffect
<1>1a. s = srv[t] /\ TransferOK(s) /\ s.k \in Nat /\ LastK(s.bs) \in Nat
  BY <1>1 DEF AckStep
<1>2. LastK(s.bs) >= 1
  BY LastBlockExists DEF Session
<1>3. ASSUME NEW u \in Session, Advances(m, rest, t, s, u) PROVE WireOK'
  <2> USE DEF Advances
  <2>1. u.k = s.k + 1 /\ u.open = s.open /\ u.bs = s.bs /\ u.client = s.client
    BY <1>3 DEF Session
  <2>2. u # Free /\ TransferOK(u)
    BY <1>1a, <1>3, <2>1 DEF TransferOK, Free
  <2>3. srv'[t] = u
    BY <1>0, <1>3 DEF WireOK
  <2>4. PICK p : p = SrvPacket(t, u)
    OBVIOUS
  <2>5. PacketOK(p)'
    BY <2>2, <2>3, <2>4, SrvPacketOK
  <2>6. \A q \in net' : q \in net \/ PacketOK(q)'
    BY <1>3, <2>4, <2>5
  <2>7. ASSUME NEW q \in rest, q.op \in {"OACK", "DATA", "ERROR"}, q.src = t
        PROVE  FromTransfer(q)'
    BY <1>0, <1>1a, <1>3, <2>7, AdvanceKeeps
  <2>8. \A q \in net' \intersect net :
          PacketOK(q) /\ q.op \in {"OACK", "DATA", "ERROR"} /\ q.src = t => FromTransfer(q)'
    <3> SUFFICES ASSUME NEW q \in net', q.op \in {"OACK", "DATA", "ERROR"}, q.src = t
                 PROVE  FromTransfer(q)'
      OBVIOUS
    <3>1. CASE q \in rest
      BY <2>7, <3>1
    <3>2. CASE q = p
      <4>1. PacketOK(q)'
        BY <2>5, <3>2
      <4> QED BY <4>1 DEF PacketOK
    <3> QED BY <1>3, <2>4, <3>1, <3>2
  <2> QED BY <1>0, <1>3, <2>2, <2>6, <2>8, TransferKeepsWire
<1>4. ASSUME NEW u \in Session, Closes(rest, t, s, u) PROVE WireOK'
  <2> USE DEF Closes
  <2>1. u.k = s.k /\ u.bs = s.bs /\ u.client = s.client
    BY <1>4 DEF Session
  <2>2. u # Free /\ TransferOK(u)
    BY <1>1a, <1>2, <1>4, <2>1 DEF TransferOK, Free
  <2>3. srv'[t] = u /\ srv[t] = s
    BY <1>0, <1>1a, <1>4 DEF WireOK
  <2>4. \A q \in net' \intersect net :
          PacketOK(q) /\ q.op \in {"OACK", "DATA", "ERROR"} /\ q.src = t => FromTransfer(q)'
    <3> SUFFICES ASSUME NEW q, PacketOK(q), q.op \in {"OACK", "DATA", "ERROR"}, q.src = t
                 PROVE  FromTransfer(q)'
      OBVIOUS
    <3>1. FromTransfer(q)
      BY DEF PacketOK
    <3> QED BY <2>1, <2>2, <2>3, <3>1 DEF FromTransfer, DataOf, Recent, Free, LenOf, LastK
  <2>5. \A q \in net' : q \in net \/ PacketOK(q)'
    BY <1>4
  <2> QED BY <1>0, <1>4, <2>2, <2>4, <2>5, TransferKeepsWire
<1>5. ASSUME net' = rest, UNCHANGED srv PROVE WireOK'
  BY <1>0, <1>5, ClientKeepsWire
<1> QED BY <1>1, <1>3, <1>4, <1>5 DEF AckStep

\* The server and the network keep the wire in order.
LEMMA EnvKeeps ==
  ASSUME WireInv, ServerStep \/ Lose PROVE WireInv'
<1>0. ClientOK /\ LoadOK /\ WireOK /\ TftpOurPort \in Nat
  BY DEF WireInv, ClientOK
<1>1. UNCHANGED <<tftpVars, loadVars, NetServerEther, NetArpWaitTxPacket>>
  BY DEF ServerStep, Lose, SrvRrq, SrvAck, SrvArp, SrvResend
<1>2. faults' \in 0 .. MaxFaults
  <2>1. CASE ServerStep
    BY <2>1, FaultsBounded DEF ServerStep, SrvRrq, SrvAck, SrvArp, SrvResend, WireInv
  <2>2. CASE Lose
    BY <2>2, TftpAssumption DEF Lose, WireInv
  <2> QED BY <2>1, <2>2
<1>3. WireOK'
  <2>1. CASE SrvRrq
    BY <2>1, RrqKeepsWire
  <2>2. CASE SrvAck
    BY <2>2, AckKeepsWire
  <2>3. CASE SrvArp
    <3>1. \A q \in net' : q \in net \/ q.op = "ARPREP"
      BY <2>3, LeftIn DEF SrvArp
    <3>2. \A q \in net' : q \in net \/ PacketOK(q)'
      BY <3>1 DEF PacketOK
    <3> QED BY <1>0, <1>1, <2>3, <3>2, ClientKeepsWire DEF SrvArp, tftpVars
  <2>4. CASE SrvResend
    <3>1. PICK t, p :
            /\ t \in Tid
            /\ srv[t].open /\ p = SrvPacket(t, srv[t])
            /\ net' = net \union {p} /\ srv' = srv
      BY <2>4 DEF SrvResend
    <3> t \in Tid
      BY <3>1
    <3>2. srv[t] \in Session /\ srv[t] # Free
      BY <1>0, <3>1 DEF WireOK, Free
    <3>3. PacketOK(p)'
      BY <3>1, <3>2, SrvPacketOK
    <3> QED BY <1>0, <1>1, <3>1, <3>3, ClientKeepsWire DEF tftpVars
  <2>5. CASE Lose
    BY <1>0, <1>1, <2>5, ClientKeepsWire DEF Lose, tftpVars
  <2> QED BY <2>1, <2>2, <2>3, <2>4, <2>5 DEF ServerStep
<1> QED BY <1>0, <1>1, <1>2, <1>3 DEF WireInv, ClientOK, LoadOK, tftpVars, loadVars

\* The wire is in order at first, also under the dhcp command.
LEMMA WireInit == TftpInitBut => WireInv
<1> SUFFICES ASSUME TftpInitBut PROVE WireInv
  OBVIOUS
<1> USE DEF TftpInitBut
<1>1. ClientOK
  <2>1. 0 \in 0 .. SequenceSize - 1
    BY HalfTurnFits
  <2>2. NetServerEther \in BOOLEAN /\ miscounted \in BOOLEAN
    BY Zenon
  <2> QED BY <2>1, <2>2 DEF ClientOK
<1>2. LoadOK
  BY DEF LoadOK
<1>3. WireOK
  <2>1. Free \in Session /\ TransferOK(Free)
    <3>1. LastK(DefBlk) \in Nat
      BY LastBlockExists
    <3> QED BY <3>1 DEF Free, Session, TransferOK
  <2>2. NetArpWaitTxPacket.op = "none"
    BY DEF NoPacket
  <2> QED BY <2>1, <2>2 DEF WireOK, PacketOK
<1>4. faults \in 0 .. MaxFaults
  BY TftpAssumption
<1> QED BY <1>1, <1>2, <1>3, <1>4 DEF WireInv

\* It stays so with every step.
LEMMA WireStep == WireInv /\ [TftpNext]_vars => WireInv'
<1> SUFFICES ASSUME WireInv, [TftpNext]_vars PROVE WireInv'
  OBVIOUS
<1>1. CASE UNCHANGED others
  BY <1>1, IdleKeeps DEF others, loadVars, WireInv, LoadOK
<1>2. CASE RestartTftp
  BY <1>2, StartKeeps DEF RestartTftp, WireInv
<1>3. CASE TftpStep
  BY <1>3, ClientRxKeeps, TimeoutsKeep DEF TftpStep
<1>4. CASE EnvStep
  BY <1>4, EnvKeeps DEF EnvStep
<1>5. UNCHANGED vars => UNCHANGED others
  BY DEF vars, others
<1> QED BY <1>1, <1>2, <1>3, <1>4, <1>5 DEF TftpNext, ClientStep, LoopStep

\* Every variable of the client, the network and the server keeps its type,
\* for every file and block size, sequence size, number of transfers and of
\* devices: what store_block() writes are units of the file, for one.
THEOREM TftpTypeCorrect == TftpSpec => []TftpTypeOK
<1>1. TftpInit => LoopInv /\ WireInv /\ NetOurIP \in Nat
  <2>1. TftpInit => Init /\ TftpInitBut /\ NetOurIP \in Nat
    BY DEF TftpInit, TftpInitBut
  <2> QED BY <2>1, LoopInvInit, WireInit
<1>2. LoopInv /\ WireInv /\ NetOurIP \in Nat /\ [TftpNext]_vars
        => (LoopInv /\ WireInv /\ NetOurIP \in Nat)'
  <2> SUFFICES ASSUME LoopInv, WireInv, NetOurIP \in Nat, [TftpNext]_vars
               PROVE  LoopInv' /\ WireInv' /\ NetOurIP' \in Nat
    OBVIOUS
  <2>1. LoopInv'
    BY TftpStepAsLoop, LoopInvStep
  <2>2. NetOurIP' = NetOurIP
    BY DEF TftpNext, vars, ClientStep, LoopStep, others, RestartTftp, TftpStep, ClientRx,
           RxIgnored, RxOack, RxDataNotFirst, RxDataAgain, RxDataStore, RxError, RxArp,
           AtTftp, TftpArpRetry, TftpArpGiveUp, TftpTimeout, EnvStep, ServerStep, Lose,
           SrvRrq, SrvAck, SrvArp, SrvResend
  <2> QED BY <2>1, <2>2, WireStep
<1>3. LoopInv /\ WireInv /\ NetOurIP \in Nat => TftpTypeOK
  BY DEF LoopInv, WireInv, ClientOK, LoadOK, WireOK, TftpTypeOK
<1> QED BY <1>1, <1>2, <1>3, PTL DEF TftpSpec

-----------------------------------------------------------------------------
(***************************************************************************)
(* The attempt in progress, unless the client has lost count.  Its port is *)
(* its own.  Until it has an answer none of its transfers is past its      *)
(* first packet.  Then it is bound to one transfer, s: the client has      *)
(* stored the blocks up to x, the last one it received is block c, and the *)
(* server is at x or one block on.                                         *)
(***************************************************************************)
\* Transfer t was opened by a request of this attempt.
Ours(t) == srv[t] # Free /\ srv[t].client = TftpOurPort

\* A request goes out only when the server's MAC address is known.
Asked ==
  /\ NetServerEther => ~NetArpWait
  /\ NetArpWait => NetArpWaitTxPacket = Rrq(TftpOurPort, WELL_KNOWN_PORT)
  /\ ~NetServerEther =>
       /\ TftpState = "RRQ"
       /\ \A t \in Tid : ~Ours(t)
       /\ \A m \in net : m.op = "RRQ" => m.src # TftpOurPort
  /\ TftpState = "RRQ" => TftpServerPort = WELL_KNOWN_PORT

Waiting ==
  /\ NetBootFileXferSize = 0 /\ TftpBlkSize = DefBlk /\ TftpBlock = 0
  /\ NetState # "SUCCESS"
  /\ \A m \in net : m.op = "ACK" => m.src # TftpOurPort
  /\ \A t \in Tid : Ours(t) => srv[t].k \in {0, 1} /\ (srv[t].k = 1 => srv[t].bs = DefBlk)

\* The attempt's acknowledgements in flight are for blocks it has stored.
AckOK(m, s, x) ==
  m.op = "ACK" /\ m.src = TftpOurPort =>
    /\ m.dst = TftpServerPort
    /\ \E j \in 0 .. x : m.block = j % SequenceSize /\ Recent(j + HalfTurn, s.k)

Counts(s, x, c) ==
  /\ s = srv[TftpServerPort] /\ s.client = TftpOurPort /\ s # Free
  /\ TftpBlkSize = s.bs
  /\ x <= s.k /\ s.k <= x + 1
  /\ c <= x /\ Recent(c, x)
  /\ TftpBlock = c % SequenceSize
  /\ NetBootFileXferSize = End(s.bs, x)
  /\ TftpState = "OACK" => x = 0
  /\ TftpState = "DATA" => /\ c >= 1 /\ TftpLastBlock = TftpBlock
                           /\ TftpBlockWrapOffset = (c - TftpLastBlock) * s.bs
  /\ \A a \in 0 .. NetBootFileXferSize - 1 : Holds(a)

Loading(s, x, c) ==
  /\ Counts(s, x, c)
  /\ NetState = "SUCCESS" => x = LastK(s.bs)
  /\ \A m \in net : AckOK(m, s, x)

CountInv ==
  ~miscounted => IF TftpState = "RRQ" THEN Waiting
                 ELSE \E s \in Session, x \in Nat, c \in Nat : Loading(s, x, c)

AttemptInv == Asked /\ CountInv

\* A step that neither the transfer nor the client's counting is part of.
LEMMA QuietStep ==
  ASSUME AttemptInv,
         UNCHANGED <<TftpState, TftpServerPort, TftpOurPort, TftpBlock, TftpLastBlock,
                     TftpBlockWrapOffset, TftpBlkSize, loadVars, NetServerEther,
                     NetArpWaitTxPacket, srv>>,
         NetState' = "SUCCESS" => NetState = "SUCCESS",
         NetArpWait' => NetArpWait,
         \A m \in net' : m \in net \/ m.op \notin {"RRQ", "ACK"}
  PROVE  AttemptInv'
<1>1. Asked'
  BY DEF AttemptInv, Asked, Ours, Rrq
<1>2. CASE ~miscounted /\ TftpState = "RRQ"
  <2>1. Waiting
    BY <1>2 DEF AttemptInv, CountInv
  <2>2. Waiting'
    BY <2>1 DEF Waiting, Ours, loadVars
  <2> QED BY <1>1, <1>2, <2>2 DEF AttemptInv, CountInv
<1>3. CASE ~miscounted /\ TftpState # "RRQ"
  <2>1. PICK s \in Session, x \in Nat, c \in Nat : Loading(s, x, c)
    BY <1>3 DEF AttemptInv, CountInv
  <2>2. Counts(s, x, c)'
    BY <2>1 DEF Loading, Counts, loadVars, Recent, End, LenOf, LastK, Free, Holds
  <2>3. \A m \in net' : AckOK(m, s, x)'
    BY <2>1 DEF Loading, AckOK, Recent
  <2>4. Loading(s, x, c)'
    BY <2>1, <2>2, <2>3 DEF Loading, LastK
  <2> QED BY <1>1, <1>3, <2>4 DEF AttemptInv, CountInv
<1>4. CASE miscounted
  BY <1>1, <1>4 DEF AttemptInv, CountInv, loadVars
<1> QED BY <1>2, <1>3, <1>4

\* What NetStartAgain() can leave in NetState.
LEMMA StartAgainState ==
  ASSUME NEW ns, NEW th, NEW t, NetStartAgain(ns, th, t)
  PROVE  NetState' \in {"FAIL", "RESTART", ns}
BY DEF NetStartAgain, GiveUp, TryNextDevice

\* A packet for the handler: the MAC address is known by then, and sends go
\* out at once.
LEMMA AnswerToOurs ==
  ASSUME WireInv, AttemptInv, NEW m \in net, ForUs(m)
  PROVE  Ours(m.src) /\ NetServerEther = TRUE
<1>1. m.src \in Tid /\ Ours(m.src)
  BY PacketForUs DEF WireInv, Ours
<1>2. NetServerEther
  BY <1>1 DEF AttemptInv, Asked
<1>3. NetServerEther \in BOOLEAN
  BY DEF WireInv, ClientOK
<1> QED BY <1>1, <1>2, <1>3

LEMMA SendsAtOnce ==
  ASSUME NEW rest, NEW p, NetServerEther = TRUE, NetSendUDPPacket(NetServerEther, rest, p)
  PROVE  /\ net' \subseteq rest \union {p}
         /\ UNCHANGED <<NetArpWait, NetArpWaitTxPacket, NetServerEther>>
BY DEF NetSendUDPPacket, EthSend, arpVars

\* With the address known the first part of the invariant is soon kept.
LEMMA AskedKept ==
  ASSUME Asked, NetServerEther = TRUE,
         UNCHANGED <<NetArpWait, NetArpWaitTxPacket, NetServerEther, TftpOurPort>>,
         TftpState' # "RRQ" \/ UNCHANGED <<TftpState, TftpServerPort>>
  PROVE  Asked'
BY DEF Asked, Rrq

\* A new attempt begins under a port that nobody has seen.
LEMMA StartBegins ==
  ASSUME WireInv, TftpStart(net), srv' = srv, NetBootFileXferSize' = 0,
         NetState' # "SUCCESS"
  PROVE  AttemptInv'
<1>0. TftpOurPort \in Nat /\ TftpOurPort' = TftpOurPort + 1 /\ WireOK
  BY DEF WireInv, ClientOK, TftpStart
<1>1. \A m \in net' : m \in net \/ m.op = "ARPREQ"
  BY DEF TftpStart, NetSendUDPPacket, EthSend, ArpReq
<1>2. /\ NetServerEther' = FALSE /\ NetArpWait' = TRUE
      /\ NetArpWaitTxPacket' = TftpPacket("RRQ", TftpOurPort', WELL_KNOWN_PORT, 0)
      /\ TftpState' = "RRQ" /\ TftpServerPort' = WELL_KNOWN_PORT
  BY DEF TftpStart, NetSendUDPPacket, SendStartsArp
<1>3. \A t \in Tid : ~Ours(t)'
  <2> SUFFICES ASSUME NEW t \in Tid, Ours(t)' PROVE FALSE
    OBVIOUS
  <2>1. srv[t].client \in Nat /\ srv[t].client <= TftpOurPort
    BY <1>0 DEF WireOK, Session, TransferOK
  <2> QED BY <1>0, <2>1 DEF Ours
<1>4. \A m \in net' : m.op \in {"RRQ", "ACK"} => m.src # TftpOurPort'
  <2> SUFFICES ASSUME NEW m \in net', m.op \in {"RRQ", "ACK"}, m.src = TftpOurPort' PROVE FALSE
    OBVIOUS
  <2>1. m.src \in 0 .. TftpOurPort
    BY <1>0, <1>1 DEF WireOK, PacketOK
  <2> QED BY <1>0, <2>1
<1>5. Asked'
  BY <1>2, <1>3, <1>4 DEF Asked, TftpPacket, Rrq
<1>6. Waiting'
  BY <1>3, <1>4 DEF Waiting, TftpStart
<1> QED BY <1>2, <1>5, <1>6 DEF AttemptInv, CountInv

\* The ARP reply: the request goes out.
LEMMA ArpSends ==
  ASSUME WireInv, AttemptInv, RxArp PROVE AttemptInv'
<1>1. PICK m \in net, dup \in BOOLEAN :
        /\ AtTftp(m, dup) /\ HandlerIgnores
        /\ UNCHANGED <<tftpVars, loadVars, NetArpWaitTxPacket>>
        /\ \/ /\ NetArpWait /\ NetServerEther' = TRUE /\ NetArpWait' = FALSE
              /\ EthSend(Left(m, dup), NetArpWaitTxPacket)
           \/ net' = Left(m, dup) /\ UNCHANGED <<NetArpWait, NetServerEther>>
  BY DEF RxArp
<1>2. srv' = srv /\ NetState' = NetState
  BY <1>1 DEF AtTftp, AtClient, HandlerIgnores
<1>3. CASE net' = Left(m, dup) /\ UNCHANGED <<NetArpWait, NetServerEther>>
  <2>1. net' \subseteq net
    BY <1>3, LeftIn
  <2> QED BY <1>1, <1>2, <1>3, <2>1, QuietStep DEF tftpVars
<1>4. CASE /\ NetArpWait /\ NetServerEther' = TRUE /\ NetArpWait' = FALSE
           /\ EthSend(Left(m, dup), NetArpWaitTxPacket)
  <2>1. ~NetServerEther /\ NetArpWaitTxPacket = Rrq(TftpOurPort, WELL_KNOWN_PORT)
        /\ TftpState = "RRQ"
    BY <1>4 DEF AttemptInv, Asked
  <2>2. \A q \in net' : q \in net \/ q.op = "RRQ"
    BY <1>4, <2>1, LeftIn DEF EthSend, Rrq
  <2>3. Asked'
    BY <1>1, <1>4, <2>1 DEF AttemptInv, Asked, tftpVars
  <2>4. ~miscounted => Waiting'
    <3> SUFFICES ASSUME ~miscounted PROVE Waiting'
      OBVIOUS
    <3>1. Waiting
      BY <2>1 DEF AttemptInv, CountInv
    <3>2. \A q \in net' : q.op = "ACK" => q.src # TftpOurPort
      BY <2>2, <3>1 DEF Waiting
    <3> QED BY <1>1, <1>2, <3>1, <3>2 DEF Waiting, Ours, tftpVars, loadVars
  <2> QED BY <1>1, <2>1, <2>3, <2>4 DEF AttemptInv, CountInv, tftpVars, loadVars
<1> QED BY <1>1, <1>3, <1>4

\* A timeout repeats the request or the acknowledgement of block c.
LEMMA TimeoutResends ==
  ASSUME WireInv, AttemptInv, TftpTimeout PROVE AttemptInv'
<1>0. /\ UNCHANGED <<TftpState, TftpServerPort, TftpOurPort, TftpBlock, TftpLastBlock,
                     TftpBlockWrapOffset, TftpBlkSize, loadVars, srv>>
      /\ TftpOurPort \in Nat /\ NetServerEther \in BOOLEAN
  BY DEF TftpTimeout, WireInv, ClientOK
<1>1. CASE ProtoTimeoutStartsAgain /\ UNCHANGED sendVars
  <2>1. NetState' = "SUCCESS" => NetState = "SUCCESS"
    BY <1>1, StartAgainState DEF ProtoTimeoutStartsAgain
  <2> QED BY <1>0, <1>1, <2>1, QuietStep DEF ProtoTimeoutStartsAgain, arpVars, sendVars
<1>2. CASE /\ ProtoTimeoutResends
           /\ NetSendUDPPacket(NetServerEther, net,
                TftpPacket(TftpState, TftpOurPort, TftpServerPort, TftpBlock))
  <2>0. NetState' = NetState
    BY <1>2 DEF ProtoTimeoutResends
  <2>1. CASE ~NetServerEther
    <3>1. /\ TftpState = "RRQ" /\ TftpServerPort = WELL_KNOWN_PORT
          /\ NetServerEther = FALSE
      BY <1>0, <2>1 DEF AttemptInv, Asked
    <3>2. /\ \A m \in net' : m \in net \/ m.op = "ARPREQ"
          /\ NetServerEther' = FALSE
          /\ NetArpWaitTxPacket' = Rrq(TftpOurPort, WELL_KNOWN_PORT)
      BY <1>2, <3>1
      DEF NetSendUDPPacket, EthSend, ArpReq, SendStartsArp, TftpPacket
    <3>3. Asked'
      BY <1>0, <3>1, <3>2 DEF AttemptInv, Asked, Ours, Rrq
    <3>4. ~miscounted => Waiting'
      BY <1>0, <2>0, <3>1, <3>2 DEF AttemptInv, CountInv, Waiting, Ours, loadVars
    <3> QED BY <1>0, <3>1, <3>3, <3>4 DEF AttemptInv, CountInv, loadVars
  <2>2. CASE NetServerEther
    <3>0. PICK p : p = TftpPacket(TftpState, TftpOurPort, TftpServerPort, TftpBlock)
      OBVIOUS
    <3>1. /\ net' \subseteq net \union {p}
          /\ UNCHANGED <<NetArpWait, NetArpWaitTxPacket, NetServerEther>>
      BY <1>0, <1>2, <2>2, <3>0, SendsAtOnce
    <3>2. Asked'
      BY <1>0, <2>2, <3>1, AskedKept DEF AttemptInv
    <3>3. CASE ~miscounted /\ TftpState = "RRQ"
      <4>1. p.op = "RRQ"
        BY <3>0, <3>3 DEF TftpPacket, Rrq
      <4>2. Waiting'
        BY <1>0, <2>0, <3>1, <3>3, <4>1 DEF AttemptInv, CountInv, Waiting, Ours, loadVars
      <4> QED BY <1>0, <3>2, <3>3, <4>2 DEF AttemptInv, CountInv, loadVars
    <3>4. CASE ~miscounted /\ TftpState # "RRQ"
      <4>1. PICK s \in Session, x \in Nat, c \in Nat : Loading(s, x, c)
        BY <3>4 DEF AttemptInv, CountInv
      <4>2. Counts(s, x, c)'
        BY <1>0, <4>1 DEF Loading, Counts, loadVars, Recent, End, LenOf, LastK, Free, Holds
      <4>3. p.block = c % SequenceSize /\ p.dst = TftpServerPort
        BY <3>0, <3>4, <4>1 DEF TftpPacket, Ack, Loading, Counts
      <4>4. c \in 0 .. x /\ Recent(c + HalfTurn, s.k)
        <5>1. /\ s.k \in Nat /\ c \in Nat /\ x \in Nat
              /\ Recent(c, x) /\ c <= x /\ s.k <= x + 1
          BY <4>1 DEF Session, Loading, Counts
        <5> QED BY <5>1, RecentAck
      <4>5. \A m \in net' : AckOK(m, s, x)'
        <5> SUFFICES ASSUME NEW m \in net' PROVE AckOK(m, s, x)'
          OBVIOUS
        <5>1. CASE m \in net
          BY <1>0, <4>1, <5>1 DEF Loading, AckOK, Recent
        <5>2. CASE m = p
          BY <1>0, <4>3, <4>4, <5>2 DEF AckOK, Recent
        <5> QED BY <3>1, <5>1, <5>2
      <4>6. Loading(s, x, c)'
        BY <2>0, <4>1, <4>2, <4>5 DEF Loading, LastK
      <4> QED BY <1>0, <3>2, <3>4, <4>6 DEF AttemptInv, CountInv
    <3>5. CASE miscounted
      BY <1>0, <3>2, <3>5 DEF AttemptInv, CountInv, loadVars
    <3> QED BY <3>3, <3>4, <3>5
  <2> QED BY <2>1, <2>2
<1> QED BY <1>1, <1>2 DEF TftpTimeout

\* The end of a block grows with its number.
LEMMA EndGrows ==
  ASSUME NEW bs \in Nat, bs > 0, NEW i \in Nat, NEW k \in Nat, i <= k, k <= LastK(bs)
  PROVE  End(bs, i) \in Nat /\ End(bs, k) \in Nat /\ End(bs, i) <= End(bs, k)
<1>1. ASSUME NEW n \in Nat, n <= LastK(bs) PROVE End(bs, n) \in Nat
  <2>1. CASE n = 0
    BY <2>1 DEF End
  <2>2. CASE n # 0
    <3>1. LenOf(bs, n) \in 0 .. bs /\ (n - 1) * bs \in Nat
      BY <1>1, <2>2, FileInBlocks
    <3> QED BY <2>2, <3>1 DEF End
  <2> QED BY <2>1, <2>2
<1>2. FileLen \div bs \in Nat
  BY ModDef, TftpAssumption
<1>3. LastK(bs) \in Nat
  BY <1>2 DEF LastK
<1>4. CASE i = k
  BY <1>1, <1>4
<1>5. CASE i < k
  <2>1. i + 1 \in Nat /\ i + 1 > 0 /\ i + 1 <= LastK(bs) /\ i <= LastK(bs)
    BY <1>3, <1>5
  <2>2. End(bs, (i + 1) - 1) = ((i + 1) - 1) * bs
    BY <2>1, FileInBlocks
  <2>3. (i + 1) - 1 = i
    OBVIOUS
  <2>4. End(bs, i) = i * bs
    BY <2>2, <2>3
  <2>5. LenOf(bs, k) \in 0 .. bs /\ (k - 1) * bs \in Nat
    BY <1>5, FileInBlocks
  <2>6. i * bs <= (k - 1) * bs
    <3>1. k - 1 - i \in Nat
      BY <1>5
    <3>2. (k - 1 - i) * bs \in Nat
      BY <3>1
    <3>3. (k - 1) * bs = i * bs + (k - 1 - i) * bs
      BY <3>1
    <3>4. i * bs \in Nat
      OBVIOUS
    <3> QED BY <3>2, <3>3, <3>4
  <2>7. End(bs, k) = (k - 1) * bs + LenOf(bs, k)
    BY <1>5 DEF End
  <2>8. i * bs \in Nat
    OBVIOUS
  <2> QED BY <1>1, <2>1, <2>4, <2>5, <2>6, <2>7, <2>8
<1> QED BY <1>4, <1>5

\* Storing a block that is stored already, or the one after them, keeps what
\* has been received a prefix of the file.
LEMMA StoreKeepsPrefix ==
  ASSUME LoadOK, NEW bs \in Nat, bs > 0, NEW x \in Nat, NEW j \in Nat, j > 0, j <= x + 1,
         x <= LastK(bs), j <= LastK(bs),
         NetBootFileXferSize = End(bs, x),
         \A a \in 0 .. NetBootFileXferSize - 1 : Holds(a),
         NEW m, m.base = (j - 1) * bs, m.len = LenOf(bs, j),
         StoreBlock((j - 1) * bs, m),
         NEW y, y = IF j <= x THEN x ELSE j
  PROVE  /\ NetBootFileXferSize' = End(bs, y)
         /\ \A a \in 0 .. NetBootFileXferSize' - 1 : Holds(a)'
<1>0. FileLen \in Nat /\ MemSize \in Nat /\ FileLen <= MemSize
  BY TftpAssumption
<1> DEFINE o == (j - 1) * bs
<1>1. /\ m.len \in Nat /\ o \in Nat /\ o + m.len <= FileLen
      /\ End(bs, j - 1) = o /\ End(bs, j) = o + m.len
  BY FileInBlocks DEF End
<1>2. /\ End(bs, x) \in Nat /\ End(bs, j) \in Nat
      /\ j <= x => End(bs, j) <= End(bs, x)
      /\ j = x + 1 => End(bs, x) <= End(bs, j) /\ End(bs, x) = o
  <2>1. End(bs, x) \in Nat /\ End(bs, j) \in Nat
    BY EndGrows
  <2>2. j <= x => End(bs, j) <= End(bs, x)
    BY EndGrows
  <2>3. x <= j => End(bs, x) <= End(bs, j)
    BY EndGrows
  <2>4. j = x + 1 => x = j - 1 /\ x <= j
    OBVIOUS
  <2> QED BY <1>1, <2>1, <2>2, <2>3, <2>4
<1>3. /\ mem' = [a \in 0 .. MemSize - 1 |->
                   IF o <= a /\ a < o + m.len THEN m.base + (a - o) ELSE mem[a]]
      /\ NetBootFileXferSize' =
           IF NetBootFileXferSize < o + m.len THEN o + m.len ELSE NetBootFileXferSize
  BY DEF StoreBlock, CopyUnits, GrowTo
<1>4. m.base = o
  OBVIOUS
<1> HIDE DEF o
<1>5. CASE j <= x
  <2>1. NetBootFileXferSize' = NetBootFileXferSize /\ y = x
    BY <1>1, <1>2, <1>3, <1>5
  <2>2. ASSUME NEW a \in 0 .. NetBootFileXferSize' - 1 PROVE Holds(a)'
    <3>1. a \in 0 .. MemSize - 1 /\ mem[a] = a /\ a \in Int
      BY <1>0, <1>2, <2>1 DEF Holds
    <3>2. mem'[a] = a
      BY <1>1, <1>3, <1>4, <3>1
    <3> QED BY <3>1, <3>2 DEF Holds
  <2> QED BY <2>1, <2>2
<1>6. CASE j = x + 1
  <2>1. y = j /\ NetBootFileXferSize' = End(bs, j) /\ NetBootFileXferSize = o
    BY <1>1, <1>2, <1>3, <1>6
  <2>2. ASSUME NEW a \in 0 .. NetBootFileXferSize' - 1 PROVE Holds(a)'
    <3>1. a \in 0 .. MemSize - 1 /\ a \in Int /\ a < o + m.len
      BY <1>0, <1>1, <2>1
    <3>2. CASE a < o
      <4>1. mem[a] = a
        BY <1>1, <2>1, <3>1, <3>2 DEF Holds
      <4>2. mem'[a] = a
        BY <1>1, <1>3, <3>1, <3>2, <4>1
      <4> QED BY <3>1, <4>2 DEF Holds
    <3>3. CASE o <= a
      <4>1. mem'[a] = a
        BY <1>1, <1>3, <1>4, <3>1, <3>3
      <4> QED BY <3>1, <4>1 DEF Holds
    <3> QED BY <1>1, <3>1, <3>2, <3>3
  <2> QED BY <2>1, <2>2
<1>7. j <= x \/ j = x + 1
  OBVIOUS
<1> QED BY <1>5, <1>6, <1>7

\* One more acknowledgement, of block c to the transfer in progress.
LEMMA AckJoins ==
  ASSUME NEW s \in Session, NEW x \in Nat, NEW c \in Nat, Counts(s, x, c)',
         NEW p, p.block = c % SequenceSize, p.dst = TftpServerPort',
         \A m \in net' : m = p \/ AckOK(m, s, x)'
  PROVE  \A m \in net' : AckOK(m, s, x)'
<1>1. /\ s.k \in Nat /\ Recent(c, x) /\ c <= x /\ s.k <= x + 1
  BY DEF Session, Counts, Recent
<1>2. c \in 0 .. x /\ Recent(c + HalfTurn, s.k)
  BY <1>1, RecentAck
<1>3. AckOK(p, s, x)'
  BY <1>2 DEF AckOK, Recent
<1> QED BY <1>3

\* The option acknowledgement binds the attempt to its transfer.
LEMMA OackBinds ==
  ASSUME WireInv, AttemptInv, RxOack PROVE AttemptInv'
<1>1. PICK m \in net, dup \in BOOLEAN :
        /\ AtTftp(m, dup) /\ ForUs(m)
        /\ m.op = "OACK"
        /\ TftpState' = "OACK"
        /\ TftpServerPort' = m.src
        /\ TftpBlkSize' = m.blksize
        /\ NetSendUDPPacket(NetServerEther, Left(m, dup),
             TftpPacket("OACK", TftpOurPort, m.src, TftpBlock))
        /\ miscounted' = (miscounted \/ TftpState = "DATA")
        /\ HandlerIgnores
        /\ UNCHANGED <<TftpOurPort, TftpBlock, TftpLastBlock, TftpBlockWrapOffset, mem,
                       NetBootFileXferSize>>
  BY DEF RxOack
<1>2. srv' = srv /\ NetState' = NetState
  BY <1>1 DEF AtTftp, AtClient, HandlerIgnores
<1>3. PICK p : p = TftpPacket("OACK", TftpOurPort, m.src, TftpBlock)
  OBVIOUS
<1>4. NetServerEther = TRUE /\ Ours(m.src)
  BY <1>1, AnswerToOurs
<1>5. /\ \A q \in net' : q \in net \/ q = p
      /\ UNCHANGED <<NetArpWait, NetArpWaitTxPacket, NetServerEther>>
  <2>1. PICK rest \in SUBSET net : rest = Left(m, dup)
    BY LeftIn
  <2>2. NetSendUDPPacket(NetServerEther, rest, p)
    BY <1>1, <1>3, <2>1
  <2> QED BY <1>4, <2>2, SendsAtOnce
<1>6. Asked'
  BY <1>1, <1>4, <1>5, AskedKept DEF AttemptInv
<1>7. p.block = TftpBlock /\ p.dst = m.src
  BY <1>3 DEF TftpPacket, Ack
<1>8. PICK s \in Session : s = srv[m.src] /\ s # Free /\ s.client = TftpOurPort /\ m.blksize = s.bs
  BY <1>1, PacketForUs DEF WireInv
<1>9. 0 % SequenceSize = 0 /\ Recent(0, 0)
  BY HalfTurnFits DEF Recent
<1>10. CASE ~miscounted /\ TftpState = "RRQ"
  <2>1. Waiting /\ m.src \in Tid
    BY <1>1, <1>10, PacketForUs DEF AttemptInv, CountInv, WireInv
  <2>2. s.k \in {0, 1} /\ TftpBlock = 0 /\ NetBootFileXferSize = 0 /\ NetState # "SUCCESS"
    BY <1>4, <1>8, <2>1 DEF Waiting
  <2>3. Counts(s, 0, 0)'
    BY <1>1, <1>2, <1>8, <1>9, <2>2 DEF Counts, End, Free, Recent
  <2>4. \A q \in net' : q = p \/ AckOK(q, s, 0)'
    BY <1>1, <1>5, <2>1 DEF Waiting, AckOK
  <2>5. \A q \in net' : AckOK(q, s, 0)'
    BY <1>1, <1>7, <1>9, <2>2, <2>3, <2>4, AckJoins
  <2>6. Loading(s, 0, 0)'
    BY <1>2, <2>2, <2>3, <2>5 DEF Loading
  <2> QED BY <1>1, <1>6, <2>6 DEF AttemptInv, CountInv
<1>11. CASE ~miscounted /\ TftpState = "OACK"
  <2>1. PICK r \in Session, x \in Nat, c \in Nat : Loading(r, x, c)
    BY <1>11 DEF AttemptInv, CountInv
  <2>2. r = s /\ m.src = TftpServerPort
    BY <1>1, <1>8, <1>11, <2>1 DEF ForUs, Loading, Counts
  <2>3. Counts(s, x, c)'
    BY <1>1, <1>2, <1>8, <1>11, <2>1, <2>2
    DEF Loading, Counts, Recent, End, LenOf, LastK, Free, Holds
  <2>4. \A q \in net' : q = p \/ AckOK(q, s, x)'
    BY <1>1, <1>5, <2>1, <2>2 DEF Loading, AckOK, Recent
  <2>5. \A q \in net' : AckOK(q, s, x)'
    <3>1. p.block = c % SequenceSize
      BY <1>7, <2>1 DEF Loading, Counts
    <3> QED BY <1>1, <1>7, <2>3, <2>4, <3>1, AckJoins
  <2>6. Loading(s, x, c)'
    BY <1>2, <2>1, <2>2, <2>3, <2>5 DEF Loading, LastK
  <2> QED BY <1>1, <1>6, <2>6 DEF AttemptInv, CountInv
<1>12. CASE miscounted \/ TftpState = "DATA"
  BY <1>1, <1>6, <1>12 DEF AttemptInv, CountInv
<1>13. TftpState \in {"RRQ", "OACK", "DATA"}
  BY DEF WireInv, ClientOK
<1> QED BY <1>10, <1>11, <1>12, <1>13

\* The first block of a transfer that has just been opened is block 1: the
\* handler finds another one only when it has lost count.
LEMMA NotFirstIsMiscounted ==
  ASSUME WireInv, AttemptInv, RxDataNotFirst PROVE AttemptInv'
<1>1. PICK m \in net, dup \in BOOLEAN :
        /\ AtTftp(m, dup) /\ ForUs(m)
        /\ m.op = "DATA" /\ FirstBlock /\ m.block # 1
        /\ TftpState' = "DATA"
        /\ UNCHANGED <<TftpOurPort, loadVars, arpVars, NetServerEther, NetArpWaitTxPacket>>
  BY DEF RxDataNotFirst
<1>2. NetServerEther = TRUE /\ Ours(m.src) /\ m.src \in Tid
  BY <1>1, AnswerToOurs, PacketForUs DEF WireInv
<1>3. Asked'
  BY <1>1, <1>2, AskedKept DEF AttemptInv, arpVars
<1>4. PICK j \in 1 .. srv[m.src].k : m.block = j % SequenceSize
  BY <1>1, PacketForUs DEF WireInv
<1>5. ASSUME ~miscounted PROVE srv[m.src].k \in {0, 1}
  <2>1. CASE TftpState = "RRQ"
    BY <1>2, <1>5, <2>1 DEF AttemptInv, CountInv, Waiting
  <2>2. CASE TftpState = "OACK"
    <3>1. PICK s \in Session, x \in Nat, c \in Nat : Loading(s, x, c)
      BY <1>5, <2>2 DEF AttemptInv, CountInv
    <3>2. x = 0 /\ s = srv[m.src] /\ s.k <= x + 1 /\ s.k \in Nat
      BY <1>1, <2>2, <3>1 DEF ForUs, Loading, Counts, Session
    <3> QED BY <3>2
  <2> QED BY <1>1, <2>1, <2>2 DEF FirstBlock
<1>6. miscounted
  <2> SUFFICES ASSUME ~miscounted PROVE FALSE
    OBVIOUS
  <2>1. j = 1
    BY <1>4, <1>5
  <2>2. 1 % SequenceSize = 1
    BY HalfTurnFits
  <2> QED BY <1>1, <1>4, <2>1, <2>2
<1> QED BY <1>1, <1>3, <1>6 DEF AttemptInv, CountInv, loadVars

\* The same block again.
LEMMA AgainIsQuiet ==
  ASSUME WireInv, AttemptInv, RxDataAgain PROVE AttemptInv'
<1>1. PICK m \in net, dup \in BOOLEAN :
        /\ AtTftp(m, dup) /\ ForUs(m)
        /\ m.op = "DATA" /\ ~FirstBlock /\ m.block = TftpLastBlock
        /\ TftpBlock' = m.block
        /\ TftpBlockWrapOffset' = WrapOffset(m)
        /\ miscounted' = (miscounted \/ CountedTwice(m))
        /\ net' = Left(m, dup)
        /\ HandlerIgnores
        /\ UNCHANGED <<TftpState, TftpServerPort, TftpOurPort, TftpLastBlock, TftpBlkSize, mem,
                       NetBootFileXferSize, arpVars, NetServerEther, NetArpWaitTxPacket>>
  BY DEF RxDataAgain
<1>2. srv' = srv /\ NetState' = NetState /\ net' \subseteq net
  BY <1>1, LeftIn DEF AtTftp, AtClient, HandlerIgnores
<1>3. NetServerEther = TRUE
  BY <1>1, AnswerToOurs
<1>4. Asked'
  BY <1>1, <1>3, AskedKept DEF AttemptInv, arpVars
<1>5. CASE miscounted'
  BY <1>4, <1>5 DEF AttemptInv, CountInv
<1>6. CASE ~miscounted'
  <2>1. ~miscounted /\ m.block # 0
    <3>1. 0 # SequenceSize - 1
      BY HalfTurnFits
    <3>2. m.block = 0 => CountedTwice(m)
      BY <1>1, <3>1 DEF CountedTwice
    <3>3. ~miscounted /\ ~CountedTwice(m)
      BY <1>1, <1>6, Zenon
    <3> QED BY <3>2, <3>3
  <2>2. TftpBlockWrapOffset' = TftpBlockWrapOffset
    BY <1>1, <2>1, WrapOffsetType DEF WireInv
  <2>3. TftpState = "DATA"
    BY <1>1 DEF FirstBlock, WireInv, ClientOK
  <2>4. PICK s \in Session, x \in Nat, c \in Nat : Loading(s, x, c)
    BY <2>1, <2>3 DEF AttemptInv, CountInv
  <2>5. TftpBlock' = TftpBlock
    BY <1>1, <2>3, <2>4 DEF Loading, Counts
  <2>6. miscounted \in BOOLEAN /\ miscounted' \in BOOLEAN
    BY <1>1, Zenon DEF WireInv, ClientOK
  <2>7. UNCHANGED loadVars
    BY <1>1, <1>6, <2>1, <2>6 DEF loadVars
  <2> QED BY <1>1, <1>2, <2>2, <2>5, <2>7, QuietStep DEF arpVars
<1> QED BY <1>5, <1>6

\* The wrap-around is counted right: block j goes where it belongs.
LEMMA OffsetIsRight ==
  ASSUME ClientOK, NEW bs \in {DefBlk, OptBlk}, TftpBlkSize = bs,
         NEW k \in Nat, NEW x \in Nat, NEW c \in Nat, NEW j \in Nat,
         x <= k, k <= x + 1, c <= x, Recent(c, x), j > 0, j <= k, Recent(j, k), k <= LastK(bs),
         TftpLastBlock = c % SequenceSize,
         TftpBlockWrapOffset = (c - TftpLastBlock) * bs,
         NEW m, m.block = j % SequenceSize,
         m.block = 0 => TftpLastBlock = SequenceSize - 1
  PROVE  /\ WrapOffset(m) = (j - m.block) * bs
         /\ (m.block - 1) * bs + WrapOffset(m) = (j - 1) * bs
<1>0. /\ bs \in Nat /\ bs > 0 /\ LastK(bs) \in Nat /\ SequenceSize \in Nat /\ SequenceSize > 1
      /\ j % SequenceSize \in 0 .. SequenceSize - 1
      /\ c % SequenceSize \in 0 .. SequenceSize - 1
      /\ m.block \in Nat
  <2>1. SequenceSize \in Nat /\ SequenceSize > 1
    BY HalfTurnFits
  <2>2. /\ j % SequenceSize \in 0 .. SequenceSize - 1
        /\ c % SequenceSize \in 0 .. SequenceSize - 1
    BY <2>1, ModDef
  <2>3. bs \in Nat /\ bs > 0 /\ LastK(bs) \in Nat
    BY LastBlockExists
  <2>4. m.block \in Nat
    BY <2>1, <2>2
  <2> QED BY <2>1, <2>2, <2>3, <2>4
<1>1. /\ j % SequenceSize # 0 => j - (j % SequenceSize) = c - (c % SequenceSize)
      /\ j % SequenceSize = 0 /\ c % SequenceSize = SequenceSize - 1 => j = c + 1
  BY SequenceNumber
<1>2. WrapOffset(m) = (j - m.block) * bs
  <2>1. CASE m.block # 0
    <3>1. WrapOffset(m) = TftpBlockWrapOffset
      BY <2>1, WrapOffsetType
    <3>2. j - m.block = c - TftpLastBlock
      BY <1>1, <2>1
    <3> QED BY <3>1, <3>2
  <2>2. CASE m.block = 0
    <3>1. j = c + 1 /\ c - TftpLastBlock = j - SequenceSize
      BY <1>0, <1>1, <2>2
    <3>2. TftpBlockWrapOffset + TftpBlkSize * SequenceSize = j * bs
      <4>1. (j - SequenceSize) * bs + bs * SequenceSize = j * bs
        BY <1>0
      <4> QED BY <3>1, <4>1
    <3>3. j * bs <= OffsetBound
      <4>1. (j - 1) * bs \in Nat /\ (j - 1) * bs + LenOf(bs, j) <= FileLen
            /\ LenOf(bs, j) \in 0 .. bs
        <5>1. j <= LastK(bs)
          BY <1>0
        <5> QED BY <1>0, <5>1, FileInBlocks
      <4>2. j * bs = (j - 1) * bs + bs
        BY <1>0
      <4>3. bs <= (DefBlk + OptBlk) * SequenceSize
        <5>1. DefBlk + OptBlk \in Nat /\ bs <= DefBlk + OptBlk
          BY TftpAssumption
        <5>2. PICK d \in Nat : d = DefBlk + OptBlk
          BY <5>1
        <5>3. d * (SequenceSize - 1) \in Nat
          BY <1>0
        <5>4. d * SequenceSize = d + d * (SequenceSize - 1)
          BY <1>0
        <5> QED BY <1>0, <5>1, <5>2, <5>3, <5>4
      <4>4. (DefBlk + OptBlk) * SequenceSize \in Nat /\ FileLen <= MemSize
            /\ MemSize \in Nat /\ FileLen \in Nat
        BY TftpAssumption
      <4> QED BY <1>0, <4>1, <4>2, <4>3, <4>4 DEF OffsetBound
    <3>4. WrapOffset(m) = j * bs
      BY <2>2, <3>2, <3>3, WrapOffsetType
    <3> QED BY <1>0, <2>2, <3>4
  <2> QED BY <2>1, <2>2
<1>3. (m.block - 1) * bs + (j - m.block) * bs = (j - 1) * bs
  BY <1>0
<1> QED BY <1>2, <1>3

\* A block that is stored in its place.
LEMMA StoreCounts ==
  ASSUME LoadOK, NEW s \in Session, TransferOK(s), s # Free, NEW x \in Nat,
         x <= s.k, s.k <= x + 1, NetBootFileXferSize = End(s.bs, x),
         \A a \in 0 .. NetBootFileXferSize - 1 : Holds(a),
         NEW m, NEW j \in 1 .. s.k, Recent(j, s.k), m.block = j % SequenceSize,
         m.base = (j - 1) * s.bs, m.len = LenOf(s.bs, j), StoreBlock((j - 1) * s.bs, m),
         srv'[TftpServerPort'] = s, s.client = TftpOurPort', TftpBlkSize' = s.bs,
         TftpBlock' = m.block, TftpLastBlock' = m.block, TftpState' = "DATA",
         TftpBlockWrapOffset' = (j - m.block) * s.bs,
         NEW y, y = IF j <= x THEN x ELSE j
  PROVE  /\ y \in Nat /\ x <= y /\ y <= s.k /\ Counts(s, y, j)'
         /\ m.len < s.bs => y = LastK(s.bs)
<1>1. /\ s.k \in Nat /\ s.bs \in Nat /\ s.bs > 0 /\ LastK(s.bs) \in Nat /\ s.k <= LastK(s.bs)
      /\ j \in Nat /\ j > 0 /\ j <= LastK(s.bs) /\ x <= LastK(s.bs) /\ j <= x + 1
  BY LastBlockExists DEF Session, TransferOK
<1>2. y \in Nat /\ x <= y /\ y <= s.k /\ s.k <= y + 1 /\ j <= y /\ Recent(j, y)
  BY <1>1 DEF Recent
<1>3. PICK bs \in Nat : bs = s.bs
  BY <1>1
<1>4. /\ NetBootFileXferSize' = End(bs, y)
      /\ \A a \in 0 .. NetBootFileXferSize' - 1 : Holds(a)'
  BY <1>1, <1>3, StoreKeepsPrefix
<1>5. m.len < s.bs => y = LastK(s.bs)
  <2>1. LenOf(s.bs, j) < s.bs => j = LastK(s.bs)
    BY <1>1, FileInBlocks
  <2> QED BY <1>1, <1>2, <2>1
<1>6. Counts(s, y, j)'
  BY <1>1, <1>2, <1>3, <1>4 DEF Counts, Recent, Free, End, LenOf, LastK
<1> QED BY <1>2, <1>5, <1>6

\* The block that an unconfused client stores: which one it is, which blocks
\* were stored before, and that it is put where it belongs.
Stores(m, s, x, j) ==
  /\ s = srv[m.src] /\ s # Free /\ s.client = TftpOurPort /\ TftpBlkSize = s.bs
  /\ TransferOK(s)
  /\ x <= s.k /\ s.k <= x + 1 /\ NetBootFileXferSize = End(s.bs, x)
  /\ \A a \in 0 .. NetBootFileXferSize - 1 : Holds(a)
  /\ Recent(j, s.k) /\ m.block = j % SequenceSize
  /\ m.base = (j - 1) * s.bs /\ m.len = LenOf(s.bs, j)
  /\ OffsetNow(m) = (j - m.block) * s.bs
  /\ (m.block - 1) * s.bs + OffsetNow(m) = (j - 1) * s.bs
  /\ NetState = "SUCCESS" => x = LastK(s.bs)
  /\ \A q \in net : q.op = "ACK" /\ q.src = TftpOurPort =>
       /\ q.dst = m.src
       /\ \E i \in 0 .. x : q.block = i % SequenceSize /\ Recent(i + HalfTurn, s.k)

LEMMA FirstIsRight ==
  ASSUME WireInv, AttemptInv, ~miscounted, FirstBlock,
         NEW m \in net, ForUs(m), m.op = "DATA", m.block = 1
  PROVE  \E s \in Session, x \in Nat : \E j \in 1 .. s.k : Stores(m, s, x, j)
<1>1. PICK s \in Session : /\ s = srv[m.src] /\ m.src \in Tid /\ s # Free
                           /\ s.client = TftpOurPort
  BY PacketForUs DEF WireInv
<1>2. PICK j \in 1 .. s.k : /\ Recent(j, s.k) /\ m.block = j % SequenceSize
                            /\ m.base = (j - 1) * s.bs /\ m.len = LenOf(s.bs, j)
  BY <1>1, PacketForUs DEF WireInv
<1>3. TransferOK(s) /\ s.k \in Nat /\ s.bs \in Nat
  BY <1>1, LastBlockExists DEF WireInv, WireOK, Session
<1>4. /\ s.k \in {0, 1} /\ TftpBlkSize = s.bs /\ NetBootFileXferSize = End(s.bs, 0)
      /\ \A q \in net : q.op = "ACK" /\ q.src = TftpOurPort =>
           /\ q.dst = m.src
           /\ \E i \in 0 .. 0 : q.block = i % SequenceSize /\ Recent(i + HalfTurn, s.k)
      /\ NetState = "SUCCESS" => 0 = LastK(s.bs)
  <2>1. CASE TftpState = "RRQ"
    <3>1. Waiting /\ Ours(m.src)
      BY <1>1, <2>1 DEF AttemptInv, CountInv, Ours
    <3>2. s.k = 1 /\ s.bs = DefBlk
      BY <1>1, <1>2, <1>3, <3>1 DEF Waiting
    <3> QED BY <3>1, <3>2 DEF Waiting, End
  <2>2. CASE TftpState = "OACK"
    <3>1. PICK r \in Session, x \in Nat, c \in Nat : Loading(r, x, c)
      BY <2>2 DEF AttemptInv, CountInv
    <3>2. x = 0 /\ r = s /\ m.src = TftpServerPort
      BY <1>1, <2>2, <3>1 DEF ForUs, Loading, Counts
    <3>3. s.k \in {0, 1} /\ TftpBlkSize = s.bs /\ NetBootFileXferSize = End(s.bs, 0)
      BY <1>3, <3>1, <3>2 DEF Loading, Counts
    <3> QED BY <3>1, <3>2, <3>3 DEF Loading, AckOK
  <2> QED BY <2>1, <2>2 DEF FirstBlock
<1>5. j = 1 /\ OffsetNow(m) = 0 /\ NetBootFileXferSize = 0 /\ s.k = 1
  BY <1>2, <1>4 DEF OffsetNow, End
<1>6. OffsetNow(m) = (j - m.block) * s.bs /\ (m.block - 1) * s.bs + OffsetNow(m) = (j - 1) * s.bs
  BY <1>3, <1>5
<1>7. Stores(m, s, 0, j)
  BY <1>1, <1>2, <1>3, <1>4, <1>5, <1>6 DEF Stores
<1> QED BY <1>7

LEMMA LaterIsRight ==
  ASSUME WireInv, AttemptInv, ~miscounted, ~FirstBlock,
         NEW m \in net, ForUs(m), m.op = "DATA", ~CountedTwice(m)
  PROVE  \E s \in Session, x \in Nat : \E j \in 1 .. s.k : Stores(m, s, x, j)
<1>1. PICK s \in Session : /\ s = srv[m.src] /\ m.src \in Tid /\ s # Free
                           /\ s.client = TftpOurPort
  BY PacketForUs DEF WireInv
<1>2. PICK j \in 1 .. s.k : /\ Recent(j, s.k) /\ m.block = j % SequenceSize
                            /\ m.base = (j - 1) * s.bs /\ m.len = LenOf(s.bs, j)
  BY <1>1, PacketForUs DEF WireInv
<1>3. TransferOK(s) /\ s.k \in Nat /\ s.bs \in {DefBlk, OptBlk} /\ s.k <= LastK(s.bs)
  BY <1>1 DEF WireInv, WireOK, Session, TransferOK
<1>4. TftpState = "DATA"
  BY DEF FirstBlock, WireInv, ClientOK
<1>5. PICK r \in Session, x \in Nat, c \in Nat : Loading(r, x, c)
  BY <1>4 DEF AttemptInv, CountInv
<1>6. r = s /\ m.src = TftpServerPort
  BY <1>1, <1>4, <1>5 DEF ForUs, Loading, Counts
<1>7. /\ TftpBlkSize = s.bs /\ x <= s.k /\ s.k <= x + 1 /\ c <= x /\ Recent(c, x)
      /\ TftpLastBlock = c % SequenceSize
      /\ TftpBlockWrapOffset = (c - TftpLastBlock) * s.bs
  BY <1>4, <1>5, <1>6 DEF Loading, Counts
<1>8. m.block = 0 => TftpLastBlock = SequenceSize - 1
  BY DEF CountedTwice
<1>9. PICK bs \in {DefBlk, OptBlk}, k \in Nat : bs = s.bs /\ k = s.k
  BY <1>3
<1>10. /\ WrapOffset(m) = (j - m.block) * bs
       /\ (m.block - 1) * bs + WrapOffset(m) = (j - 1) * bs
  <2>1. j \in Nat /\ j > 0 /\ j <= k /\ Recent(j, k) /\ k <= LastK(bs) /\ k <= x + 1 /\ x <= k
        /\ TftpBlkSize = bs /\ TftpBlockWrapOffset = (c - TftpLastBlock) * bs
    BY <1>2, <1>3, <1>7, <1>9
  <2>2. ClientOK
    BY DEF WireInv
  <2> QED BY <1>2, <1>7, <1>8, <2>1, <2>2, OffsetIsRight
<1>11. OffsetNow(m) = WrapOffset(m)
  BY DEF OffsetNow
<1>12. /\ NetState = "SUCCESS" => x = LastK(s.bs)
       /\ NetBootFileXferSize = End(s.bs, x)
       /\ \A a \in 0 .. NetBootFileXferSize - 1 : Holds(a)
       /\ \A q \in net : q.op = "ACK" /\ q.src = TftpOurPort =>
            /\ q.dst = m.src
            /\ \E i \in 0 .. x : q.block = i % SequenceSize /\ Recent(i + HalfTurn, s.k)
  BY <1>5, <1>6 DEF Loading, Counts, AckOK
<1>13. Stores(m, s, x, j)
  BY <1>1, <1>2, <1>3, <1>7, <1>9, <1>10, <1>11, <1>12 DEF Stores
<1> QED BY <1>13

\* A block is stored and acknowledged.
LEMMA StoreAdvances ==
  ASSUME WireInv, AttemptInv, RxDataStore PROVE AttemptInv'
<1>1. PICK m \in net, dup \in BOOLEAN :
        /\ AtTftp(m, dup) /\ ForUs(m)
        /\ m.op = "DATA"
        /\ FirstBlock => m.block = 1
        /\ TftpBlock' = m.block
        /\ TftpLastBlock' = m.block
        /\ TftpBlockWrapOffset' = OffsetNow(m)
        /\ TftpState' = "DATA"
        /\ TftpServerPort' = m.src
        /\ miscounted' = (miscounted \/ CountedTwice(m))
        /\ StoreBlock((m.block - 1) * TftpBlkSize + OffsetNow(m), m)
        /\ NetSendUDPPacket(NetServerEther, Left(m, dup),
             TftpPacket("DATA", TftpOurPort, m.src, m.block))
        /\ IF m.len < TftpBlkSize THEN HandlerSucceeds /\ timeHandler' = "proto"
                                  ELSE HandlerRearms
        /\ UNCHANGED <<TftpOurPort, TftpTimeoutCount, TftpBlkSize>>
  BY DEF RxDataStore
<1>2. srv' = srv /\ (NetState' = "SUCCESS" => m.len < TftpBlkSize \/ NetState = "SUCCESS")
  BY <1>1 DEF AtTftp, AtClient, HandlerSucceeds, HandlerRearms
<1>3. PICK p : p = TftpPacket("DATA", TftpOurPort, m.src, m.block)
  OBVIOUS
<1>4. NetServerEther = TRUE
  BY <1>1, AnswerToOurs
<1>5. /\ \A q \in net' : q \in net \/ q = p
      /\ UNCHANGED <<NetArpWait, NetArpWaitTxPacket, NetServerEther>>
  <2>1. PICK rest \in SUBSET net : rest = Left(m, dup)
    BY LeftIn
  <2>2. NetSendUDPPacket(NetServerEther, rest, p)
    BY <1>1, <1>3, <2>1
  <2> QED BY <1>4, <2>2, SendsAtOnce
<1>6. Asked'
  BY <1>1, <1>4, <1>5, AskedKept DEF AttemptInv
<1>7. p.block = m.block /\ p.dst = m.src
  BY <1>3 DEF TftpPacket, Ack
<1>8. CASE miscounted'
  BY <1>1, <1>6, <1>8 DEF AttemptInv, CountInv
<1>9. CASE ~miscounted'
  <2>1. ~miscounted /\ ~CountedTwice(m)
    BY <1>1, <1>9, Zenon
  <2>2. PICK s \in Session, x \in Nat : \E j \in 1 .. s.k : Stores(m, s, x, j)
    BY <1>1, <2>1, FirstIsRight, LaterIsRight
  <2>3. PICK j \in 1 .. s.k : Stores(m, s, x, j)
    BY <2>2
  <2>4. PICK y : y = IF j <= x THEN x ELSE j
    OBVIOUS
  <2>5. StoreBlock((j - 1) * s.bs, m) /\ LoadOK
    BY <1>1, <2>3 DEF Stores, WireInv
  <2>6. /\ y \in Nat /\ x <= y /\ y <= s.k /\ Counts(s, y, j)'
        /\ m.len < s.bs => y = LastK(s.bs)
    <3>1. /\ TransferOK(s) /\ s # Free /\ x <= s.k /\ s.k <= x + 1
          /\ NetBootFileXferSize = End(s.bs, x)
          /\ \A a \in 0 .. NetBootFileXferSize - 1 : Holds(a)
          /\ Recent(j, s.k) /\ m.block = j % SequenceSize
          /\ m.base = (j - 1) * s.bs /\ m.len = LenOf(s.bs, j)
      BY <2>3 DEF Stores
    <3>2. /\ srv'[TftpServerPort'] = s /\ s.client = TftpOurPort' /\ TftpBlkSize' = s.bs
          /\ TftpBlock' = m.block /\ TftpLastBlock' = m.block /\ TftpState' = "DATA"
          /\ TftpBlockWrapOffset' = (j - m.block) * s.bs
      BY <1>1, <1>2, <2>3 DEF Stores
    <3> QED BY <2>4, <2>5, <3>1, <3>2, StoreCounts
  <2>7. \A q \in net' : q = p \/ AckOK(q, s, y)'
    <3> SUFFICES ASSUME NEW q \in net, q.op = "ACK", q.src = TftpOurPort
                 PROVE  AckOK(q, s, y)'
      BY <1>1, <1>5 DEF AckOK
    <3>1. /\ q.dst = m.src
          /\ \E i \in 0 .. x : q.block = i % SequenceSize /\ Recent(i + HalfTurn, s.k)
      BY <2>3 DEF Stores
    <3>2. \E i \in 0 .. y : q.block = i % SequenceSize /\ Recent(i + HalfTurn, s.k)
      BY <2>6, <3>1
    <3> QED BY <1>1, <3>1, <3>2 DEF AckOK, Recent
  <2>8. \A q \in net' : AckOK(q, s, y)'
    <3>1. j \in Nat /\ p.block = j % SequenceSize /\ p.dst = TftpServerPort'
      BY <1>1, <1>7, <2>3 DEF Stores
    <3> QED BY <2>6, <2>7, <3>1, AckJoins
  <2>9. NetState' = "SUCCESS" => y = LastK(s.bs)
    <3>1. s.k \in Nat /\ LastK(s.bs) \in Nat /\ s.k <= LastK(s.bs)
      BY <2>3, LastBlockExists DEF Session, Stores, TransferOK
    <3>2. NetState' = "SUCCESS" => m.len < s.bs \/ x = LastK(s.bs)
      BY <1>2, <2>3 DEF Stores
    <3> QED BY <2>6, <3>1, <3>2
  <2>10. Loading(s, y, j)'
    BY <2>6, <2>8, <2>9 DEF Loading, LastK
  <2>11. j \in Nat
    OBVIOUS
  <2> QED BY <1>1, <1>6, <2>6, <2>10, <2>11 DEF AttemptInv, CountInv
<1> QED BY <1>8, <1>9

\* The server opens a transfer: not the one in progress.
LEMMA OpeningIsApart ==
  ASSUME WireInv, AttemptInv, SrvRrq PROVE AttemptInv'
<1>0. /\ UNCHANGED <<loopVars, tftpVars, loadVars, NetServerEther, NetArpWaitTxPacket>>
      /\ srv \in [Tid -> Session]
  BY DEF SrvRrq, WireInv, WireOK
<1>1. PICK m, t, s, p :
        /\ m \in net /\ t \in Tid /\ s \in Session
        /\ m.op = "RRQ"
        /\ srv[t] = Free /\ s # Free
        /\ s.client = m.src /\ s.k \in {0, 1} /\ (s.k = 1 => s.bs = DefBlk)
        /\ p = SrvPacket(t, s) \/ p.op = "ERROR"
        /\ srv' = [srv EXCEPT ![t] = s] /\ net' \subseteq net \union {p}
  BY RrqEffect
<1> m \in net /\ t \in Tid /\ s \in Session
  BY <1>1
<1>2. srv'[t] = s /\ \A v \in Tid \ {t} : srv'[v] = srv[v]
  BY <1>0, <1>1
<1>3. \A q \in net' : q \in net \/ q.op \notin {"RRQ", "ACK"}
  BY <1>1 DEF SrvPacket
<1>4. Asked'
  <2>1. ~NetServerEther => \A v \in Tid : ~Ours(v)'
    BY <1>0, <1>1, <1>2 DEF AttemptInv, Asked, Ours, tftpVars, Free
  <2> QED BY <1>0, <1>3, <2>1 DEF AttemptInv, Asked, Rrq, loopVars, arpVars, tftpVars
<1>5. CASE ~miscounted /\ TftpState = "RRQ"
  <2>1. Waiting
    BY <1>5 DEF AttemptInv, CountInv
  <2>2. \A v \in Tid : Ours(v)' => srv'[v].k \in {0, 1} /\ (srv'[v].k = 1 => srv'[v].bs = DefBlk)
    BY <1>0, <1>1, <1>2, <2>1 DEF Waiting, Ours, tftpVars, Free
  <2>3. \A q \in net' : q.op = "ACK" => q.src # TftpOurPort'
    BY <1>0, <1>3, <2>1 DEF Waiting, tftpVars
  <2>4. Waiting'
    BY <1>0, <2>1, <2>2, <2>3 DEF Waiting, loopVars, tftpVars, loadVars
  <2> QED BY <1>0, <1>4, <1>5, <2>4 DEF AttemptInv, CountInv, loadVars, tftpVars
<1>6. CASE ~miscounted /\ TftpState # "RRQ"
  <2>1. PICK r \in Session, x \in Nat, c \in Nat : Loading(r, x, c)
    BY <1>6 DEF AttemptInv, CountInv
  <2>2. TftpServerPort \in Tid /\ TftpServerPort # t
    BY <1>1, <1>6, <2>1 DEF WireInv, ClientOK, Loading, Counts
  <2>3. srv'[TftpServerPort'] = r /\ r # Free /\ r = srv[TftpServerPort]
    BY <1>0, <1>2, <2>1, <2>2 DEF Loading, Counts, tftpVars
  <2>4. Counts(r, x, c)'
    BY <1>0, <2>1, <2>3
    DEF Loading, Counts, tftpVars, loadVars, Recent, End, LenOf, LastK, Free, Holds
  <2>5. \A q \in net' : AckOK(q, r, x)'
    BY <1>0, <1>3, <2>1 DEF Loading, AckOK, Recent, tftpVars
  <2>6. Loading(r, x, c)'
    BY <1>0, <2>1, <2>4, <2>5 DEF Loading, LastK, loopVars
  <2> QED BY <1>0, <1>4, <1>6, <2>6 DEF AttemptInv, CountInv, tftpVars
<1>7. CASE miscounted
  BY <1>0, <1>4, <1>7 DEF AttemptInv, CountInv, loadVars
<1> QED BY <1>5, <1>6, <1>7

\* Transfer t changes and stays whose it is.
LEMMA MoveKeepsAsked ==
  ASSUME Asked, UNCHANGED <<loopVars, tftpVars, NetServerEther, NetArpWaitTxPacket>>,
         srv \in [Tid -> Session], NEW t \in Tid, NEW s, NEW u, s = srv[t], s # Free,
         u.client = s.client, srv' = [srv EXCEPT ![t] = u],
         \A q \in net' : q \in net \/ q.op \notin {"RRQ", "ACK"}
  PROVE  Asked'
<1>1. \A v \in Tid : Ours(v)' => Ours(v)
  BY DEF Ours, Free, tftpVars
<1> QED BY <1>1 DEF Asked, Rrq, loopVars, arpVars, tftpVars

\* ... and an attempt that is bound to another one, or has stored the blocks up
\* to x and waits for the next one, remains in order.
Moves(t, s, u, x) ==
  /\ s = srv[t] /\ srv' = [srv EXCEPT ![t] = u]
  /\ u # Free /\ u.client = s.client /\ u.bs = s.bs
  /\ \A q \in net' : q \in net \/ q.op \notin {"RRQ", "ACK"}
  /\ \/ TftpServerPort # t
     \/ u.k = s.k
     \/ /\ u.k = s.k + 1 /\ x = s.k
        /\ (s.k + 1) % HalfTurn = 0 => \A q \in net' : q.op = "ACK" => q.dst # t

LEMMA MoveKeepsCount ==
  ASSUME UNCHANGED <<loopVars, tftpVars, loadVars>>,
         srv \in [Tid -> Session], NEW t \in Tid, NEW s \in Session, NEW u \in Session,
         NEW r \in Session, NEW x \in Nat, NEW c \in Nat, Loading(r, x, c),
         TftpServerPort \in Tid, Moves(t, s, u, x)
  PROVE  \E w \in Session : Loading(w, x, c)'
<1> USE DEF Moves
<1>1. srv'[t] = u /\ \A v \in Tid \ {t} : srv'[v] = srv[v]
  OBVIOUS
<1>2. r = srv[TftpServerPort] /\ r # Free
  BY DEF Loading, Counts
<1>3. CASE TftpServerPort # t
  <2>1. srv'[TftpServerPort'] = r
    BY <1>1, <1>2, <1>3 DEF tftpVars
  <2>2. Counts(r, x, c)'
    BY <1>2, <2>1
    DEF Loading, Counts, tftpVars, loadVars, Recent, End, LenOf, LastK, Free, Holds
  <2>3. \A q \in net' : AckOK(q, r, x)'
    BY DEF Loading, AckOK, Recent, tftpVars
  <2>4. Loading(r, x, c)'
    BY <2>2, <2>3 DEF Loading, LastK, loopVars
  <2> QED BY <2>4
<1>4. CASE TftpServerPort = t
  <2>1. srv'[TftpServerPort'] = u /\ r = s
    BY <1>1, <1>2, <1>4 DEF tftpVars
  <2>2. s.k \in Nat /\ x <= u.k /\ u.k <= x + 1
    BY <1>4, <2>1 DEF Session, Loading, Counts
  <2>3. Counts(u, x, c)'
    BY <2>1, <2>2
    DEF Loading, Counts, tftpVars, loadVars, Recent, End, LenOf, LastK, Free, Holds
  <2>4. \A q \in net' : AckOK(q, u, x)'
    <3> SUFFICES ASSUME NEW q \in net', q.op = "ACK", q.src = TftpOurPort
                 PROVE  AckOK(q, u, x)'
      BY DEF AckOK, tftpVars
    <3>1. AckOK(q, s, x)
      BY <2>1 DEF Loading
    <3>2. PICK j \in 0 .. x : q.block = j % SequenceSize /\ Recent(j + HalfTurn, s.k)
      BY <3>1 DEF AckOK
    <3>3. q.dst = t
      BY <1>4, <3>1 DEF AckOK
    <3>4. j + HalfTurn \in Nat
      BY HalfTurnFits
    <3>5. Recent(j + HalfTurn, u.k)
      BY <1>4, <2>2, <3>2, <3>3, <3>4, RecentNext
    <3> QED BY <1>4, <3>2, <3>3, <3>5 DEF AckOK, Recent, tftpVars
  <2>5. Loading(u, x, c)'
    BY <2>1, <2>3, <2>4 DEF Loading, LastK, loopVars
  <2> QED BY <2>5
<1> QED BY <1>3, <1>4

\* An acknowledgement that the server takes for its current block is one.
LEMMA AckIsOfCurrent ==
  ASSUME NEW s \in Session, NEW x \in Nat, x <= s.k, NEW m,
         \E j \in 0 .. x : m.block = j % SequenceSize /\ Recent(j + HalfTurn, s.k),
         m.block = s.k % SequenceSize
  PROVE  x = s.k
<1>0. HalfTurn \in Nat /\ HalfTurn > 0 /\ SequenceSize \in Nat /\ SequenceSize > 0
      /\ HalfTurn + HalfTurn <= SequenceSize
  BY HalfTurnFits
<1>1. PICK j \in 0 .. x : m.block = j % SequenceSize /\ Recent(j + HalfTurn, s.k)
  OBVIOUS
<1>2. PICK k \in Nat : k = s.k
  BY DEF Session
<1>3. j \in Nat /\ j + HalfTurn \in Nat /\ j <= k
  BY <1>0, <1>2
<1>4. k < (j + HalfTurn) + HalfTurn
  BY <1>1, <1>2, <1>3, RecentWithin
<1>5. k < j + SequenceSize /\ j < k + SequenceSize
  BY <1>0, <1>3, <1>4
<1>6. j = k
  BY <1>0, <1>1, <1>2, <1>3, <1>5, SameRemainder
<1> QED BY <1>2, <1>6

\* The server takes an acknowledgement.
LEMMA AckMoves ==
  ASSUME WireInv, AttemptInv, SrvAck PROVE AttemptInv'
<1>0. /\ UNCHANGED <<loopVars, tftpVars, loadVars, NetServerEther, NetArpWaitTxPacket>>
      /\ srv \in [Tid -> Session]
  BY DEF SrvAck, WireInv, WireOK
<1>1. PICK m \in net, rest \in SUBSET net, t \in Tid, s \in Session : AckStep(m, rest, t, s)
  BY AckEffect
<1>2. m.op = "ACK" /\ m.dst = t /\ s = srv[t] /\ s.k \in Nat /\ LastK(s.bs) >= 1
      /\ LastK(s.bs) \in Nat
  BY <1>1, LastBlockExists DEF AckStep, Session
<1>3. ASSUME NEW u \in Session, Advances(m, rest, t, s, u) PROVE AttemptInv'
  <2>1. /\ u.k = s.k + 1 /\ u.bs = s.bs /\ u.client = s.client /\ s # Free /\ u # Free
        /\ srv' = [srv EXCEPT ![t] = u] /\ s.client = m.src /\ m.block = s.k % SequenceSize
    BY <1>2, <1>3 DEF Advances, Session, Free
  <2>2. \A q \in net' : q \in rest \/ q.op \notin {"RRQ", "ACK"}
    BY <1>3 DEF Advances, SrvPacket
  <2>3. Asked'
    BY <1>0, <1>2, <2>1, <2>2, MoveKeepsAsked DEF AttemptInv
  <2>4. CASE ~miscounted /\ TftpState = "RRQ"
    <3>1. Waiting
      BY <2>4 DEF AttemptInv, CountInv
    <3>2. u.client # TftpOurPort
      BY <1>2, <2>1, <3>1 DEF Waiting
    <3>3. \A v \in Tid : Ours(v)' => Ours(v) /\ srv'[v] = srv[v]
      BY <1>0, <2>1, <3>2 DEF Ours, Free, tftpVars
    <3>4. \A q \in net' : q.op = "ACK" => q.src # TftpOurPort
      BY <2>2, <3>1 DEF Waiting
    <3>5. Waiting'
      BY <1>0, <3>1, <3>3, <3>4 DEF Waiting, loopVars, tftpVars, loadVars
    <3> QED BY <1>0, <2>3, <2>4, <3>5 DEF AttemptInv, CountInv, tftpVars, loadVars
  <2>5. CASE ~miscounted /\ TftpState # "RRQ"
    <3>1. PICK r \in Session, x \in Nat, c \in Nat : Loading(r, x, c)
      BY <2>5 DEF AttemptInv, CountInv
    <3>2. TftpServerPort \in Tid
      BY <2>5 DEF WireInv, ClientOK
    <3>3. TftpServerPort = t => x = s.k
      <4> SUFFICES ASSUME TftpServerPort = t PROVE x = s.k
        OBVIOUS
      <4>1. r = s /\ m.src = TftpOurPort /\ x <= s.k
        BY <1>2, <2>1, <3>1 DEF Loading, Counts
      <4>2. \E j \in 0 .. x : m.block = j % SequenceSize /\ Recent(j + HalfTurn, s.k)
        BY <1>2, <3>1, <4>1 DEF Loading, AckOK
      <4> QED BY <2>1, <4>1, <4>2, AckIsOfCurrent
    <3>4. (s.k + 1) % HalfTurn = 0 => \A q \in net' : q.op = "ACK" => q.dst # t
      BY <1>3, <2>2 DEF Advances, NoneOutlives
    <3>5. \A q \in net' : q \in net \/ q.op \notin {"RRQ", "ACK"}
      BY <2>2
    <3>6. Moves(t, s, u, x)
      BY <1>2, <2>1, <3>3, <3>4, <3>5 DEF Moves
    <3>7. \E w \in Session : Loading(w, x, c)'
      BY <1>0, <3>1, <3>2, <3>6, MoveKeepsCount
    <3> QED BY <1>0, <2>3, <2>5, <3>7 DEF AttemptInv, CountInv, tftpVars
  <2>6. CASE miscounted
    BY <1>0, <2>3, <2>6 DEF AttemptInv, CountInv, loadVars
  <2> QED BY <2>4, <2>5, <2>6
<1>4. ASSUME NEW u \in Session, Closes(rest, t, s, u) PROVE AttemptInv'
  <2>1. /\ u.k = s.k /\ u.bs = s.bs /\ u.client = s.client /\ s # Free /\ u # Free
        /\ srv' = [srv EXCEPT ![t] = u] /\ net' = rest
    BY <1>2, <1>4 DEF Closes, Session, Free
  <2>2. \A q \in net' : q \in net
    BY <2>1
  <2>3. Asked'
    BY <1>0, <1>2, <2>1, <2>2, MoveKeepsAsked DEF AttemptInv
  <2>4. CASE ~miscounted /\ TftpState = "RRQ"
    <3>1. Waiting
      BY <2>4 DEF AttemptInv, CountInv
    <3>2. \A v \in Tid : Ours(v)' => Ours(v) /\ srv'[v].k = srv[v].k /\ srv'[v].bs = srv[v].bs
      BY <1>0, <1>2, <2>1 DEF Ours, Free, tftpVars
    <3>3. Waiting'
      BY <1>0, <2>2, <3>1, <3>2 DEF Waiting, loopVars, tftpVars, loadVars
    <3> QED BY <1>0, <2>3, <2>4, <3>3 DEF AttemptInv, CountInv, tftpVars, loadVars
  <2>5. CASE ~miscounted /\ TftpState # "RRQ"
    <3>1. PICK r \in Session, x \in Nat, c \in Nat : Loading(r, x, c)
      BY <2>5 DEF AttemptInv, CountInv
    <3>2. TftpServerPort \in Tid
      BY <2>5 DEF WireInv, ClientOK
    <3>3. Moves(t, s, u, x)
      BY <1>2, <2>1, <2>2 DEF Moves
    <3>4. \E w \in Session : Loading(w, x, c)'
      BY <1>0, <3>1, <3>2, <3>3, MoveKeepsCount
    <3> QED BY <1>0, <2>3, <2>5, <3>4 DEF AttemptInv, CountInv, tftpVars
  <2>6. CASE miscounted
    BY <1>0, <2>3, <2>6 DEF AttemptInv, CountInv, loadVars
  <2> QED BY <2>4, <2>5, <2>6
<1>5. ASSUME net' = rest, UNCHANGED srv PROVE AttemptInv'
  BY <1>0, <1>5, QuietStep DEF loopVars, arpVars, tftpVars
<1> QED BY <1>1, <1>3, <1>4, <1>5 DEF AckStep

\* The attempt stays in order with every step.
LEMMA AttemptStep ==
  ASSUME WireInv, AttemptInv, [TftpNext]_vars PROVE AttemptInv'
<1>1. CASE UNCHANGED others /\ (NetState' = "SUCCESS" => NetState = "SUCCESS")
           /\ (NetArpWait' => NetArpWait)
  BY <1>1, QuietStep DEF others, tftpVars, sendVars
<1>2. CASE LoopStep
  <2>1. UNCHANGED others
    BY <1>2 DEF LoopStep
  <2>2. (NetState' = "SUCCESS" => NetState = "SUCCESS") /\ (NetArpWait' => NetArpWait)
    BY <1>2
    DEF LoopStep, NetLoopCall, RxDone, CtrlC, ArpNotExpired, TimerNotExpired,
        StartAgainTimeout, SwitchContinue, SwitchRestart, SwitchReturn, arpVars
  <2> QED BY <1>1, <2>1, <2>2
<1>3. CASE RestartNoMac /\ UNCHANGED others
  <2>1. NetState' \in {"FAIL", "RESTART", "CONTINUE"} /\ UNCHANGED NetArpWait
    BY <1>3, StartAgainState DEF RestartNoMac, arpVars
  <2> QED BY <1>1, <1>3, <2>1
<1>4. CASE RestartTftp
  BY <1>4, StartBegins DEF RestartTftp, RestartBegin
<1>5. CASE ClientRx
  <2>1. CASE RxIgnored
    <3>1. net' \subseteq net
      BY <2>1, LeftIn DEF RxIgnored
    <3> QED BY <2>1, <3>1, QuietStep
        DEF RxIgnored, AtTftp, AtClient, HandlerIgnores, arpVars, tftpVars
  <2>2. CASE RxError
    <3>1. net' \subseteq net
      BY <2>2, LeftIn DEF RxError
    <3>2. NetState' = "SUCCESS" => NetState = "SUCCESS"
      BY <2>2, StartAgainState DEF RxError, HandlerFails, HandlerStartsAgain
    <3>3. UNCHANGED <<tftpVars, loadVars, arpVars, NetServerEther, NetArpWaitTxPacket, srv>>
      BY <2>2 DEF RxError, AtTftp, AtClient
    <3> QED BY <3>1, <3>2, <3>3, QuietStep DEF arpVars, tftpVars
  <2> QED BY <1>5, <2>1, <2>2, OackBinds, NotFirstIsMiscounted, AgainIsQuiet, StoreAdvances,
             ArpSends DEF ClientRx
<1>6. CASE TftpArpRetry
  <2>1. \A m \in net' : m \in net \/ m.op = "ARPREQ"
    BY <1>6 DEF TftpArpRetry, EthSend, ArpReq
  <2> QED BY <1>6, <2>1, QuietStep DEF TftpArpRetry, ArpRetry, tftpVars
<1>7. CASE TftpArpGiveUp
  <2>1. NetState' = "SUCCESS" => NetState = "SUCCESS"
    BY <1>7, StartAgainState DEF TftpArpGiveUp, ArpGiveUp
  <2> QED BY <1>7, <2>1, QuietStep DEF TftpArpGiveUp, ArpGiveUp, tftpVars, sendVars
<1>8. CASE EnvStep
  <2>1. CASE SrvArp
    <3>1. \A m \in net' : m \in net \/ m.op = "ARPREP"
      BY <2>1, LeftIn DEF SrvArp
    <3> QED BY <2>1, <3>1, QuietStep DEF SrvArp, loopVars, arpVars, tftpVars
  <2>2. CASE SrvResend
    <3>1. \A m \in net' : m \in net \/ m.op \in {"OACK", "DATA"}
      BY <2>2 DEF SrvResend, SrvPacket
    <3> QED BY <2>2, <3>1, QuietStep DEF SrvResend, loopVars, arpVars, tftpVars
  <2>3. CASE Lose
    BY <2>3, QuietStep DEF Lose, loopVars, arpVars, tftpVars
  <2> QED BY <1>8, <2>1, <2>2, <2>3, OpeningIsApart, AckMoves DEF EnvStep, ServerStep
<1>9. CASE UNCHANGED vars
  BY <1>1, <1>9 DEF vars, others, loopVars, arpVars
<1> QED BY <1>2, <1>3, <1>4, <1>5, <1>6, <1>7, <1>8, <1>9, TimeoutResends
    DEF TftpNext, ClientStep, TftpStep

LEMMA AttemptInit == TftpInitBut => AttemptInv
<1> SUFFICES ASSUME TftpInitBut PROVE AttemptInv
  OBVIOUS
<1>1. \A t \in Tid : ~Ours(t)
  BY DEF TftpInitBut, Ours
<1>2. ~NetArpWait /\ NetState = "CONTINUE"
  BY DEF TftpInitBut, Init
<1>3. Asked
  BY <1>1, <1>2 DEF TftpInitBut, Asked
<1>4. Waiting
  BY <1>1, <1>2 DEF TftpInitBut, Waiting
<1> QED BY <1>3, <1>4 DEF TftpInitBut, AttemptInv, CountInv

\* What follows from the invariant in a state.
LEMMA PrefixReceived == ASSUME AttemptInv PROVE ReceivedIsPrefix
<1> SUFFICES ASSUME ~miscounted, NEW a \in 0 .. NetBootFileXferSize - 1 PROVE Holds(a)
  BY DEF ReceivedIsPrefix
<1>1. CASE TftpState = "RRQ"
  BY <1>1 DEF AttemptInv, CountInv, Waiting
<1>2. CASE TftpState # "RRQ"
  BY <1>2 DEF AttemptInv, CountInv, Loading, Counts
<1> QED BY <1>1, <1>2

LEMMA WholeFile == ASSUME WireInv, AttemptInv PROVE FileIntact
<1> SUFFICES ASSUME ~miscounted, NetState = "SUCCESS"
             PROVE  NetBootFileXferSize = FileLen /\ \A a \in 0 .. FileLen - 1 : Holds(a)
  BY DEF FileIntact, LoadedIsFile
<1>1. TftpState # "RRQ"
  BY DEF AttemptInv, CountInv, Waiting
<1>2. PICK s \in Session, x \in Nat, c \in Nat : Loading(s, x, c)
  BY <1>1 DEF AttemptInv, CountInv
<1>3. x = LastK(s.bs) /\ NetBootFileXferSize = End(s.bs, x)
  BY <1>2 DEF Loading, Counts
<1>4. PICK bs \in Nat : bs = s.bs /\ bs > 0 /\ LastK(bs) \in Nat /\ LastK(bs) >= 1
  BY LastBlockExists DEF Session
<1>5. End(bs, x) = FileLen
  BY <1>3, <1>4, FileInBlocks
<1> QED BY <1>2, <1>3, <1>4, <1>5 DEF Loading, Counts

LEMMA StoredWhenAcked == ASSUME WireInv, AttemptInv PROVE AckedIsStored
<1> SUFFICES ASSUME ~miscounted, NEW m \in net, m.op = "ACK", m.src = TftpOurPort,
                    srv[m.dst].k > 0, m.block = srv[m.dst].k % SequenceSize,
                    NEW a \in 0 .. (srv[m.dst].k - 1) * srv[m.dst].bs
                                      + LenOf(srv[m.dst].bs, srv[m.dst].k) - 1
             PROVE  Holds(a)
  BY DEF AckedIsStored
<1>1. TftpState # "RRQ"
  BY DEF AttemptInv, CountInv, Waiting
<1>2. PICK s \in Session, x \in Nat, c \in Nat : Loading(s, x, c)
  BY <1>1 DEF AttemptInv, CountInv
<1>3. /\ m.dst = TftpServerPort /\ s = srv[m.dst] /\ x <= s.k
      /\ \E j \in 0 .. x : m.block = j % SequenceSize /\ Recent(j + HalfTurn, s.k)
  BY <1>2 DEF Loading, AckOK, Counts
<1>4. x = s.k
  BY <1>3, AckIsOfCurrent
<1>5. NetBootFileXferSize = (s.k - 1) * s.bs + LenOf(s.bs, s.k)
  BY <1>2, <1>3, <1>4 DEF Loading, Counts, End
<1>6. a \in 0 .. NetBootFileXferSize - 1
  <2>1. NetBootFileXferSize - 1
          = (srv[m.dst].k - 1) * srv[m.dst].bs + LenOf(srv[m.dst].bs, srv[m.dst].k) - 1
    <3>1. s.k \in Nat /\ s.bs \in Nat /\ FileLen \in Nat
      BY TftpAssumption DEF Session
    <3>2. (s.k - 1) * s.bs \in Int /\ LenOf(s.bs, s.k) \in Int
      BY <3>1 DEF LenOf
    <3> QED BY <1>3, <1>5, <3>2
  <2> QED BY <2>1
<1> QED BY <1>2, <1>6 DEF Loading, Counts

\* The three at once, in every state of every behaviour.
LEMMA AttemptAlways == TftpSpec => [](WireInv /\ AttemptInv)
<1>1. TftpInit => WireInv /\ AttemptInv
  BY WireInit, AttemptInit DEF TftpInit
<1>2. WireInv /\ AttemptInv /\ [TftpNext]_vars => (WireInv /\ AttemptInv)'
  BY WireStep, AttemptStep
<1> QED BY <1>1, <1>2, PTL DEF TftpSpec

\* When the client reports success, memory holds the file: for every length of
\* the file, every pair of block sizes, every size of the sequence number and
\* any number of losses, copies, timeouts and attempts, unless this attempt
\* lost count in one of the two ways that the model names.
THEOREM LoadedFileIsIntact == TftpSpec => []FileIntact
<1>1. WireInv /\ AttemptInv => FileIntact
  BY WholeFile
<1> QED BY <1>1, AttemptAlways, PTL

\* So is what it has received before that a prefix of the file.
THEOREM PrefixOfFile == TftpSpec => []ReceivedIsPrefix
<1>1. WireInv /\ AttemptInv => ReceivedIsPrefix
  BY PrefixReceived
<1> QED BY <1>1, AttemptAlways, PTL

\* And what the server is told has arrived is in memory.
THEOREM AcksAreTrue == TftpSpec => []AckedIsStored
<1>1. WireInv /\ AttemptInv => AckedIsStored
  BY StoredWhenAcked
<1> QED BY <1>1, AttemptAlways, PTL
====
