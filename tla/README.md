# TLA+ models of the U-Boot network boot, environment and memory code

U-Boot (this tree: the Amlogic Meson port) is a boot loader: one CPU, one
thread, no operating system. What makes it hard to get right is therefore not
threads but its environment: a network that loses, repeats and delays packets
while a polled loop runs callbacks and timers; power that fails between the
erase and the write of a flash copy; tables, serial numbers and timestamps that
wrap around or fill up in the field, years after the tests.

## Inventory

| Part | State | Operations | Hard about it | Correct means |
|---|---|---|---|---|
| Network loop, `net/net.c`, `net/eth.c` | `NetState`, the one-shot `timeHandler`, `packetHandler`, `NetTryCount`, `NetRestartWrap`, the ARP wait, `eth_current`, `first_failed` | `NetLoop`, `NetStartAgain`, `ArpTimeoutCheck`, `NetReceive`, `eth_init`, `eth_try_another` | callbacks that re-enter the loop's state; two timers that can both give up in one turn; statics that survive an operation | it never waits for nothing, and every device gets its turn before it gives up |
| TFTP client, `net/tftp.c` | protocol state, ports, block numbers, wrap offset, retry counters, memory | `TftpStart`, `TftpSend`, `TftpHandler`, `TftpTimeout`, `store_block` | loss, duplication, reordering, early timeouts, wrap of the 16-bit block number, late packets of an earlier attempt | a success means the file is in memory; it comes in the end |
| DHCP client, `net/bootp.c` | `dhcp_state`, `BootpID`, `BootpTry`, the addresses it was given | `BootpRequest`, `DhcpHandler`, `BootpTimeout`, hand-over to TFTP | several servers, late offers, refused requests, a failure of TFTP that comes back to DHCP | the address in use is leased; the file is loaded in the end |
| Environment table, `lib/hashtable.c` | slots with `used`/key/data, `filled`, `size` | `hcreate_r`, `hsearch_r`, `hdelete_r`, `himport_r`, `hexport_r`, `hmatch_r` | collisions, tombstones, a full table, failing allocations, escapes in the text form | it is a map from names to values, and import inverts export |
| Environment in NAND, `common/env_nand.c` | two copies with CRC and serial byte; `env_valid`, `env_flags` | `env_init`, `env_relocate_spec`, `saveenv`, `writeenv`, `readenv` | power failure anywhere, flash errors, wrap of the serial number | the next boot loads what was saved |
| Environment in Amlogic NAND, `drivers/amlnf/phy/chipenv.c`, `drivers/amlnf/dev/amlnf_env.c`, `common/env_amlnf.c` | records with name and timestamp in a few reserved blocks; their places in memory only | `amlnand_check_info_by_name`, `amlnand_save_info_by_name`, `amlnand_get_free_block`, the test of a block, `saveenv` | power failure at any page, failing writes and erases, several items in one pool of blocks, the timestamp's wrap | as above, and an item's save leaves the other items alone |
| Memory reservation, `lib/lmb.c` | two tables of regions | `lmb_add`, `lmb_reserve`, `lmb_free`, `lmb_alloc_base` | joining and splitting, a full and an empty table, arithmetic that wraps | the table stands for what is held; an allocation is nobody else's |
| Environment commands, `common/cmd_nvedit.c`, `common/env_common.c` | the table | `setenv`, `editenv`, `saveenv`, `env import/export/default` | the rules about protected names | no protected variable changes |
| NFS, RARP, SNTP, DNS, ping, CDP | one small state machine each | start, handler, timeout | the same as for TFTP | the operation ends, with an answer to our own request |
| circbuf, xyzModem | small data structures | sequential | boundary cases | agreement with a reference definition |
| Shell, autoboot, `bootm`, store and key layers, USB burning, SoC and board code, drivers, file systems | | | register I/O, parsers, vendored code | not modelled |

The parts interact through calls only. A command calls `NetLoop(protocol)`; the
loop calls the protocol's start routine and then, through `eth_rx()` and
`NetReceive()`, its packet handler, and its timeout handler; these call back
`NetSetTimeout`, `NetSetHandler`, `NetSendUDPPacket` and `NetStartAgain`, and
set `NetState`. The DHCP handler calls `TftpStart()`. The environment commands
and everything that calls `getenv` use the hash table; `saveenv` exports it to
flash, a boot imports it. `bootm` asks lmb for the places of ramdisk and
device tree.

## Modules

    NetLoop <- Tftp <- NetBoot       network       NetLoopProofs <- TftpProofs <- NetBootProofs
    EnvMap  <- HashTable <- EnvText  environment   HashTableProofs
    EnvNand                          two copies    EnvNandProofs
    AmlInfo                          Amlogic NAND  AmlInfoProofs <- AmlInfoReadProofs
    Lmb                              memory        LmbProofs
    MC*                              instances for TLC

Definitions named "Mutant" in a comment are deliberately wrong variants of the
definition that follows them. No specification uses them; putting one in the
place of its original must break a property, which shows that the property
can fail. Variables marked "history" are not in the code; properties read them, and
guards only to bound a run (failed allocations) or to stop it (lmb, after an
access past the table).

### NetLoop

One turn of `for (;;)` in `NetLoop()` is the sequence of control points
`rx -> arp -> timer -> switch`: `eth_rx()` with any number of packets, the ctrl-C
test, `ArpTimeoutCheck()`, the timeout dispatch, `switch (NetState)`. `restart`
is the label of that name and `idle` is outside a call. The protocol is
abstract: `RxPacket` lets its packet handler ignore a packet, re-arm the timer,
succeed, fail or call `NetStartAgain()`; `ProtoTimeout*` does the same for its
timeout handler, which is called with `timeHandler` already cleared. A packet
before any protocol has installed a handler is a call through a NULL pointer
(`RxNoHandler`), after which nothing is known (`lost`). The protocols are those whose start
routine arms a timer: the network console, which waits for input without one on
purpose and which no board of these SoCs configures, is not among them, and the failure
at the beginning of `NfsStart()` is dead code.
`NetStartAgain(ns, th, t)` is the function of that name, with the rotation:
`eth_try_another()` moves one device on and `eth_init()` on to the first one
that can be initialised; both set `NetRestartWrap` when they pass
`first_failed`. `NetTryCount` saturates at `MaxTryCount` (it is compared only
with `RetryCnt`, below that bound). `tried` and `protoFailed` are history.

The set of devices whose `init()` succeeds may change at every call
(`InitSets`; `{Dev}`: all always succeed), a device without a MAC address (`HasMac`) is rejected by
`net_check_prereq()`, and any prerequisite of the protocol may be missing
(`RestartNoPrereq`).

`PauseConsistent` is about the two handlers of the pause: both or none. What ends the
pause is its own timeout, an ARP wait that gives up (it calls `NetStartAgain()`
again) or ctrl-C. `GivesUpAfterAllDevices` is about an operation that never got to start
its protocol. It holds, and is proved, if every `init()` succeeds. Otherwise `eth_init()` rotates too, and
`first_failed`, a static that an operation ended by ctrl-C leaves behind, can end the turn of
the next one before all the devices were tried: three devices, the third, without a MAC address,
is the `first_failed` that was left; the next operation begins at the second, whose `init()` fails,
`eth_init()` moves on to the third and the turn counts as complete.

What holds for any protocol is proved of this module (below); TLC checks `TimerArmed` and
`PauseConsistent` where the timers are really armed, in the handlers of DHCP and TFTP (run `netboot`).

### Tftp

Extends `NetLoop`. Each of its steps is a step of the loop's together with what
the TFTP client does in it, down to `NetSendUDPPacket()` and the ARP wait. The file
is a sequence of units, unit i having content i; a block is 1 or 2 units, so that the
default and the negotiated block size, short last blocks and overlapping blocks
keep their meaning. Packets in flight are a set: any of them can arrive next,
so reordering and delay are free, while losses, duplications and early timeouts
draw on the budget `MaxFaults`. "Early" means: something is under way that
would still bring the transfer on (`Quiet`). A timeout in a quiet network is
free. The server (external) is lock-step, opens a transfer under a new port for
each RRQ, ignores ACKs other than that of its last block, and retransmits. No
packet of a transfer lives on when the transfer passes half a turn of the block
number (`NoneOutlives`, `HalfTurn`), the assumption every protocol with a wrapping
sequence number makes.

`TftpStart` is the protocol's routine by itself, so that the loop
(`RestartTftp`) and the DHCP handler (`NetBoot`) can both call it. The
wrap-around offset saturates at `OffsetBound`, beyond the memory of the model.

Packets that are already in the ring are handled even after a handler called
`NetStartAgain()`: `aml_eth_halt()` is empty and a second
`aml_ethernet_init()` returns at once.

Two events are known to spoil an attempt, and the history `miscounted` says that
this one has met one of them: a repeated block 0 was counted as another
wrap-around, or an OACK arrived after the first data block. After the former
the rest of the file goes to a wrong place (run `tftp_wrap`). After the latter
block 2 can be missing from a success: the block is thrown away with
`NetStartAgain()`, a further copy of the OACK in the same `eth_rx()`
acknowledges it, and the last block's success overwrites `NETLOOP_RESTART`.
`FileIntact` and `ReceivedIsPrefix` are about all other attempts.

All UDP traffic of the model is TFTP's (and DHCP's in `NetBoot`) and comes after a
request, so a handler is always installed. The client port of an attempt is one that no earlier
attempt had; the code takes `1024 + get_timer(0) % 3072`.

Not in the model: multicast TFTP, storing straight into NOR flash, the `tsize`
progress display, fixed ports (`tftpsrcp`, `tftpdstp`), a server that is not lock-step.

### NetBoot

Extends `Tftp`: the `dhcp` command with `autoload` unset. `RestartDhcp` is the
loop's label `restart:` with `BootpRequest()`; `RxOffer` and `RxAck` are the two
branches of `DhcpHandler()`, the second with `BootpCopyNetParams()` and the call of
`TftpStart()`; `BootpTimeout` is the function of that name, and a failure of TFTP
goes back to `RestartDhcp` on the next device. The options of a message are
represented by the server identifier and the gateway, which a server may leave
out (`GivesGateway`); a boot file in the answer (`GivesFile`) sets the environment
variable and with it what `NetInitLoop()` does in the next attempt
(`envChanged`).

The DHCP servers are external. Each has a pool of addresses, offers one, leases
it on a request or refuses, and takes an offer back after a time
(`OfferExpires`, which counts as a fault, as do losses and early timeouts).
Broadcasts reach each server by itself. No message outlives the exchange after
its own, and all servers name one TFTP server.

`cutShort` is history. A packet that waits for ARP is withdrawn neither by
giving up nor by `NetStartAgain()`. In a later DHCP attempt, or in the pause
before it, `ArpTimeoutCheck()` goes on for it (`StaleArpRetry`) and at the end
calls `NetStartAgain()` (`StaleArpGiveUp`): the device under way is skipped.
With the default values the timers can stay in step (five DHCP timeouts of 3 s
and the pause of 10 s against four ARP timeouts of 5 s), and the only connected
device is then skipped in every turn. `EventuallyBooted` is stated up to this
event. No run reports it as a finding because no document promises more than
that the interfaces are tried in turn.

### HashTable and EnvMap

`EnvMap` is what the rest of U-Boot relies on: a map from names to values in
which one name changes at a time, or all are cleared by an import; the promise
is suspended (`kept`) from an overload to the next clearing. `HashTable`
is double hashing as in `hsearch_r()`: `Home` is the first index, `Hval2` the
step, `EndsAt` says where the probe sequence ends, `NewSlot` which slot a new
entry takes (the first index if that is a tombstone; no other tombstone is
remembered, as in the code). `Delete` leaves a tombstone, `Recreate` is the
table re-creation of `himport_r()`. When `calloc()` fails there (`RecreateNoMem`) the old
table is gone and `size` is 0; until the next import every call would follow a NULL pointer,
so none but that import is modelled. `filled` is unsigned and wraps
(`FilledMod`). A failing `strdup()` leaves the slot used but uncounted
(`CreateNoMem`; `MaxNoMem` bounds both failures); its key, address 0, is taken to
compare unequal to every name. History: `bound`, the names set and
not deleted since; `crowded`, an entry was made when no slot was left that had never
been used; `nomem`, the failed allocations.

### EnvText

The text form of the environment, as functions on sequences of characters.
`ExportSize` is the length `hexport_r()` computes in its first pass, `Export`
what it writes in the second. `Turn` is one turn of the loop of `himport_r()`
(blanks, comments, names without a value, escapes), `Import` the loop with its
test at the end, `Imported` the table it leaves. They are evaluated in
every state of the hash table in which no allocation has failed (`Exportable`:
`hexport_r()` reads every pointer of the table), crowded tables included.
`ExportFits`: what is written fits
into what was computed if the separator is not NUL or the values have no more than two
backslashes per entry. The first pass counts escapes for other separators only, and two spare
characters of each entry hide it; with more backslashes the text is longer than the string that
was allocated or the size that was checked (`ExportAlwaysFits`, run `hash_export`).

### EnvNand

`copy[1]` and `copy[2]` are the two areas: CRC good or not, serial number,
data. `SaveBegin` is `saveenv()` up to the first erase, `SaveErase` and
`SaveWrite` the two flash operations, `SaveFails` an error of either;
`PowerFail` cuts off at any point, leaving the area under way destroyed or
complete; `Boot` is `env_relocate_spec()`. `saved`, `tried` and
`failed` are history: the last value saved, the values of the saves since then
that did not return success, and whether any save returned an error.

### AmlInfo

The store in which the Amlogic driver keeps its configuration and, on the
boards of this tree, the environment. One item of each kind is modelled: a
FULL_PAGE item (`nenv`) that is appended to its block twice per save, and a
FULL_BLK item (`ncnf`) that fills a block with copies. The grain is one
operation of the flash: `GetBlk`, `EraseFree`, `WritePage`, the block test,
`Commit` (the place of the record in memory), `EraseOld`, and `Finish`, which
begins the second copy of a FULL_PAGE item or returns to the caller. When the old block cannot be
erased it is tested (`EraseOldFails`), which may erase it after all (`TestOldPasses`); else it is
marked bad and released (`TestOldFails`), or, if that fails, the call returns with the block still in
`reserved_blk[]` (`MarkOldFails`). `Start` is the scan,
`Config`/`FixConfig` what `amlnand_info_init()` does with the configuration, and
`FixEnv` and `Relocate` the environment's part up to `env_relocate_spec()`.
`Crash` can leave a page or an erase in the middle; a page that was cut off is
unreadable.

`MarkBad` is `block_markbad()` with the save of the bad block table in it
(`amlnand_update_bbt()`, a third item, FULL_BLK): the table moves to the first free block, often
the one just marked, or, if that one's erase fails again, to the next; its old block is erased, and
the page of zeros that `block_markbad()` writes afterwards goes to that block, because the inner save has
left its address in `ops_para`. This is one step: no power failure falls into it and no fault but the repeated
erase failure. Without a free block the table stays where it is; the area of the code has
48 blocks for half a dozen items. At the start the table is in block 1.

Blocks that left the factory bad are not in the pool, so that the 48 blocks of the scan are
those of `get_last_reserve_block()`. Every item has the extra page of `arg_pages`; `struct
nand_config` has none in the code, which makes its records one page shorter.
Left out: the shortcut after eight unreadable pages, the
page mapping of SLC mode and of some manufacturers,
`repair_reserved_bad_block`, several chips.

History: `accept`, what each item may read as after a start; `torn`, items
whose record was cut off after its first page; `wfail`, a page write or the erase of an old block
failed, or no block was free;
`unsaved`, items whose last save since the start has not succeeded; `stuck`, items
that could not be moved off an unreadable page. The last is a weakness of the code:
`aml_sys_info_error_handle()` (`amlnf_ctrl.c:581`) ignores the result of the move and
clears `update_flag`, so the next save appends to the block it was to leave, and the
unreadable page can be where the record goes: the save reports success and cannot be
read back. `ReadsBack` excepts items in `unsaved` and `stuck` and states in which a
block was marked bad.
The scan takes the last record whose first page is readable. A torn record
therefore hides the complete copies before it: the environment falls back to the
default one, and a torn first copy of the configuration stops the NAND from
starting. `SavedSurvives` and `Starts` except exactly these.

With flash errors a saved environment need not survive, in two ways. A failed write of the
second copy has the block tested, and so erased, and the copy is then written behind an empty first slot: the
next scan takes the block for nobody's (`SavedIsPersistent`, run `aml_info_lost`, one failed write). And
`amlnand_get_free_block()` hands out blocks that are marked bad, which the scan passes over. After one
failed erase the table itself occupies the marked block; it takes a second failed erase for the environment to
get there.

`SaveEnds` is the termination of a save, however many operations fail: `Left` is what it has left to do
(the second copy, tests of a block, the stage, blocks to look at or records to write, pages), and every step makes
it smaller in the lexicographic order. It is `test_cnt` and the search for a free block, which never turns back, that
make it so; the bound on faults plays no part.

### Lmb

All of `lib/lmb.c` but the debug dump, on addresses modulo `W`, with the entries
behind `cnt`, which the code looks at. `Add` is `lmb_add()`, `Reserve`, `Free` and
`Alloc` the other three; callers free only what they hold. Alignment 3 stands for
one that is not a power of two (`image.c` asks for 0xf; `AlignAssumption` admits no other). History: `held`, `ram`,
and `spoilt`, calls after which the table is known to be unsound: a reservation
that overlaps another one (the rounded-up size of an allocation can), the last region
freed (`cnt` is 0 and `cnt - 1` the largest number), a free that cut a region in two
in a full table and lost the tail, an access past the table, a region that wraps
around. `ReservedIsHeld`, `TablesApart` and `AllocIsFresh` are stated up to the first of these,
and `AllocIsFresh` for limits not below the size. The table that `lmb_init()` leaves is a case of its own in
`ReservedIsHeld`: its one region has size zero and ends at 0 + 0 - 1, so that `lmb_is_reserved()`
calls every address reserved although nobody holds any.

What happens beyond: a reservation above the freed region is forgotten after the table was emptied
(`lmb.c:157`-`168` write nothing), a rounded-up allocation overlaps its neighbour (`lmb.c:310`), and
with a limit below the size `base - size` wraps around to memory above the limit (`lmb.c:302`).

## Runs

| Run | Question | Answer |
|---|---|---|
| `netloop_once` | does `netretry=once` try every interface, as the README says? | no: it fails after the first one |
| `tftp` | two devices, one of them unconfigured, block numbers that wrap around twice, negotiated or default block size, a second attempt, server errors, ctrl-C, any two faults: is what was reported as loaded the file, what was received a prefix of it, was every acknowledged block stored, and is the client a client of the loop? | yes, unless block 0 was counted twice or an OACK was late |
| `tftp_wrap` | one lost ACK of block 0 | no: the repeated block 0 counts as a second wrap-around |
| `netboot` | `dhcp` with three devices, the first unconfigured, only the last connected, two DHCP servers, one fault: is a timeout armed whenever the loop waits, are the handlers of the pause both there or neither, is the address in use a leased one, and is the file loaded in the end? | yes, the last unless an old ARP wait cuts a later attempt short |
| `env_nand` | saves, power failures, flash errors, serial numbers modulo 4: does the next boot load what was saved, and does a valid copy always remain? | yes, the first until a save has reported an error |
| `env_nand_serial` | and after a save has reported an error? | no: the serial number skips the value that the wrap-around test knows |
| `hash` | colliding names, deletions, re-imports, failing allocations, two table sizes: is every entry found, is the table a map, does import invert export, does the text fit? | yes, the map until an entry is made without a never-used slot |
| `hash_export` | does the exported text always fit, as the comment of `hexport_r()` says? | no: not with separator NUL and a value of three backslashes |
| `hash_tombstones` | does a set-and-delete sequence in a table without unused slots keep the other names? | no: a live entry is overwritten |
| `aml_info` | saves of two items, power failures at every page and erase, failing operations, a timestamp that wraps: does a start find what was saved, can it be read back, does a save leave the other item alone, does every step bring it closer to its end? | yes, the first without flash errors and torn records |
| `aml_info_lost` | one failed page write, no power failure: is a saved environment persistent? | no: the block test erases the first copy, and the second is not found without it |
| `lmb` | any five reservations, allocations and partial frees: does the table stand for what is held, is an allocation fresh? | yes, until one of the unsound calls above |

The six negative answers are recorded with the lines they are about under
`findings` in `PROJECT.json`.

Bounds. `tftp`: a file of nine blocks with block numbers modulo 4 wraps around
twice; two attempts are enough for stale packets and stale client state to
meet a new attempt; two faults cover every pair of a loss, a duplication and an early timeout, and
every fault during the recovery from another one.
`netboot`: three devices are the smallest number for which "all" differs from
"the first and the last", two servers the smallest for mixed answers; the file
is one block, since `tftp` covers the transfer. `env_nand`: serial numbers modulo 4
have a wrap-around in every fourth save; the theorems below cover 256. `hash`: a
table of 5 slots is the smallest `hcreate_r()` makes for which the double hash
has more than one step, 7 the next size. `aml_info`: five blocks of three records for two
items and the bad block table, so that blocks fill up and are exchanged; two saves by the user and
those of each start pass the timestamp range of 5; at most four troubles, of them two
power failures or three flash errors; two tests of a block per save instead of three.
`SaveEnds` speaks of single steps and does not depend on the bound on faults. `aml_info_lost` has the
code's own timestamp range and number of tests. `lmb`: twelve addresses, two memory regions,
a table of three, so that it is full and can be split and joined within five calls.

Deadlock is checked in all runs; a command that has returned stutters.

Fairness. `netboot`: `NetLoop()` polls and never blocks, so the client always takes
a next step and `eth_rx()` returns: weak fairness. A timer that stays armed expires,
the device hands over what has arrived, and the servers answer and retransmit:
each of these is possible only at one control point of a turn, so strong
fairness. Nothing is assumed of ctrl-C, losses, or early timeouts; that they
are finitely many is the bound `MaxFaults`. ARP give-up is not assumed to
happen.

## Proofs

All for every value of the constants that satisfies the module's `ASSUME`.

`NetLoopProofs`. `LoopTypeCorrect`, `LoopNeverHangs` (`TimerArmed`) and
`PauseNeverHalf` (`PauseConsistent`), for every number of devices, retry policy and
outcome of `init()`. The invariant `LoopInv` is their conjunction and is inductive
as it is; `PauseConsistent` is the equivalence of the two handlers in every state in which the loop goes on. The point of the argument is lemma `StartAgainOutcome`: whatever the
rotation does, `NetStartAgain()` leaves either a state other than
`NETLOOP_CONTINUE` or both handlers of the pause. The protocol is arbitrary, so
the theorems hold for every protocol of `net/` that uses the loop as assumed.
`AllDevicesTried` (`GivesUpAfterAllDevices`) is proved for `InitSets = {Dev}`, that is
for drivers whose `init()` succeeds; with a device that fails to come up
it is false (the example above). Its invariant `RotationInv` says that
before a protocol is started only the rotation acts, and the devices tried so far
form an arc of the circular list from `first_failed` to the one before `eth_current`.

`TftpProofs`. `TftpImplementsLoop`: every step of the client, the server and
the network is a step of `NetLoop` or leaves its variables alone, so that the
three theorems above hold of TFTP; then `TftpTypeCorrect`, `LoadedFileIsIntact`
(`FileIntact`), `PrefixOfFile` (`ReceivedIsPrefix`) and `AcksAreTrue`
(`AckedIsStored`), for every file, block size, sequence size, number of transfers and
number of faults. None of the last three is inductive: a packet left over from
earlier could carry anything. `WireInv` says what can be in flight: each DATA and
each ACK belongs to a transfer the server has opened, carries what that transfer
sent or received at some count j, and since j the transfer has not passed half a turn
(`Recent`). `AttemptInv` connects client and server: a request of this attempt is
out only once the server's MAC address is known (`Asked`); then either nothing has
been accepted (`Waiting`), or the client is bound to a transfer s and there are counts
x and c such that memory holds the blocks up to x, the client's sequence number and
wrap offset are those of c, the block received last, c is recent for x, and s is at
x or one past it (`Loading`). The key lemma is `SequenceNumber`: a packet in flight
that agrees with the client's number modulo `SequenceSize` is of the same block,
and a number 0 after the largest one is of the block after it. It turns the client's
comparison of 16-bit numbers into one of blocks, and is the reason for the
assumption on lifetimes.

`NetBootProofs`. `BootImplementsLoop`, the same for the `dhcp` command with the
hand-over between the protocols in both directions; `NetBootTypeCorrect`;
`BoundToLease` (`BoundIsLeased`), for any number of servers and addresses: `BootInv` adds
that a DHCP ACK in flight names an address that its server has leased; and
`BootedFileIsIntact`, `FileIntact` again, of `NetBootSpec`: `BootAttempt` is
`AttemptInv` while TFTP has the handlers, and that nothing counts as received before;
the lemmas of `TftpProofs` carry it through the steps the two specifications share.

`EnvNandProofs`. `EnvTypeCorrect`; `SavedEnvSurvives`: as long as no save has
returned an error, a boot loads what was saved last or was being saved, for every
serial modulus above 2; `SaveSparesBackup` (`BackupIntact`): until then the copy in use
is good in every state of a save; `OneCopySurvives`:
errors or not, a board with a valid copy keeps one. `BootLoadsSaved` is not
inductive. `EnvInv` adds that of two valid copies one carries the successor of
the other's serial number and acceptable data (`FlashInv`), that while the board
runs this is the copy in use and `env_flags` its number or, during a save, the
next one (`InUseInv`), and that a write finds the other copy erased (`SaveInv`).
Lemma `PickNewer` shows that the comparison at boot finds the successor, across
the wrap-around too. `InUseOk` is the part that survives flash errors.

`HashTableProofs`. `HashTypeCorrect`; `EntriesAlwaysReachable`: every entry is
the one the search for its key ends at, for every table size and hash function;
`TableIsMap`: the table implements `EnvMap`, failing allocations included. That
the probe sequence visits all slots ("because SIZE is prime" in the source) is
the theorem `ProbesVisitAll`, proved from what `isprime()` tests: a number that no
odd number up to its root divides has no divisor, and the least multiple of the step
that the size divides is then the size itself (`IsPrimeIsPrime`, `Multiples`). What remains
an assumption is that such a size exists where `hcreate_r()` looks for it
(`PrimeAssumption`, a case of Bertrand's postulate); TLC evaluates it for the sizes of the runs. Tables
are created for more than 3 entries: `himport_r()` asks for at least
`CONFIG_ENV_MIN_ENTRIES`, 64 unless a board says otherwise.
`EntriesReachable` is inductive given the types; the map needs in addition that
an insertion before the table is crowded finds some slot that was never used, which
makes every unsuccessful search end at such a slot or reuse a tombstone, so
that a new entry never takes a live one (`NewSlotIsFree`).
`NamesAreKept` (`NamesKept`) and `FilledCounts` (`FilledIsEntries`) follow with the same
invariant.

The same module proves the linear form: `ImportsWhatWasExported` (`ImportInverts`) and
`ExportedTextFits` (`ExportFits`), for every assignment of characters to names and values
that `EnvTextAssumption` admits. Both need `Whole`, that without failed
allocations every live entry has a key and a value, and from the map's invariant that
no key is live twice: the sorted list then has every live entry once (`ListIs`). The
parser undoes the escapes of a value and stops at its separator (`ValueAt`), a
turn that starts at an entry finds its pair and ends at the next entry
(`TurnAtEntry`), and from the last entry backwards the loop finds the pairs of
all the entries from there on (`ImportAll`). For the sizes, `EscapeLen` and `EntryFits`
compare one entry and `Sums` adds up. The induction theorems of the library
take an operator as parameter and cannot be used here; `Upwards`, `Downwards`
and `StrongDown` take a set and go through a least counterexample, and `Recursion` gives
the existence of the functions the parser is defined by.

`LmbProofs`. `LmbTypeCorrect`, `TablesStayApart` (`TablesApart`),
`ReservedAreHeld` (`ReservedIsHeld`) and `AllocatedIsFresh` (`AllocIsFresh`), for every
address space and table size. `LmbInv` says that a table is either the empty one with
its dummy region (and nothing is held then) or in order, with the addresses in its regions exactly the ones
held (reserved, up to the first unsound call) or added (memory); order alone is not
preserved, since a new region stays apart from the others only because nobody holds
its addresses. One lemma per case of
`lmb_add_region()` and `lmb_free()` (growing a region at either end, joining two,
inserting, removing, cutting at the front, the back or in the middle) shows
that the covered set grows or shrinks by what was asked for. `AllocIsFresh` needs a property of
the search of `__lmb_alloc_base()`, a recursive function: the least address for which it
would be wrong leads to a smaller one.

`AmlInfoProofs`. For every number of blocks, records per block, pages per record,
timestamp range and number of saves, power failures and flash errors that
`InfoAssumption` admits. `InfoTypeCorrect` (`TypeOK`). `SavesEnd` (`SaveEnds`): from the types, one
component of the measure for each kind of step. `BlocksAreOwn`: `PlaceInv` says
that the block of every item is in `reserved_blk[]`, that no two items share one, and
that the block a save works on is at no point another item's; flash errors included. For the bad block
table, which can move in the middle of a save, `TablePlace` adds that its block is in `reserved_blk[]` and neither an
item's nor the one a save works on, and that it is still block 1 while no block was marked bad.
From it `OthersAreUntouched` (`OthersUntouched`). `SavedItemsSurvive` (`SavedSurvives`)
and `DeviceStarts` (`Starts`) follow from `SurviveInv`, which speaks of runs without
flash errors. The table is then in block 1 and all records lie in blocks 2 to 4 (`FlashInv`), two of which belong to the
items, so there is at most one block that a power failure left stale, and it is the
least free one, which the next save takes and erases. While an item is in two blocks,
either one reads as a value that a start may find; timestamps are never
needed to tell more than that, and their wrap-around does no harm (`RunInv` while the
driver runs, `OffInv` without power);
`SaveInv`, `WriteInv` and `EndInv` say what the flash holds at each point of a save, and
therefore what the scan finds when power is lost there.

`AmlInfoReadProofs`. `EnvReadsBack` (`ReadsBack`): an environment saved with success
can be read back, whatever page writes failed before and during the save. This is not
inductive, since a failed save can leave the environment's block erased by the block
test, with a spoilt page just where the next record goes. The first copy of
the next save is then lost and unnoticed; `DataInv` says that in a block that is not to be
left the pages from the second copy on are erased (`Roomy`, `EnvInv`), follows this through the
two writes (`AgainInv`, `ProgInv`) and concludes that the record the driver points at
is the one saved last (`DoneInv`, `ReadInv`). The attempt to prove the property
without the exception for `stuck` failed, and showed the weakness described above.

Only model-checked: liveness (`EventuallyBooted`), which is out of
the prover's reach, and the negative answers of the runs, which are
counterexamples.

## Not modelled

Listed with reasons under `components` in `PROJECT.json`. The largest gaps in
the modelled parts: packet parsing and defragmentation in `NetReceive()`, the
layout of DHCP options, an import over an existing table (`H_NOCLEAR`), the
non-redundant variant of `env_nand.c`, bad blocks inside one copy, and what
the bad block tables of the Amlogic driver hold. Most of the tree is register programming,
board tables, drivers, file systems and vendored code, whose behaviour is that
of the hardware behind it.

## Plan

Done: the network loop with TFTP and DHCP in it, both NAND environments, the
hash table with its text form, lmb, and the theorems above. Next, in this order:

1. `EnvCmd`: `_do_env_set()` on top of `EnvMap`: protected names, deletion by
   an empty value, console switching.
2. NFS in the loop, and the circular buffer.
3. `env_flash.c` and `env_sf.c`, whose flags byte follows another protocol, with
   an abstract store that they and `EnvNand` refine.
