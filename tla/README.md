# Verification of modbus-bridge

The repository is the firmware of a Modbus bridge for a Kinetis K64 board under
the MQX kernel. Modbus TCP clients talk to the bridge's *slave* task; the
bridge's *master* task talks to one Modbus device over a serial line (RTU) or
TCP. The two never exchange a request directly: the master polls the device,
block by block, into a copy of its registers, the *map*; the slave answers from
the map and queues register writes for the master to pass on.

This directory holds TLA+ models of that program, TLC configurations that check
them on small instances, and proofs for every instance. References to the code
are `file:line` below `src/`.

## Inventory

| component | state | operations | interacts with |
|---|---|---|---|
| slave task (`modbus_slave.c`) | query buffer, connection, heap buffers of the writes it forwards | start, listen, accept, receive, forward FC06/FC16, reply, drop the connection | map (mutex), message pool, master's queue, `modbus_reply`, TCP |
| master task, polling loop (`modbus_master.c:283-362`) | current block, read buffers, message in hand | read a block, copy it into the map, poll the queue, write, free, next block | map (mutex), queue, pool, `modbus_read_*`/`modbus_write_*` |
| master task, polling blocks (`modbus_master.c:28-133,198-270`) | circular list of blocks | load the file, translate register numbers, offset of an address | SD card, polling loop |
| Modbus server protocol (`modbus.c`, `modbus_reply`) | the four tables of the map | the function codes 1-7, 15-17, 23, exceptions | slave task |
| Modbus client protocol (`modbus.c`) | request, response | read, write, receive, confirm, recover | master task, transport |
| TCP transport (`modbus-tcp.c`) | socket, transaction id | connect, flush, listen, accept, select | RTCS |
| RTU transport (`modbus-rtu.c`, `nio_serial.c`) | serial device | connect, flush, select, CRC | serial driver |
| MQX mutex (`mutex.c`) | owner, waiting tasks | lock, unlock | both tasks |
| MQX messages (`msg.c`, `msgpool.c`, `msgq.c`) | free list, counts, queues | alloc, free, available, send, poll | both tasks |
| main task (`main.c`) | configuration | mount, network, parse, create the tasks in order | all |
| configuration (`inih.c`, `main.c:89-174`) | `modbus_conf` | parse, handler | main task |
| SD card task (`mfs_filesystem.c`) | card state | mount and unmount on detection | MFS, main task |
| network, telnet, reboot (`network.c`, `sh_reboot.c`) | interface | start, stop, reset | RTCS |
| vendored: RTCS, MFS, rest of MQX, platform, USB | | | |

What makes each correct:

* *slave and master together*: a client never sees half of a polled block;
  writes reach the device in order and at most once; a refused write never
  does; every request ends; polling never stops; the map returns to the
  device's contents when writes stop;
* *polling blocks*: a write to an address of the map goes to the register that
  is polled into that address; an illegal line is refused;
* *pool and heap*: nothing leaks, nothing is freed twice;
* *transports*: an answer belongs to the call it is taken for and is no older
  than it; a late or broken answer does no lasting harm; a lost link comes back;
* *server*: every request gets its own answer, in order, whatever pieces it
  arrives in; no client keeps others waiting; connections are given back;
* *main and SD card*: the master starts after the map exists; the file system
  is mounted exactly while a card is in; the tasks run with all the files say.

What is hard to test here: the interleaving of the two tasks around the mutex
and the queue, writes racing polls, exhaustion of pool, heap, sockets and ring
buffers, counters that are narrower than what they count, a link that fails or
answers late at any moment, a card that is pulled while it is mounted or read.
`PROJECT.json` lists each hazard at its line.

## Plan

1. **Done**: `Bridge` with `ModbusTables`, `PollingBlock`, `MessagePool`, its
   abstract specification `BridgeService`, and `BlockList`.
2. **Done**: `ModbusFrame`, `TcpLink` and `RtuLink`, both against the abstract
   `Transaction`.
3. **Done**: `SlaveServer`.
4. **Done**: `SdCard`, and `Boot` on top of it.
5. Proofs. **Done**: every invariant and action property of the passing runs,
   the refinements of `BridgeService` by `Bridge` and of `Transaction` by
   `TcpLink` and by `RtuLink` on a quiet line, the lengths of all frames.
6. **Left**: `TcpLink` beside `SlaveServer` on the stack they share, for the
   socket handle that `modbus_tcp_connect` leaves in `ctx->s`
   (`modbus-tcp.c:310`); priorities and preemption for the removal of a file
   system that is being read (`nio.c:531`).

## Modules

| module | models |
|---|---|
| `PollingBlock` | register numbers, their function codes and addresses, the offset of an address, with the widths of C |
| `BlockList` | loading `polling_blocks.txt` into the circular list, one step per line |
| `MessagePool` | the counters of an MQX private message pool |
| `ModbusTables` | the four tables, what `modbus_reply` accepts, does and answers, what is forwarded, what the device is asked for |
| `Bridge` | the two tasks, mutex, queue, pool, heap, map and device |
| `BridgeService` | what the bridge promises, without tasks |
| `ModbusFrame` | the lengths of requests and responses, as they are built, as `receive_msg` computes them while it reads, and as `check_confirmation` expects them |
| `Transaction` | what a read promises the master: it fails, or gives what its block held during the call |
| `TcpLink` | one call after another over TCP: `send_msg`, `receive_msg`, `check_confirmation` and the recoveries, with the device and the connection |
| `RtuLink` | the same over a serial line, byte by byte through the driver's ring |
| `SlaveServer` | accept, receive, answer and leave, with several clients and the stack's sockets and backlog |
| `SdCard` | the SD card task, its interrupt and a card with bouncing contacts |
| `Boot` | `main_task`, and both Modbus tasks up to their loops; extends `SdCard` |
| `BridgeProofs`, `BridgeServiceProofs`, `BlockListProofs`, `ModbusFrameProofs`, `TcpLinkProofs`, `RtuLinkProofs`, `SlaveServerProofs`, `BootProofs` | the theorems |
| `MC*` | the instances TLC checks |

`Boot` ends where `Bridge` and `SlaveServer` begin, with both tasks in their
loops. `SlaveServer` delivers the requests that `Bridge` starts from; a read of
`Bridge` (`MasterRead`, `MasterReadFails`) is a call of `TcpLink` or `RtuLink`,
and `Transaction` says when it may be taken for one step.

### Bridge

`spc` and `mpc` say where each task is; a step runs from
one point at which the other task may run to the next: all tasks have one
priority (`main.c:73-80`) and give up the processor only in calls that block.
The map is `mapping`, the device's registers are `device`, `owner` and `waiting`
are the fields of the mutex. `heap` counts the buffers of `_mem_alloc_system`
that are left to the slave task. The copy loop of the master is one step per
register, with its counters `copied.i` and `copied.j`, so that other tasks
interleave with it and only the mutex keeps them out. What is dead (the query
after the reply, the read buffer after the copy) is cleared to keep the state
space small; nothing reads it.

`MasterRead` takes what the device holds at one instant, as `Transaction` allows,
and `MasterReadFails` stands for everything else a read may return.
`MasterWrite` takes effect at the device or does not, since the master does not
look at the result. All registers of one write get one value, and a request
carries the bytes its quantity calls for. A write that the device has performed
but whose answer was lost is the first disjunct of `MasterWrite` and is, as in
the code, not repeated.

`BridgeService` serves a request in one step on an image, refreshes a whole
block in one step from a sample taken at one instant of the device, and tries
accepted writes in line. Under the refinement mapping of `Bridge` the image is
the map with the block that is being copied already complete; the refresh takes
place when the master gets the mutex, which may be within the slave's unlock.

### TcpLink and RtuLink

Each action is one step of a call between two points at which bytes may move:
`Call` builds the request, `Send` and `SendFails` are a turn of the loop of
`send_msg`, `Retry` and `Reconnect` its two recoveries, `Timeout`, `SelectFails`,
`RecvFails` and `TakeAnswer` the ends of `receive_msg`, `Recover` and `Reopen` the
recoveries after it. Both kinds of recovery are on, as `modbus_master.c` sets
them.

RTCS reports errors in a field of the socket and never sets `errno`, which the
recovery decides by. In `TcpLink` `errno` therefore keeps what an earlier call
left there, and `OtherErrno` lets other tasks leave theirs. The transaction id
counts modulo `U16`. A message carries a ghost field `age`, the calls made since
its own, which no action of the master reads. An answer arrives whole.

In `RtuLink` `rx` is the ring of the serial driver, which keeps one place free
and overwrites the byte that finds no room; `receive_msg` takes an answer in up
to three pieces, each when all its bytes are there. A byte is known by the
answer it is part of and its place; read in place it says what that answer
says, out of place anything in `ByteValue`. `Recover` keeps what was received:
`_modbus_rtu_flush` empties the output only (`modbus-rtu.c:860-870`).

A write with FC06 or FC16 goes through the same three functions; `RtuLink` has
one among its blocks for the shape of its answer.

### SlaveServer

`served` are the connections that were given a socket structure, which they keep
for good, as the task leaves a connection without closing it
(`modbus_slave.c:177`). `pending` and `count` are what the stack lists and counts of
connections that wait for an accept. A handshake has two steps: `Syn` compares
the count with the backlog and lists a half-open connection
(`tcp.c:1682-1695`), `Establish` counts it when the client's ACK comes
(`tcp.c:1271-1285`) or hands it to an accept that waits; `GiveUp` ends it in
between. Nothing limits the half-open connections (`RTCSCFG_TCP_MAX_HALF_OPEN`
is 0), so handshakes that overlap take the count past the backlog. A reset
takes a connection off the list and not off the count. Requests are a stream of bytes that arrive one by one;
a function code or byte count read out of place says anything in `ByteValue`.
`ctx->s` keeps the last client; after a failed accept it is none.

### Boot and SdCard

In `SdCard`, `sd` is where `mfs_filesystem_task` is, `open` the devices it has
opened or installed, each on the one before. The pin is looked at before the
debounce delay only. The card may move and bounce at any step. A call of the task
fails when the card was pulled or for a reason of its own (`Fault`): while it
starts or waits (`mfs_filesystem.c:97-152`), or with a card that cannot be read,
whose partition is not valid, that MFS cannot open or ask for its format, or
for want of memory (`mfs_filesystem.c:172-248`). Each such place blocks the task
with what it has opened so far (`BlockedWith`). In `Boot` a file
is a sequence of lines; `conf` is `modbus_conf`, filled line by line by `Handled`;
a read of a file may stop when the card is gone, and neither `ini_parse` nor
`fgets` tells that from the end. `Fail` is any other call of the three tasks of
`Boot` that fails, after which the task blocks. A card that is mounted holds both
files: one that is not formatted, which is mounted all the same, and one
without the files are not modelled apart from what `Fail` stands for.

## Runs

| run | shows | bounds |
|---|---|---|
| `bridge` | `TypeOK`, exclusion, pool and buffer accounting, harmless refusals, and `ImplementsService` | a block of two registers at another address in the map than in the device and a block of one coil; three registers, two values, every kind of request; two messages, three buffers |
| `bridge_live` | requests end, polling goes on, every write taken is tried, the map converges to the device | the same blocks, four requests, two messages, two buffers |
| `block_list` | types; routing of writes; one illegal number makes no block | all files of at most three of eleven lines: adjoining, overlapping and empty ranges, numbers 0 and 1 of a table, illegal numbers, two address lengths |
| `tcp_link` | a read that succeeds gives what its block held during the call; ids stay apart; calls return; late answers do no lasting harm | two blocks whose answers look alike, two values, an id of three values, answers up to two calls late |
| `rtu_link` | types, and no answer of another function taken, on a noisy line | two blocks, one byte lost, a ring of seven bytes, one answer behind |
| `rtu_link_quiet` | on a quiet line: messages end where `receive_msg` stops, reads are current, reads succeed again and again | two blocks alike and a written one, two values, refusals, a ring of five bytes, which the longest piece just fills |
| `slave_server` | types, answers to one's own requests in order up to the first one of an unknown function, nobody waits for ever while the server listens, why it stops | two clients of two requests with data each; three sockets, backlog one, one reset, one pause; handshakes that overlap or are given up |
| `boot` | order of the start, whole mounts, configuration as in the file, no card in the way of the next, and that an undisturbed start completes | five files, good and bad; two moves from either position, one bounce, one failing call of the SD card task and one of the others, two polling blocks |
| `bridge_buffers` | violated: buffers of dropped writes are lost | as `bridge` |
| `bridge_wide` | violated: polling stops in the copy loop | one block ending at the last `uint8_t` |
| `tcp_link_dead` | violated: after a reset the master repeats its request on the dead socket for ever | as `tcp_link`, one value, no errno of other tasks |
| `slave_server_leak` | violated: clients that left use up the sockets, then the server closes its own | two clients, two sockets |

The bounds make the interesting cases happen. In `bridge`, with three buffers
and two messages, the pool runs out before the heap does and then the heap does
too; two registers per block are enough to see half a block; two blocks make
the list turn; a map of three registers has one that no block polls, which the
inclusive end of the first block still covers. `U8` and `U16` are 8 and 16 in the
instances of `Bridge`, above every address but those of `bridge_wide`;
`MCBlockList` has the true `U8` and `U16` and a `U32` of 2^20. In `tcp_link` the id
comes round within the calls an answer may be late, plus one, which is as close
as `TcpAssumption` lets it. In `slave_server` the two clients and the listening
socket leave no structure for another accept, so that this one fails too.
In `boot` the card starts in or out, so two moves pull it and put it back, or put
it in and pull it; that nothing of one card is left for the next is proved for
any number of moves. `Window`, `Losses`, `MaxRequests`, `Resets`, `Pauses`, `Moves`,
`Bounces`, `Faults` and `Failures` only bound the environment.

The deadlock check is off where the modelled part may end: `block_list`, where a
loaded file is the end; `slave_server` and `slave_server_leak`, where all clients may have left; `boot`,
where both tasks may be up or blocked.

### Fairness

*Bridge.* `FairSpec` asks that each task goes on when it can (`WF` of `SlaveStep`
and of `MasterStep`), and that the master task gets through its start or blocks
there. The tasks share a priority and yield at every blocking call, and the
mutex is handed over at unlock, so no stronger fairness is needed for the lock.
It assumes that calls return: the send of an answer ends with an error when the
client is gone, and a read of the device ends, which `tcp_link` shows as long as
the connection holds and `tcp_link_dead` refutes after it is lost. Nothing is
asked of the clients or of the reads' success. Only `Converges` supposes, as its
antecedent, that the read of each block succeeds again and again.

*TcpLink.* The master task goes on, a living device does something with a
request, an answer arrives. Connections need not stay, and a new one need not
be had; the properties name what they suppose.

*RtuLink.* The same, and bytes on the line end. `QuietSpec` has no noise, no
answer later than a call and the sleep after it, and no overrun while the
master waits for bytes that are there: it looks every millisecond.

*SlaveServer.* The slave task goes on; what a client sent arrives; a client
connects when it can (its SYN finds room in the end, the ACK of a handshake it
has not given up arrives), and leaves in the end when it has all its answers, as one
must when there is one server task. A client that never leaves keeps the task,
by design of the code.

*Boot.* Tasks and the interrupt go on, a card that is out is put in as often as
`Moves` allows, the device comes up. A call that fails (`Fault`, `Fail`) is never
due: a task that waits may wait for ever.

## Findings

* A buffer is lost with every write dropped (`modbus_slave.c:263-281`), until
  the slave task blocks in `_task_block` (`modbus_slave.c:193,217`).
* A register block whose end in the map is above 255 stops the bridge
  (`modbus_master.c:274,308,318`).
* After a reset, unless another task happens to leave the right `errno`, the
  master repeats its request on the dead socket for ever (`modbus.c:182-199`).
* The slave task closes no connection; after as many as there are sockets for
  (`network.c:105-107`) accept fails, and `modbus_tcp_accept` closes the listening
  socket (`modbus-tcp.c:605-612`). A client that resets before it is accepted has
  the same effect at once.

Seen while modelling, and part of the models without a run of their own:

* the pool never grows, since `_msg_available` is asked first
  (`modbus_slave.c:263`);
* the refusal of an illegal register number compares a `uint8_t` with -1
  (`modbus_master.c:73,79`); one illegal number still fails the comparison of the
  two function codes (`IllegalOnlyInPairs`), two of them make a block;
* over RTU an answer later than its timeout is taken for the answer to the next
  request of the same shape, and the line may stay one answer behind, since
  flush keeps what was received although it reports bytes flushed
  (`modbus-rtu.c:860-870`, `modbus.c:125`): hence the quiet line;
* an RTU answer whose data and checksum exceed the 63 bytes the ring holds is
  never received (`modbus-rtu.c:924`, `nio_serial.c:1010`);
* a request with a function code that `receive_msg` has no length for puts the
  server out of step with its stream (`modbus.c:248-281`);
* handshakes that overlap establish more connections than the backlog, although
  it is a hint for the "maximum number of fully established connections pending
  for accept()" (`sock_stream.c:296`);
* a call of the SD card task that fails, with a card that cannot be read as much
  as for want of memory, blocks it for good with the card in
  (`mfs_filesystem.c:97-248`): a good card put in later is never mounted;
* a card pulled within the debounce delay blocks the SD card task
  (`mfs_filesystem.c:165-236`), and one pulled while `modbus.ini` is read leaves a
  part of the configuration in force (`inih.c:100`);
* `is_valid_ipv4` is the wrong way round, as `inet_pton` of RTCS returns 0 for an
  address, and is asked about the address already stored (`main.c:82,143`): a
  wrong address is stored like a right one.

The shipped `polling_blocks.txt` has two blocks that overlap at address 18 of the
map, a list for which `RoutedWherePolled` promises nothing.

## Proofs

All theorems hold for every value of the constants that satisfies the `ASSUME`
of the modules. A hypothesis beyond those stands in the theorem, under a name.

`BridgeProofs`: `TypeCorrect`, `MutualExclusion`, `PoolConserved`, `BuffersOwned`,
`RefusalsHarmless`. They follow from one inductive invariant, `IInv`. None is
inductive alone: the pool stays below its limit because the messages in flight
make up what is missing (`PoolInv`), which holds across a write only because the
master has a message in hand exactly in its state `write` (`MessageHeld`); the
heap likewise. `MutexInv` says which task waits behind which owner, so that an
unlock hands the mutex to a task that is at its lock. The proof has a lemma per
conjunct, each with a step per action, and lemmas about the operators. The
assumption on the blocks, that each fits its table of the map, is one the code
does not check.

`BridgeServiceProofs`: `Linearizable`, that `Bridge` implements `BridgeService`.
`ServiceInv` adds to `IInv` what the copy loop holds: `i` and `j` go together, and
with the mutex in the master's hand all entries behind them are copied
(`CopyInv`). So the image, which has the whole block from the moment the master
gets the mutex, does not change while the loop runs and equals the map when it
ends; the slave, which replies under the mutex only, replies from a map that is
the image. The master gets the mutex either at once or in the slave's unlock,
which then is both `Refresh` and a stutter of the slave; the proof has a case for
each. Writes in flight are the queue and the message in hand, in that order.
Hypothesis `NarrowBlocks`: the end of each register block in the map is below
`U8`, the bound of the loop's `uint8_t` counters. The code does not check it, and
`bridge_wide` shows that at the bound the loop never ends.

`BlockListProofs`: `TypeCorrect`, `IllegalRefused`, `WritesRouted`. The invariant
says that the list is the file read so far, latest line first (`ListInv`). What
a number of a line means is then arithmetic with remainders: a block of a legal
line keeps the line's numbers within their widths, and two lines in ascending
order stay so in the list; hence the first block whose offset of the address is
below its quantity is the block that polls it.

`ModbusFrameProofs`: `EveryRequestEnds`, `EveryResponseEnds`, `AllFramesAgree`:
the lengths agree for every function and quantity, by cases over the functions.
The module also has the lemmas on sequences that `RtuLinkProofs` and
`SlaveServerProofs` cite.

`TcpLinkProofs`: `TypeCorrect`, `IdsTellCallsApart`, and `ReadsAreCurrent`, the
refinement of `Transaction`. The invariant orders all that is under way by age,
answers in the socket before answers on their way before requests (`InOrder`),
ties each id to an age, `tid + age = t_id` modulo `U16`, and says how old a
message may be at each place of the master (`Placed`): nothing of the present
call before its request is sent, nothing `Window` calls old once a call ends.
The latter is what keeps ids apart when the counter wraps: an answer that is
taken leaves only younger ones. So an answer with the id of the call has age 0
and is the only one; the step that produced it is the abstract `Sample`. The
bound `Window < U16` stands for 65535 calls within the delay of one answer.
`TypeCorrect` is part of this argument, since `Window` bounds the type of an age.

`RtuLinkProofs`, on any line: `TypeCorrect`; `OwnBlockAnswered`, for blocks of
which no two are `Alike`, since nothing else in an RTU answer tells its request;
`OnlyFittingTaken`, that no call succeeds with an answer whose data and checksum
are not below the ring's size. On a quiet line, `QuietSpec`: `AnswersEnd` and
`QuietReadsAreCurrent`, the refinement of `Transaction`, from `QuietInv`: while
the master receives, the bytes it took, those in the ring and those still on the
line are, in this order, one answer to the request of this call, and what it
waits for ends inside that answer (`Arriving`). Their hypothesis `StepsFit`, that
the ring holds the longest piece `receive_msg` waits for, is 30 registers of data
with a `NIO_SERIAL_BUFF_SIZE` of 64; `OnlyFittingTaken` shows that the code needs
it. The assumption that an answer fits `MaxAdu` is what `modbus_read_*` checks
(`MODBUS_MAX_READ_BITS`, `MODBUS_MAX_READ_REGISTERS`).

`SlaveServerProofs`: `TypeCorrect`, `OwnRequestsAnswered`, `ListensUntilExhausted`
and `StructuresSuffice`. The latter two follow from the fact that the stack's
count is the number of established connections on its list until a client
resets (`Counted`), whatever handshakes are under way or given up: until then
accept finds one whenever the count is not 0. `TypeCorrect` has no upper bound on
the count, as the code has none. For the
answers, the query joined with what is still in the stream is the bytes of the
requests not yet answered, in order, as long as all requests before are of
functions the server knows (`FlowInv`); the pieces `receive_msg` reads end inside
the first of them (`QueryInv`, by `ModbusFrameProofs`), so a reply answers
the next request and leaves the stream at the start of another. After a request
of an unknown function nothing is promised (`KnownUpTo`), as in the code.

`BootProofs`: `TypeCorrect`, `StartsInOrder`, `MountsWhole`, `NothingLeftBlocks`,
`RunsConfigured`. The invariant ties the places of the three tasks to the
semaphore, which is posted once (`Ordered`), and the devices that are open to the
place of the SD card task (`SdInv`). From the latter, the task goes to mount a card
only with nothing open, so what blocks it is never a device of an earlier card
(`NothingLeftBlocks`): it is a pull between the sample of the pin and the end of
the mount, or a call that fails for a reason of its own. For `RunsConfigured`, a card that was never
pulled stays mounted once it is (`Kept`), so each file is read to its end
(`ReadWhole`), and `modbus_conf` is what the lines read so far give (`ConfRead`).
Hypothesis `EachKeyOnce`: no file gives a key twice, as what such a file says,
`WholeConf`, is left open: of two lines the code keeps the later, except for `ip`,
where a second address is refused once a valid one is stored, and any is stored
over one that is not valid (`main.c:82,143`).

Model-checked only is liveness (`RequestAnswered`, `PollingRecurs`, `ImplementsFairService`,
`Converges`, `CallReturns`, both `ReadsSucceedAgain`, `ServesWhileListening`,
`RequestsAnswered`, `Settles`, `Boots`). These rest on weak fairness, whose proof
needs `ENABLED`, which the installed provers do not handle. TLC checks
them within the bounds above.

## Not modelled

* Nearly all of the repository's lines are vendored: the MQX kernel, RTCS, MFS, USB,
  drivers and device headers. They are modelled as far as the bridge calls
  them (mutex, message pool, sockets of the server, serial ring, card
  devices); their protocols and data structures are not.
* Bytes of requests and responses beyond function codes and counts; CRC, which
  is intact or not; the text of the files; the socket's timeouts as times.
* FC05 and FC15 towards the device, which the code leaves as TODO.
* The network set-up and telnet are one step of `Boot`; the telnet shell does
  not touch the bridge.
* One connection may take another's socket structure after a failed connect
  (`modbus-tcp.c:310`); `accept` and the `getpeername` after it are one step of
  `SlaveServer`, so a reset between them is not seen.
* A write of FC16 whose byte count is not twice its quantity: the slave task
  allocates by the quantity and copies by the byte count before anything
  compares the two (`modbus_slave.c:212-224`). All requests of `Bridge` and
  `SlaveServer` carry the bytes their quantity calls for, and no property or
  theorem here says anything of others.
* Cards that are mounted without the files or without a format, and reads that
  fail with the card in.
* Preemption: all tasks of the bridge share a priority, and those of the stack
  only appear through what they do.
