# S5LBox in TLA+

S5LBox is a C emulator of the S5L8900 board that runs iPhone OS in an iOS app
and from a command line. These modules specify the parts of it in which the
order of things decides whether it is right: the guest's network, from the
host's sockets down to PPP; the disk, from a machine's work image through its
snapshots to the bridges that answer the guest's kernel; the life of an engine
and the input it is given; and the caches between an instruction and its
memory. TLC checks them on small instances, and TLAPS proves the safety
invariants of all of them, and two refinements, for every value of the
constants.

Paths below are relative to the repository. The line numbers of every
definition are in `PROJECT.json` under `map`, and what is hard to test in the
code, with the properties that are about it, under `hazards`.

Contents: [the system](#the-system) · [plan](#plan) ·
[TCP](#1-host-side-tcp) · [PPP](#2-ppp-peer) · [snapshots](#3-snapshot-overlays) ·
[engine](#4-engine) · [memory disk](#5-memory-disk) · [NAT](#6-nat) ·
[input](#7-input) · [work image](#8-work-image) · [MMU](#9-mmu) ·
[proofs](#proofs) · [findings](#findings) · [what is left out](#what-is-left-out) ·
[running it](#running-it)

## The system

| Component | State it keeps | Operations | Talks to | What is hard, and what makes it right |
|---|---|---|---|---|
| Host-side TCP (`core/src/net/tcp.c`) | a flow slot: RFC 793 state, sequence pointers, two 4 KiB buffers, one deadline | `net_tcp_input`, `net_tcp_tick` | the datagram ring, a host socket (`net_egress_t`) | loss, retransmission, back-pressure, every order of closing; bytes arrive once and in order, no flow stalls or leaks its slot |
| NAT: IPv4, ICMP, UDP, DNS (`net/net.c`) | 24 flow slots, a ring of 32 datagrams | `net_input`, `net_tick`, `net_output` | TCP, PPP, host sockets | slots and ring run out; a datagram taken from a socket has to be kept |
| Host sockets (`tools/net_host.c`) | descriptors | connect, send, recv, shutdown | the kernel of the host | partial sends, late failures |
| PPP peer (`net/ppp.c`) | two RFC 1661 automata, one restart timer each, a transmit ring, a deframer | `ppp_open`, `ppp_close`, `ppp_input_byte`, `ppp_tick`, `ppp_send_ip`, `ppp_output_byte` | the guest's pppd over UART 4, the NAT | two automata one above the other, retransmissions crossing answers, rejection of anything at any time |
| Network pump (`tools/bootkernel.c`) | open/armed flags | `ppp_pump_step` after every run slice | PPP, NAT, UART | the order of tick, drain and input |
| Snapshot overlay (`app/Sources/VMSnapshotCow.c`) | overlay file, bitmap of saved blocks, poisoned flag | open, write, flush, close, replay | the work image, the snapshot list | save before write, process death and power loss between any two steps, restore and run on |
| Snapshot store (`VMSnapshotStore.c`) | a directory of snapshots | list, metadata | overlay, view controllers | half-made entries skipped, newest first |
| Firmware boot (`VMFirmwareBoot.c`) | media, overlay adapter, bridges | arm, start, rearm, destroy | bring-up, overlay | the order in which borrowed descriptors end |
| Engine (`VMEngine.m`) | lifecycle state, the machine, frame snapshot, console, under `_lock` | start, stop, pause, touch, button, publish | UI thread, emulator thread | every stop path ends idle with the machine freed once |
| Input queues (`VMTouchQueue.c`, `VMButtonQueue.c`) | rings of events | push, peek, pop | UI and emulator threads | a full queue must not lose an edge |
| Memory-disk bridges (`md_bridge.c`, `md_raw_bridge.c`) | up to 4 pending redirected requests | strategy calls, two trap sites | guest RAM, block device | nested requests, completions matched to requests, restored guest state |
| Block layer (`vm_block.c`, `vm_source.c`, `tools/file_block.c`) | limits, sticky errors, a file lock | exact read and write, flush | files | retry loops that end, first error wins |
| Work image (`tools/rootfs_work.c`, `VMFirmwareBoot.c`, `VMInstancePaths.c`) | a file being made, the machine's own and the one an older build shared | adopt, probe, provision, publish | the importer, two engines, files | publication all or nothing, a finished image never removed, a death or a loss of power at any moment |
| Interrupts and time (`soc/vic.c`, `gpioic.c`, `timer.c`, `power.c`) | latches and masks | register access, ticks | every device, the CPU | level against edge, acknowledgement racing a new edge |
| Multitouch, SPI, buttons, PMU, I2C (`soc/mtz2.c`, …) | frame queue, registers | register access, ticks | interrupts, input queues | a frame handshake over an edge-triggered line |
| UART, DMA, audio (`soc/uart.c`, `pl080.c`, `i2s.c`, `wm8991.c`) | FIFOs, channels | register access, ticks | interrupts, PPP pump | FIFO limits |
| CPU and MMU (`core/src/arm`, `core/src/mmu.c`) | registers, TLB, three caches of host pointers | run, translate, maintenance | bus, snapshots, bridges | generations that wrap, caches of pointers beside a cache of translations, registers changed by several routes |
| Translators (`core/src/jit`, `tools/a64_static.c`) | code cache | translate, run | CPU | emitted host code |
| Display and graphics (`soc/clcd.c`, `mbx.c`, `tvout.c`) | registers, surfaces | register access, draw | frame telemetry | data transformations |
| Snapshot file (`snapshot.c`) | none | save, load | machine | load all or nothing |
| Firmware import (`VMFirmwareImport*.c`) | staging files | import | formats | staging and publication |
| Formats, patches, options, views, tools | none worth a model | | | |

The guest runs on one emulator thread. Devices, the PPP peer and the NAT are
called on that thread between run slices or from register accesses, so each of
their entry points is atomic with respect to the others; what interleaves is
the guest, the host's sockets, loss and time. The app adds a second thread, the
UI's, and files add crashes.

## Plan

Done, in the order of writing:

1. `NetTcp`, `NetTcpLink`, `ByteStream`, `NetTcpProofs`: host-side TCP.
2. `Ppp`, `PppLink`, `PppProofs`: the PPP peer.
3. `SnapshotCow`, `SnapshotCowProofs`: overlays, crash and replay.
4. `Engine`, `EngineProofs`: the life of an engine.
5. `VmBlock`, `RawBridge`, `RawDisk`, `RawBridgeProofs`: the memory disk over the
   block layer.
6. `NetNat`, `NetNatProofs`: the flow table, the sockets and the ring.
7. `InputBoard`, `GuestInput`: touch and keys, from the view to the guest. Their
   theorems are in `EngineProofs`, beside those of the engine that runs them.
8. `WorkImage`, `WorkImageProofs`: how the root filesystem comes to be, and stays.
9. `MmuWalk`, `Mmu`, `MmuProofs`: translation and what caches it.

Next:

10. The refinement of `ByteStream` toward the host (`ReliableToHost`), which needs
    an account of every octet of the guest's that is under way.
11. Further parts, if they are worth it: PPP's ring with IP datagrams in it, the
    snapshot store's directory, DMA with the serial line.

How the modules fit together: each one that others build on is plain
(`NetTcp`, `Ppp`, `VmBlock`, `InputBoard`, `MmuWalk`), a second one EXTENDS it
with its surroundings (`NetTcpLink`, `PppLink`, `RawBridge`, `GuestInput`,
`Mmu`), the promise is a module of its own where there is one to state apart
(`ByteStream`, `RawDisk`), `MC...` holds the values TLC needs and `...Proofs`
the theorems.

## 1. Host-side TCP

**`NetTcp`** models one flow. `flow` is `net_flow_t`, `out` is the ring of
datagrams of `net_stack_t`, `host` is the socket behind the flow with a record
of what crossed it, and `iss` is `iss_walk`. The functions of `tcp.c` keep their
names and are operators on a context `[f, out, h]`; where a host call may answer
in several ways an operator yields a set of contexts. The actions are the entry
points:

| Action | Code |
|---|---|
| `net_tcp_input(s)`, split by its early returns into `InputSyn`, `InputUnknown`, `InputReset`, `InputSynAgain`, `InputNoAck`, `InputAck` | `net_tcp_input`, `tcp_syn`, and the tick that ends them |
| `Tick(due)` | `net_tick` for the flow, with the deadline expired or not |
| `net_output` | the pump taking a datagram |

An octet is the number of its position in its stream, so that loss, repetition
and reordering of octets can be seen. Sequence numbers are integers; buffers
of 4096 octets keep everything that is compared far below 2^31 apart. Deadlines
are abstract: a running one may be found expired by any later call.

**`NetTcpLink`** puts a guest TCP, modelled from RFC 793, at the other end of
two FIFOs that lose datagrams. The guest repeats its SYN, sends a stream, may
close after it or with its last octet, retransmits, closes and reopens its
window, resets. The host may speak before the handshake is over
(`HostTalksEarly`), and the SYN-ACK may time out (`HandshakeTimesOut`).

A SYN that the guest repeats and that arrives when the slot has been given back
begins a connection at a new number (`iss`), of which a guest that is already
open knows nothing: it answers the SYN-ACK with an ACK of its own stream. What
such a slot does is no part of the guest's stream, and the properties of the link
speak of the others (`InStep`: `irs`, the number the guest opened with, is not
below `iss`).

**`ByteStream`** is the abstract specification of one direction: octets are
taken from one side in portions and delivered in order, without loss or
repetition, and the end is announced after the last octet or never.
`NetTcpLink` instantiates it twice. `ReliableToGuest` says that every step of the
composition is one of the stream toward the guest. The code loses the first
octet of a host that speaks before the handshake's ACK (`GuestStreamIntact`,
under [findings](#findings)), and nothing else; so `GivenTo` puts that one octet
back where the guest's stream begins with the second, and the refinement is of a
stream that comes whole or without its first octet. It is checked with early
hosts and is proved. `ReliableToHost` is checked by `NetTcpToHost.cfg` (3 guest
octets, a buffer of 2, two resends that overlap, one loss, a stalling host),
which takes longer than the listed runs.

| Run | Bounds | Shows |
|---|---|---|
| `net_tcp_any_guest` | buffers of 2, ring of 1, segments of 1, one retransmission, 2 host octets; 90-odd different segments, sensible and not, at any moment; one incarnation | that every flow that owes something has a deadline, keeps what it acknowledged, and half-closes the host only after the last octet, whatever the guest sends |
| `net_tcp_link` | 2 host and 1 guest octets, buffers of 2, segments of 2, guest buffer of 1; two SYNs, one resend, one loss, two retransmissions; early hosts, handshake timeouts, host failures | `ByteStream` toward the guest through closed windows and go-back-N, ACKs after a rewind among them; `txbuf` starts at `snd_una`; the window is respected but for a probe of a closed one; every order of closing, and a clean close means both ends were told |
| `net_tcp_liveness` | 2 and 1 octets, a ring of 1, 1 loss, stalls, handshake timeouts, guest resets | no flow keeps octets, a handshake or a closing state for good |

A buffer of two octets can be empty, partly filled and full; a ring of one or two
is full in most states; two octets against a window of one need a probe, and
three against a buffer of two splits and overlaps; one retransmission is enough
to tell "again" from "give up", a second to have an ACK arrive after the rewind,
and one lost datagram to need it; the second SYN is the one that repeats. Host
sends that stall are in the other two runs, and in `NetTcpToHost.cfg`. More octets
and losses only make these runs longer: no guard of the code compares with a
constant other than those scaled here. `MCNetTcp` views states by the length of
the ring
(`QueueLengthView`): the contents of queued datagrams steer neither the
endpoint nor the properties of that run.

**Fairness.** `net_tcp_liveness` assumes that a deadline that is running is
eventually found expired: the run loop ticks the stack after every slice
(`bootkernel.c`, `ppp_pump_step`) and guest time advances with it. Nothing is
assumed of the guest, the host or the link. `DeadlineFairSpec` is
`WF(NetTick(TRUE))` with its ENABLED written out as `DeadlineRunning`, which
TLC evaluates faster; `FairLinkSpec` has the plain form.

## 2. PPP peer

**`Ppp`** models `ppp_peer_t` as the record `peer`: two automata
(`fsm["LCP"]`, `fsm["IPCP"]`) with state, timer, counters, identifier and requested options;
the ring; the address; `opened` and `assigned`. Handlers keep their names:
`scr`, `str`, `sta`, `tlu`, `tld`, `ev_rcr`, `ev_rca`, `ev_rcn`, …,
`restart_timeout`. A frame is a record of protocol, code, identifier and a set
of options; octets, escaping and FCS are abstracted, so the ring counts frames.
The entry points `ppp_open`, `ppp_close`, `ppp_input` (one whole frame),
`ppp_tick` and the drain of the ring are the actions. The peer's clock stands
at 0 until its first tick, so that tick may find a deadline expired at once.

**`PppLink`** puts the guest's pppd opposite the peer. pppd is the same
automaton with the roles turned round, so it is `INSTANCE Ppp` with the
addresses exchanged, and with the one transition the peer lacks (Ack-Rcvd to
Req-Sent on a timeout). Each end's ring is the line to the other.

| Run | Bounds | Shows |
|---|---|---|
| `ppp_guest` | limits of 2, Max-Failure of 1, 2 identifiers, ring of 1; requests good, Nak'd and rejected, acknowledgements and rejected options fresh and stale, terminations, a Code-Reject of LCP (`ClosingGuest`); `ppp_close` anywhere, and a guest heard before `ppp_open` | the timer runs exactly in the states that wait; IPCP only above an open LCP; the address only while IPCP is open; once nothing is heard, retransmission ends |
| `ppp_link` | the real Max-Failure of 5, 6 requests, 8 frames, 2 losses, 1 hasty timeout | the link comes up, stays up, on the assigned address |

With limits of two a counter can be refreshed half way; two identifiers give a
current one and a stale one. Malformed requests, unknown codes, echoes and a Nak
of the magic number, which are in `AnyGuest`, are not in the frame set of the run,
which with `ppp_close` anywhere would be too long: the theorems are for any set of
frames but the rejections they name. `ppp_link` has room for 16 identifiers so that none is used again within a
behaviour.

**Fairness.** `ppp_guest`: weak fairness of ticks, as above. `ppp_link`: weak
fairness of each end hearing what is on the line (UART and peer are pumped
after every slice, and the guest runs in every slice), and strong fairness of
the timeouts, which are enabled while the line is quiet: three seconds are long
against a frame. A timeout that fires with a frame on its way is taken from the
budget `MaxHasty`.

## 3. Snapshot overlays

**`SnapshotCow`** models the work image (`image`), the overlay file of each
snapshot (`overlay`), the adapter (`cow`, the struct `vm_cow`), the write in
progress (`call`), the overlay the next start records into (`armed`) and a
restore in progress (`restore`). `cow_write_at` is not one step: each save of a
block and each write of a block is one, so that the process may die between any
two. `past` and `line` are history: what the disk held when each snapshot was
taken, and which snapshots the disk has evolved from since.

stdio keeps back less than a record; a process that dies takes the end of the
last one with it (`Abandoned`), while `fflush` and `fclose` hand everything over
(`Flushed`). The end of a record in the buffer coincides with the end of the
buffer once in 512 records; the model takes the record to be always cut.

Nothing in the app restores a snapshot yet. `BeginRestore`, `NextOverlay` and
`FinishRestore` follow the headers (newest first down to the target; then
record into the target). What is armed between the two is a decision the caller
will have to make, and it matters: a machine that runs on a half-restored disk
and records into the older overlay spoils it. The model arms the newest until
the restore is done; `BeginRestore_StaysArmed` is the other choice, and
`snapshot_cow` refutes it.

| Run | Bounds | Shows |
|---|---|---|
| `snapshot_cow` | 2 blocks of 2 values, 3 snapshots, overlays of at most 3 records; reads, saves, writes, flushes, closes and replays fail; the process dies between any two steps | an overlay that is accepted is right: with the newer ones of its line it gives back the disk the snapshot was taken of, and a finished replay leaves exactly that |

Two values tell "old" from "new", and symmetry between them is sound because
nothing but equality of values is used. Two blocks let a write straddle a
boundary and fail between; three snapshots are needed for an overlay that is
newer than the target and no longer on the line. The bound on records
(`MaxRecords`, a constraint) admits both blocks and, after a restart or a failed
save, one of them again.

## 4. Engine

**`Engine`** models `VMEngine.m` as the steps that are done under one hold of
`_lock`, or between two. `starter` is where `start` is: it takes the lock for
its guards, drops it to allocate the panel, the machine, the boot and the
thread, and looks again each time whether it was stopped (`Cancelled`). `worker`
is where `threadMain` is: `Top`, `Run` (one chunk of `s5l8900_run`), `Check`,
`Decide`, and on the way out `LastPublish`, `FreeMachine`, `CloseBoot`, `End`.
`Stop`, `SetPaused`, `SetInstructionCap` and `CopyFrame` come from any thread at
any moment. `provisioner` is the thread that makes the work image while the test
guest runs. Counters, the console and the frame rate are left out; a chunk
retires one instruction or faults.

| Run | Bounds | Shows |
|---|---|---|
| `engine` | one engine, caps up to 2 chunks; every allocation, the probe and the bring-up fail or not; firmware there or not, the image absent, shared or ready | one owner of the machine at a time, nothing kept by an Idle engine; what is said of an end is why it ended; one chunk at most after a stop; every Starting and every Stopping ends |

One engine is enough: engines share only the files, and no file an engine
finds, in whatever state, is excluded. Two chunks tell "not yet" from "reached".

**Fairness.** Weak fairness of `start` and of the worker, each engine's: both
are ordinary threads, nothing in them waits for another, and `s5l8900_run`
returns after a chunk. Nothing is assumed of the callers.

## 5. Memory disk

**`VmBlock`** is the loop of `vm_block_read_exact` and `vm_block_write_exact`: the
backend may move less than asked, ask to be called again, claim more than there
was, fail or cancel. **`RawBridge`** EXTENDS it with `md_raw_bridge.c` (both
trap sites of the raw device) and the block device's page of `md_bridge.c`, over
a guest of several kernel threads, told apart by their stack pointers, whose
pages are there or not at each entry anew. A transfer is several steps, during
which the guest stands still, as it does while a trap is handled.

**`RawDisk`** is the promise: one array, a read is what it held at one moment, a
write reaches it at one moment. `RawBridge` implements it with the medium and
the zone after it as the array and the bounce slots as the requests' buffers
(`ImplementsRawDisk`). A failure in the middle of a write leaves a prefix of it
and a halted machine, in both.

| Run | Bounds | Shows |
|---|---|---|
| `raw_bridge` | two stacks, two uio structures, a medium of 2 units and a zone of 2, two slots, two requests, a no-progress limit of 2 | the refinement; slots, stacks and uios stay one to one; a uio gets its segment back; every turn of the transfer loop leaves less to come |

A medium and a zone of two let a request lie in either, across the border, and
end at the end; two requests on two slots overlap, nest and repeat. The symmetry
of stacks and of uios is sound: the code only compares them for equality, and
the properties quantify over all of them. `TransfersEnd` states termination as
a measure that every turn lessens, so that it needs no fairness. The guest
stops when its two requests are done, so deadlock is not checked.

## 6. NAT

**`NetNat`** models what the flows share: `flow` is the table of
`net_stack_t`, `sock` the handle table of `tools/net_host.c`, `out` the ring.
UDP is whole: lookup, allocation and its refusal by a full table, sending, polling with its
guard, expiry. ICMP echo and DNS are answers that need only the ring. A TCP flow
is `NetTcp`'s; here it has its slot and its socket and emits segments. A tick
(`TickBegins`, then one `TickStep` per slot) is interleaved with arrivals from
the network; nothing else is, because `net_input`, `net_tick` and `net_output`
run on one thread.

| Run | Bounds | Shows |
|---|---|---|
| `net_nat` | two conversations of UDP and one of TCP for two slots and two handles, a ring of 2, a guard of 2, 3 requests, 2 datagrams sent | sockets and flows stay one to one while both tables are used again; no datagram reaches another conversation, comes twice or comes late; silent UDP flows end |

Three conversations for two slots force refusal and the use of a slot again; a ring as long as
the guard fills within one tick. `UdpFlowsEnd` is stated of all behaviours since
the guest's datagrams are bounded: after the last one every flow is silent.

**Fairness.** `TickStep` weakly, since `net_tick` returns; `TickBegins` with time
gone on strongly, since the pump ticks after every slice and the clock it reads
advances.

## 7. Input

**`InputBoard`** is the hardware side: the levels of the switches
(`soc/buttons.c`), the interrupt latch with level and polarity (`soc/gpioic.c`), its
cascade, the one report the touch part holds (`soc/mtz2.c`) and the refresh that
`soc.c` does only when something is dirty. **`GuestInput`** EXTENDS it with the
app's two queues and with the guest's drivers. The queues are rings under
`_lock`; a drain peeks under one hold, calls the device, and pops under another,
and the UI thread may push between. The drivers are not in the repository:
their handler (acknowledge, flip the polarity, start a debounce) and their read
of a frame are what `core/include/soc.h` and `test_buttons.c` say was decoded of
them, and `map` marks them external.

| Run | Bounds | Shows |
|---|---|---|
| `guest_input` | a switch of each polarity and the panel; queues of 2; 3 presses and reports; a pause; one reset of the touch part; drivers that come up at any moment | the CPU sees at once what an eager refresh would show; when all is quiet the guest holds the keys the finger holds; no edge of a gesture is lost but by a full queue or a part in reset, and order is kept; everything taken is heard in the end |

Queues of two are full after two inputs, and the third finds them so; three
inputs are a press, a release and one that crosses them. A pause stops the
drains and nothing else: `-setButton:` and `-sendTouchAtGuestX:` go on queueing,
which is the easiest way to a full queue.

**Fairness.** The emulator thread weakly. The guest strongly (`GuestWorks`): a
chunk is 100,000 instructions, so a handler that could run again and again
between chunks does. `AllHeard` supposes that the user does not leave the machine
paused.

## 8. Work image

**`WorkImage`** models how `rootfs-work.img` of a machine comes to be: the main
thread adopts an older build's image and probes (`BringUp`,
`vm_instance_work_adopt`, `Probe`), a worker of each engine checks, removes what
is too short, copies into an exclusive temporary, compares, syncs and links
(`rootfs_work_create`), and the importer writes `rootfs.img` in place. A file is
its size, what is in it and whether `fsync` has been over it. `log` holds the
directories a loss of power may go back to, those since the last `fsync` of the
directory. A kill ends the threads and keeps the files; the temporaries of
dead processes are never looked at again and are dropped from the state.
`done` has the images whose worker came to its end; `told` those the machine
booted, or was said to have, because a probe saw them, since the power was on:
`-provisionRootFilesystem:` turns a refusal into "ready" when the file is there
(`AsksTheDisk`), whoever made it and whether or not its directory has been synced.

| Run | Bounds | Shows |
|---|---|---|
| `work_image` | nine scenes (`MCScenes`): no image, an empty, a short or a finished one, an older build's short or finished one; two engines with their workers; 2 failing calls, 1 or 2 kills, up to 1 loss of power, up to 2 imports | what is called ready is complete; what is published is complete, also after a loss of power; an image that a worker made to its end, or an older build left, is kept across every fault; one that was booted or called ready because a probe saw it is kept until the power fails; no finished image is removed while the power is on; a user who keeps reopening gets there |

The scenes leave out the combinations in which the code does something else,
which `WorkImageDisagreements.cfg` shows: an image to be removed with two
workers at it, a short image with an import under way, and an import that is
larger than the growth. `Careful` says of any scene whether it is one of
these; `MCScenesAreCareful`, which TLC evaluates, finds every scene of the run
careful and the three of these disagreements not. In the scenes with
imports no power is lost, since the importer syncs nothing here.
`fsync` is taken to make a file durable; what the device does below it is not
modelled.

**Fairness.** Workers and the bring-up weakly; reopening weakly as well, since
`Prepared` is about a user who does.

## 9. MMU

**`MmuWalk`** is the walk of `core/src/mmu.c` as a function of the registers, the
guest's tables and an access: both formats of descriptors, sections and
supersections, the two table bases, domains, permissions and execute-never, the
order in which faults are found. An access is a block of 1 KB, a kind and a
privilege. **`Mmu`** puts before it the translation cache with its generations
and its stamp, and the interpreter's three caches of host pointers: one block for
fetches and a table each for reads and writes. The guest edits its
tables as it likes and owes maintenance for it: `since` remembers the tables
there have been since the last, and an answer is right if a walk of one of them
gives it, which is what the architecture allows. `behind` remembers that CP15 was
changed on the struct instead of by an instruction.

| Run | Bounds | Shows |
|---|---|---|
| `mmu` | five accesses that share slots and differ in address, kind and privilege, two of them in privilege alone; three sets of registers, two of tables; 2 entries in the translation cache and in each block cache; generations of which two flushes use up all | no translation and no host pointer is older than the last maintenance or of other registers or another privilege than the access, through wrapping generations, resets, restores and revoked consent |

The real generations are of 32 bits; they wrap in the model as they do in
the code, only sooner, and the theorems hold for every width. An access that
crosses a page translates twice and leaves the block caches alone
(`Translate`); one that crosses a block takes the slow way.

## Proofs

Every theorem holds for all values of the constants that satisfy the named
assumptions of the modules.

**`NetTcpProofs`.** `IInv` is `Good(Here) /\ Alive(flow) /\ iss \in Nat`. The
invariants of the run are not inductive by themselves:
`SendPointers` needs to know which states go with a sent FIN, and
`AckedOctetsKept` and `HalfCloseAfterFlush` fail in the CLOSED state that a final
acknowledgement leaves for the tick at the end of the same call. `Good` is stated
of the context in the middle of a call, with that exception, and `Alive` says
that no call returns in that state. There is one lemma for each function of
`tcp.c`, about the context it returns, and `NextStepped` has one step per entry
point. From `Invariance` follow `TypeCorrect`, `Deadlines` (`NoSilentStall`),
`AcknowledgedKept`, `HalfClose`, `PointersInside`, `Bounds` and `NoRetraction`
(an action property: the right edge of the window never moves left).

The second half is about `NetTcpLink`. `LInv` adds to `IInv` what the slot, the ring
and the line owe to the guest. The guest enters only through `View`: our initial
number, where the host's stream begins (`org`), how far it has received, the right
edge of its window, whether it has our FIN and whether it has sent its own.
Nothing in a view is ever taken back, so what holds of a datagram or an
acknowledgement when it is sent holds when it arrives, however late and however
often, and no datagram has to be followed through the FIFOs. `Linked` is what is
owed to a view: the slot's window ends where the guest's does or before, no
acknowledgement was accepted that was not given, `txbuf` is what was read from
the host and not acknowledged (`Buffered`), and what is in the ring was cut from
the host's stream inside that window or is one octet of a probe (`Sent`). `Lined`
says that acknowledgements arrive in the order they were sent, `Peer` that what
the guest has is the front of the host's stream. Each function of `tcp.c` has a
second lemma, that it keeps `Linked` for any view. `TxbufAtSndUna` is not
inductive without `Sent` and `Peer`: an acknowledgement may be subtracted from
the buffer only because the guest can acknowledge nothing but what was sent.

The origin is what lets the theorems hold for early hosts and handshakes that
time out. While the SYN has not been counted, the first octet in `txbuf` stands at
our initial number, where the SYN is: the origin is one lower. An ACK that counts
the SYN with an empty buffer puts it right, since nothing has been sent of the
stream; with octets in the buffer, or after a timeout has rewound `snd_nxt`, it
leaves it, and the guest takes the first octet for the SYN it has. So `LInv(o)` is
of an origin o, which moves at most once in the life of a slot, and `Whole` says that there is one as long as the slot is `InStep`. That a slot
once out of step never comes back (`OutOfStep`) is that `iss_walk` only grows and
an open guest takes no other SYN. From `LinkInvariance` (`LinkSpec => []Whole`)
follow `WindowRespected` (`SentWithinWindow`), `BufferAtSndUna`
(`TxbufAtSndUna`), `ClosedOnBothSides` (`ClosedMeansBothEnded`) and
`GuestStreamReliable` (`ReliableToGuest`, step by step: `StreamStep`). All constants
are free: the length of the streams, the buffers, the SYNs, losses, resends,
stalls, failures and both switches. `EstablishedMeansConnected` is not among them:
the code does not keep it once a SYN is repeated ([findings](#findings)).

**`PppProofs`.** `Good` says that the peer is well formed and that each timer
runs exactly in the states that wait; it is inductive on its own
(`PeerStaysGood`), and gives `TypeCorrect` and `TimerAlwaysRuns`. `Linked` ties
IPCP to LCP and the assignment to IPCP. It is inductive over `Good` only under
`Cooperative`: no Code-Reject or Protocol-Reject of IPCP arrives and `ppp_open`
is not called a second time. Without it the property is false, as
`PppDisagreements.cfg` shows. `NetworkFollowsLink` and `AssignmentFollowsIpcp`
carry that assumption. Helpers have lemmas of the form `Moved`, handlers of the
form `Stepped`.

On the link there is nothing left to assume. `LinkInv` says of each end that it
`Speaks`: it has sent only what `Said` allows, its IPCP has asked for its address
since it left Initial, and it has the wanted address wherever IPCP is
acknowledged or open. `Said` is the point: a Configure-Ack of IPCP is on the
line only if the end it goes to holds the address it was given. The guest's
address changes only by a Nak, and only to the one address the peer gives, so
once an acknowledgement was right it stays right. It therefore does not matter
which request it answers, and no reasoning about identifiers, losses or
repetitions is needed. pppd is `INSTANCE Ppp` with other constants; the operators
of both are shown equal where these do not enter. From `LinkInvariance` follow
`LinkTypeCorrect` and `AddressesAgree` (`AddressAgreed`). `Said` has no
reject of a protocol or a code and none in IPCP, which is what `Cooperative`
asked of the guest, so `LinkStaysGood` gives `Good` and `Linked` to both ends, and
with it `LinkTimersRun` and `LinkLayersTogether`: timers, layers and assignment
agree at the peer and at pppd, in every behaviour of the link.

**`EngineProofs`.** `Good` of an engine is four parts: `Control` ties the flags to
where `start` and the worker are, `Holding` says what each of them holds there,
`Stopped` what a stop that was accepted has left, `Ending` what the reason of an
end will be once it is told. The three invariants of the run speak of the
outside only and none is inductive: that an Idle engine holds nothing needs to
know, of every step of the two threads, what it still has to give back. An action
touches one engine, so each has one lemma: `Good` of that engine, `Same` of the
others. From `Inductive` follow `TypeCorrect`, `OwnershipSafe`, `EndTold` and
`OneChunk`, for any number of engines.

The second half is about `GuestInput`, and `InputInv` has seven parts.
`QuietIsTrue` speaks of the moment when nothing is pending, and says nothing about
the steps that lead there. `Told` is what makes it so: of an armed switch that the guest
has wrong, something is pending, a timer, a sample or a latched interrupt that
the handler is not about to acknowledge. That a flipped polarity is latched at
once if the level has already gone back needs `Wires` (a level-triggered line
that asserts is latched, and the cascade shows it) and `Armed` (a switch is
level-triggered before it is enabled, in the order the drivers come up);
`Handling` says that the line in the handler's hand is a latched one of its group. `Queued` is the app's end: what was
last wanted of a key is the last transition queued for it, or else what its
switch says, except for the transition that a drain has applied and not yet
popped. For touch, `Reported` says the same of the report between peek and pop, and
`Ordered` that the numbers of what the guest heard, of what the part holds and of
what is queued go up and leave no edge out but a refused one.

`s5l_buttons_apply` goes over all switches, a fold in the model. Induction over
its set is not available, so that it sets every switch and leaves every other
wire alone is shown by the least set for which it would not
(`WellFoundedInduction` gives a least natural number). From `InputInvariance` follow
`InputTypeCorrect`, `CascadeAlwaysFresh` (`CascadeFresh`), `QuietIsAlwaysTrue`
(`QuietIsTrue`) and `EdgesAlwaysKept` (`EdgesKept`), for any switches with any rest
levels, any order of bring-up, queues of any size from two, and any
number of inputs and resets.

**`MmuProofs`.** `Sound` of the caches: their types, that nothing in them is of a
generation to come (`Aged`), that translations of the current generation are
what a walk under the stamp may say (`Translations`), and live blocks what a walk
under CP15 may say unless CP15 was changed behind them (`Pointers`). `Aged` is
why a flush is sound, and the reset of the generations at their limit why it
stays so. What every flush, reset and restore leaves is `Empty`, which is `Sound`
for any tables. `mmu_walk` stays opaque but for two lemmas; two theorems are about
the walk itself, for all registers and tables: the kernel may do what the
user may (`PrivilegeKeeps`), and what may be written may be read
(`WritableIsReadable`), with the same answer. From `Invariance` follow
`TypeCorrect`, `Fresh` and `PointersFresh`.

**`NetNatProofs`.** `IInv` has two halves that change apart. `Table`: flows and
sockets have their types, every open socket is one flow's handle
(`SocketsAreFlows`), and a flow is of the protocol of its conversation
(`Kinds`). `Stream`: what waits in a socket or in the ring and what the guest
has go up in each conversation (`InOrder`), and no number is ahead of what was
sent (`Numbered`). Neither invariant of the run is inductive: without `Kinds` a
TCP slot could be polled as UDP, and without `Numbered` the next datagram from
the network need not be a new one. `Emitted`, the number of datagrams a poll
takes, is a least element, which `WellFoundedInduction` gives; that it is
within queue, ring and guard is a lemma (`EmittedAreDatagrams`). From
`IInv` follow `TypeCorrect`, `SocketsAreFlowsAlways` and `InOrderAlways`, for any
conversations, tables, ring and guard.

**`RawBridgeProofs`.** While the machine runs, `Slot` of every slot says of what
range it is and that no other has its stack or its uio; `Thread` of every stack,
that a thread in uiomove is at its own slot and has moved what the uio has left;
`Place` of every uio, that one which says "physical" is on its way; `Doing`, that
what the bridge is transferring is what the guest asked for, which waits.
`SlotsOwned` is not inductive alone: that a completion finds the slot of its own
stack, and finds it unchanged, is a fact about thread, uio and slot together.
A halted machine is owed nothing but its types, which is the `halted =>` in
`IInv`. From it follow `TypeCorrect`, `SlotsOwnedAlways`, `SegmentRestoredAlways`
and `TransfersEndAlways` (an action property: each turn lessens what is left,
as the limit on turns without progress is not passed).

`ImplementsRawDiskAlways` is the refinement, step by step (`StepIsDisks`). The array
is the medium followed by the zone; a thread in uiomove is a request, with the
slot as its buffer.

| Step of `RawBridge` | Step of `RawDisk` |
|---|---|
| `Prepare` | `Setup`: a uio no request has |
| end of a direct transfer | `Serve`: all of it at once, on both sides of the border |
| end of a redirect | `Begin`: a read has its data now |
| `uiomove` | `Move`: one unit |
| end of a completion | `End`: what was moved is written |
| `Strategy`, its end | `Fill`, `Page` |
| a failing backend, a malformed completion | `Halt`, with the beginning of one write in the array or nothing |
| `Redirect`, `Completion` and turns of the backend | a stutter |

That a transfer which takes many turns is one step of the disk rests on `Doing`
(the guest waits, so medium and uio are at the end what they were at the start),
that `End` writes the right units on `Thread`, and that two requests do not
disturb each other on `Slot`.

**`SnapshotCowProofs`.** `Restored`, which the properties use, chooses an overlay and
a record. The proofs use the relation `Gives(s, b, v)` instead: v is block b's
record in the first overlay from s on that has one, or the image's if none
has. That this is one value (`GivesOne`) needs that no overlay has a block
twice (`Files`), which needs that the bitmap is what the overlay holds
(`Attached`). `Faithful`, that the overlays from s on give the past of s, is what
`Restorable` says, and three more parts make it inductive. `Calling`: a block that
is about to be written is in the bitmap. `Ahead`: a block the armed overlay does
not have is in the image what the overlays after it give, so that saving the
image's block keeps what all older snapshots give (`GivesSaved`); this is what
fails if an older overlay stays armed during a restore. `Underway`: of a
restore, what the overlays it is through with give has been put back, so that
it may end, be given up or die anywhere and be begun anew. `RestorableAlways`,
`RestoreExactAlways` and `TypeCorrect` follow, for any number of blocks, values and
snapshots. They are about `Spec`; a loss of power (`PowerSpec`) breaks the first,
as `SnapshotPower.cfg` shows.

**`WorkImageProofs`.** Two invariants, since the properties hold of different scenes.
`IInv` is of any: every worker between its open and its unlink has a temporary
of its own, whole once `moved` has been asked and synced once it is to be linked
(`Copying`), so what was made here is whole and on the disk in every directory
that a loss of power may go back to (`Made`). `TypeCorrect` and
`PublishedWholeAlways` follow with no condition on the scene. The probe compares
sizes and nothing else, so the other properties take scenes in which sizes tell,
`\A s \in Scenes : Careful(s)`, and `KInv`: a finished file is as long as any
image and an unfinished one shorter than the only image, in every directory
of `log` (`Lasting`); what the machine was given is in all of them (`Lasts`);
whoever is about to remove a file or to replace it is alone and the file is not
finished (`Adopting`, `Keeping`, `Alone`). The arguments of two steps meet there.
`CheckExisting` reads a size and `RemoveExisting` acts later: what was too short
is unfinished, a machine with such a file is not reopened while it is busy, so
nothing comes in between. `Links` may come at any moment, but only where there
is no file, and then another worker past its link, or an adoption, would be a
contradiction. What a probe saw (`AsTold`) is finished, as `KInv` says of what is
long enough, and stays, as no step but a loss of power takes a finished file
away (`FilesStay`). `ReadyIsWholeAlways`, `KeptAlways` and `FinishedStaysAlways` (an
action property) follow, for any number of engines, sizes, failing calls, kills,
imports and losses of power.

Model-checked only:

- all liveness, and with it everything that rests on ENABLED, which is out of
  the prover's reach here: `Settles`, `ClosesEventually`, `SilenceSettles`,
  `ComesUp`, `TransitionsEnd`, `UdpFlowsEnd`, `AllHeard` and `Prepared`;
- the refinement of `ByteStream` toward the host (`ReliableToHost`,
  `NetTcpToHost.cfg`): the guest may send again what overlaps, and an account of
  what `rxbuf` and the line hold of its stream is not part of `LInv`;
- the bounds of `NetTcpLink` on its own line and budgets (`LinkTypeOK`), which its
  guards state; it holds on the instance of `net_tcp_link` and takes one more
  line in `NetTcpLink.cfg`. The types of slot, ring, host and guest are in `LInv`.

## Findings

Some sentences of the repository are not what its code does. Each has a property
that TLC finds violated in a configuration of its own; where a configuration
names several, leave one of them in to see its behaviour. None is among the runs
of `PROJECT.json`, whose properties all hold.

| Configuration (module) | Property | Disagreement |
|---|---|---|
| `NetTcpDisagreements` (`NetTcpLink`) | `GuestStreamIntact` | host octets buffered before the handshake's ACK lose the first one: the acknowledged SYN is subtracted from `txbuf` |
| `NetTcpDisagreements` (`NetTcpLink`) | `CleanCloseComplete` | acknowledged guest octets in `rxbuf` go with the slot when the last FIN exchange completes first |
| `NetTcpDisagreements` (`NetTcpLink`) | `SynCounted` | a retransmission timeout in SYN-RCVD rewinds `snd_nxt`; the handshake's ACK is then refused and the SYN stays uncounted |
| `NetTcpDisagreements` (`NetTcpLink`) | `EstablishedMeansConnected` | an ACK of an earlier incarnation establishes a flow whose connect is pending |
| `NetTcpFinWait2` (`NetTcpLink`) | `FinWait2SlotGoesBack` | FIN-WAIT-2 keeps its slot until the guest acts |
| `PppLoop` (`MCPpp`) | `LoopEnds` | on a looped line Max-Failure never ends the exchange: each Nak refreshes it |
| `PppDisagreements` (`MCPpp`) | `AssignedWhileOpen` | a rejection of IPCP leaves the address assigned |
| | `NetworkAfterLink` | a rejection takes IPCP out of Initial below an LCP that is not open |
| | `NegotiatesOnlyOpened` | Max-Failure in Closing leads to Stopped, which the guest's next request reopens |
| | `AckRcvdRetransmits` | a timeout in Ack-Rcvd stays in Ack-Rcvd |
| | `ConfigUntouched` | a Nak'd address overwrites the caller's configuration |
| | `RequestsShrink` | a rejected IPCP option is asked for again |
| `SnapshotDisagreements` (`MCSnapshotCow`) | `SavedFirst` | the saved block is in a stdio buffer when the image is overwritten |
| | `ErrorMeansNoProgress` | a failed write reports progress together with an error |
| | `AllRestorable` | after an older snapshot was restored and run on from, a newer one is accepted and wrong |
| `SnapshotPower` (`MCSnapshotCow`) | `Restorable` | a flush makes the image durable and not the overlay |
| `SnapshotRearm` (`MCSnapshotCow`) | `MachineAttached` | rearming closes the adapter the running machine writes through |
| `EngineDisagreements` (`MCEngine`) | `PausedSaysSo` | a pause during a chunk is announced, and the chunk, when it ends, says "running" again over a machine that sleeps |
| | `NoteIsCurrent` | the outcome of provisioning may be told before `start` leaves its note, which then says "preparing" with nothing being prepared |
| | `FirmwareClaimTrue` | `_mode` stays at firmware after a run, so `isRunningFirmware` is true of the next start before its bring-up has succeeded; `VMEngine.h` says there is no such path |
| `NetNatDisagreements` (`MCNetNat`) | `TakenIsDelivered` | with the ring full `udp_poll` returns "queue full: try again next tick" after it has taken the datagram from the socket |
| | `BounceNotFatal` | an ICMP error that a send meets closes the flow, which the comment on `bounced` excludes |
| `GuestInputDisagreements` (`MCGuestInput`) | `TapSeen` | a press and a release that both arrive before the driver samples are one level to it, against what `soc.h` and `VMButtonQueue.h` promise of a tap |
| `WorkImageDisagreements` (`MCWorkImage`) | `FinishedStays` (`LargerScenes`) | after the import of a larger system a machine's finished image counts as too short and is removed |
| | `FinishedStays` (`RaceScenes`) | two engines' workers find the same short image; the slower one removes what the faster one has published |
| | `ReadyIsWhole` (`ImportScenes`) | while `rootfs.img` is being written it is short, and a short image left behind is as long and is booted |
| | `ToldKept` (`LossScenes`) | a directory sync that fails (`rootfs_work.c:5772`), or another engine's link, is turned into "ready" by the probe (`VMEngine.m:584`); the power fails and the image is gone |
| | `Prepared` (`EmptyScenes`) | a zero-byte image is neither ready nor removed: the user sits on "Preparing" |
| `MmuDisagreements` (`MCMmu`) | `NewMappingSeen` | faulting translations are cached, so a new mapping is not seen without maintenance; `docs/dynarec.md` reasons from the contrary |
| | `BlocksNotice` | registers changed "by any route" are noticed by the translation cache, not by the caches of host pointers beside it |

The listed runs keep clear of these by their constants, which are named for
it: the sets of frames of `MCPpp`, `overlap` and the other fields of a scene of
`MCWorkImage`; and by what the properties speak of: the guest's stream after its
first octet, the snapshots of `line`, and pointers unless `behind`.

## What is left out

Of the parts that are modelled:

- TCP: the MSS option, checksums, addresses, wraparound of sequence numbers.
- PPP: octets, escaping and FCS, MRU and DNS options, IP datagrams
  in the ring, wraparound of the millisecond clock.
- Snapshots: contents within a block, format and size checks of an overlay
  other than its being cut, a death inside `vm_cow_open`.
- Engine: what a chunk computes, the console, the counters; two engines at one
  image are in `WorkImage`. A failed bring-up destroys the boot before it frees
  the machine; nothing runs in between, and the model has the two as one step.
- Memory disk: the fields of `struct buf`, vectors within a request, rollback of
  CPU registers.
- NAT: headers and checksums, DNS names, fragments (dropped at once).
- Input: coordinates, the mapping from the view, SPI framing, the boot load of
  the touch part, PMU and I2C.
- Work image: the editing of the copy as an HFS+ volume, container formats.
- MMU: the instructions themselves, physical addresses beyond which block of RAM
  they name, fault status registers.

Not modelled, with the reason beside each in `PROJECT.json`. By size these are
most of the repository, and of four kinds:

- drivers and instruments around the library: `tools/bootkernel.c` (a third of all
  lines, tracing and reporting on one boot), `jitbench.c`, `ios3_hle.c`; they
  have no state that outlives a run and nothing runs beside them;
- functions of one input: the decoder and the arithmetic of the interpreter and of
  VFP, the pixel and geometry pipelines (`soc/mbx.c`, `clcd.c`), the
  HFS+ editor of `rootfs_work.c`, IMG3, DMG, tar and device-tree parsers, tables of
  patches. Each is tested value by value; a model of one would repeat it, and
  TLC would check it over far fewer values than its tests do;
- emitted host code (`core/src/jit`, `tools/a64_static.c`): what it does is in the
  semantics of another machine;
- register files of devices that the system only has to tolerate (USB, NAND, I2S,
  TV-out), and UIKit views.

## Running it

    tlc -config MCNetTcp.cfg MCNetTcp               # net_tcp_any_guest
    tlc -config NetTcpLink.cfg NetTcpLink           # net_tcp_link
    tlc -config NetTcpLiveness.cfg NetTcpLink       # net_tcp_liveness
    tlc -config PppGuest.cfg MCPpp                  # ppp_guest
    tlc -config PppLink.cfg PppLink                 # ppp_link
    tlc -config MCSnapshotCow.cfg MCSnapshotCow     # snapshot_cow
    tlc -config MCEngine.cfg MCEngine               # engine
    tlc -config MCRawBridge.cfg MCRawBridge         # raw_bridge
    tlc -config MCNetNat.cfg MCNetNat               # net_nat
    tlc -config MCGuestInput.cfg MCGuestInput       # guest_input
    tlc -config MCWorkImage.cfg MCWorkImage         # work_image
    tlc -config MCMmu.cfg MCMmu                     # mmu
    tlapm NetTcpProofs.tla
    tlapm PppProofs.tla
    tlapm EngineProofs.tla
    tlapm MmuProofs.tla
    tlapm NetNatProofs.tla
    tlapm RawBridgeProofs.tla
    tlapm SnapshotCowProofs.tla
    tlapm WorkImageProofs.tla

`net_tcp_link`, `net_tcp_liveness`, `ppp_link` and `raw_bridge` do not check
deadlock: what the guest sends is bounded there, and a behaviour in which it has
sent all of it ends. `PROJECT.json` lists for every run its module, configuration
and properties, and for every property a mutant: a plausible slip in one
definition (the operators commented as slips) under which TLC finds that property
violated.
