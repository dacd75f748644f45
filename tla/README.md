# Porth-IO: a TLA+ model of the driver, the ring, the digital twin, the portals and their programs

This directory holds TLA+ modules that model the concurrent core of porth-core,
the TLC configurations that check them on small instances, and TLAPS proofs of
the properties that matter most. `PROJECT.json` maps every definition to the
lines it models and lists the runs, mutants, hazards, findings and theorems.

## 1. The system

| component | state | operations | interacts with |
|---|---|---|---|
| ring buffer (`PorthRingBuffer.hpp`) | `m_buffer`, `m_head`, `m_tail` | `push` (producer), `pop` (consumer) | lives inside the shuttle, used by driver and device |
| register file (`PorthDeviceLayout.hpp`, `PorthRegister.hpp`) | eight atomic registers | acquire load, release store | shared by every thread and process that maps the device |
| shuttle (`PorthShuttle.hpp` on `PorthHugePage.hpp`) | a pinned page with the ring constructed on it | map, unmap, address | its address is handed to the device through `data_ptr` |
| driver (`PorthDriver.hpp`) | shuttle, watchdog thread, two flags, linked statistics | constructor, `transmit`, `receive`, destructor, `watchdog_loop` | registers, ring, statistics |
| digital twin (`PorthSimDevice.hpp`) | physics thread, run and fault flags, `m_last_valid_shuttle` | constructor, destructor, `trigger_*`, `run_physics_loop` | drains the ring `data_ptr` points to, rewrites temperature, voltage, SNR, status |
| physical layer (`PorthSimPHY.hpp`) | inertial temperature, delay configuration | `update_thermal_load`, `apply_protocol_delay`, `set_config` | called by the physics thread |
| sentinel (`PorthSentinel.hpp`) | thread, `m_running` | `start`, `stop`, polling loop | reads `laser_temp`, writes `safety_trip` |
| chaos tool (`tools/porth-chaos.cpp`) | none | thermal spike, power drop | writes registers from another process |
| telemetry (`PorthTelemetry.hpp`, `tools/porth_stat.cpp`) | counters in shared memory | create, attach, detach | updated by the engine, read by the display |
| mock device (`PorthMockDevice.hpp`) | shared-memory name and mapping | create, attach, unlink | backs the registers |
| sim control tool (`tools/porth-sim-ctl.cpp`) | one twin per process | launch, stress, monitor | several processes over one register file |
| huge pages (`PorthHugePage.hpp`) | buffer, two flags saying where it came from | fallback chain, destructor | memory of the shuttle |
| VFIO device (`PorthVFIODevice.hpp`) | descriptors, BAR mapping | constructor, destructor, `map_dma` | the demo's hardware path |
| network portal (`PorthNetworkPortal.hpp`, `porth_xdp_kern.c`) | AF_XDP rings and frames | bind, open, poll, recycle | the kernel; prints signals |
| XDP portal (`PorthXDPPortal.hpp`) | AF_XDP memory and socket | bind, open, bridge | memory of the shuttle |
| metrics (`PorthMetric.hpp`) | sample buffer | `record`, percentiles, reports | host programs |
| full demo (`examples/porth_full_demo.cpp`) | all of the above as local objects | `main` | composes them |
| PDK manifest, clock, utilities | none | file reading, assembly | host programs |

What is hard here: three threads (host, watchdog, physics) and other processes
share registers without locks; the device keeps addresses in local variables and
in a latch after the driver has withdrawn them; the ring relies on memory orders
that a test on x86 never exercises; guards sample a register that is rewritten
every iteration; destructors and constructors wait for threads.

What makes each part correct:

* ring: every descriptor accepted comes out once, unchanged, in order; no slot is
  touched by both threads without synchronisation; a refusal has a reason.
* driver and device: descriptors are neither lost nor counted twice; memory that
  is not a live ring is not drained; waits end.
* guards: a chip that stays powered and publishes its temperature is tripped; stopping a
  guard returns.
* network portal: a frame is in one place at a time and comes back; what is printed is
  what arrived; the memory outlives the kernel's use of it.
* thermal model: the unsigned arithmetic stays in range and the steps settle; a
  delay is explained by what `set_config` was given, and wraps only if that allows it.
* shared memory: a restarted owner starts from fresh registers and counters, the name
  stays while the chip is online, attaching ends.
* demo: wherever acquisition fails, everything acquired goes back, in an order the
  kernel can live with; the run ends; the report is about this run.

## 2. Modules

    BoundedFifo            what a bounded FIFO promises (abstract specification)
    PorthRingBuffer        push()/pop(), one step per memory access
      MCRingBuffer           TLC instance; checks that the mask is the modulo
      PorthRingBufferProofs  TLAPS proofs
    PorthPhysics           the thermal model as functions
      PorthSimPHY            the delay of a register access as functions
        PorthThermal           the thermal loop, control writes, delayed accesses
        MCThermal              the configurations of the TLC instance
        PorthThermalProofs     TLAPS proofs
    PorthDeviceLayout      the register file and the abstraction of addresses
      PorthShuttle           the pinned memory and its ring as a bounded queue
        PorthSimDevice         the digital twin (with PorthPhysics)
        PorthDriver            the driver and its watchdog
      PorthSentinel          the second guard
          PorthSystem            host + driver + watchdog + sentinel + twin
          PorthSystemProofs      TLAPS proofs
    PorthMockDevice        one shared-memory name, its objects and processes
      PorthSimCtl            launch, stress and monitor over one chip
        PorthSimCtlProofs      TLAPS proofs
      PorthTelemetry         the shared counters and porth_stat (by INSTANCE)
    PorthHugePage, PorthVFIODevice, PorthXDPPortal
    PorthMetric            the percentiles of the collected latencies
      PorthMetricProofs      TLAPS proofs
      PorthFullDemo          the demo: those four, telemetry, device and driver
        PorthFullDemoProofs    TLAPS proofs
    PorthNetworkPortal     the AF_XDP portal, its filter and its main program
      MCNetworkPortal        the packets of a TLC instance
      PorthNetworkPortalProofs  TLAPS proofs

**PorthRingBuffer.** `m_head` and `m_tail` are the sequences of all stores to the
two atomics (their modification order). A load by the other thread may return any
store not older than the last one it has seen: this is coherence, and every
staleness C++ allows. A store carries the *view* it releases (how many slot
accesses of the storing thread happen before it); an acquire load adds it to the
loading thread's view. A slot access that is not ordered by the views after the
other thread's last conflicting access is a data race: it sets `ub`, after which a
read may return anything. `pushed` and `popped` are history variables. The relaxed
loads of a thread's own index return its own last store.

**PorthSimDevice.** `phys.pc` follows `run_physics_loop`: `check` (run flag, status
store), `gate` (deadlock flag), `dma` (the single load of `data_ptr` and the early
returns), `pop`/`count` (the loop), `thermal`/`publish` (`update_thermal_model`),
`chaos`/`flip` (`apply_chaos_effects`, load and store of `data_ptr` as two steps).
Popping through an address that is not the live ring sets `fault` and ends the
behaviour: `"unmapped"` for a former shuttle, `"wild"` for anything else.

**PorthDriver.** `drv` is the host thread's place in the driver (`commit`, `spawn`,
`handshake` in the constructor, `stats` between the push and the counter, `stop`,
`join`, `unmap` in the destructor); `wd` is the watchdog's place in its loop. A
thread start that throws is `CtorSpawnFails`.

**PorthThermal.** `dma.pc` follows the physics thread: `pop` (is there a descriptor, and
a jitter), `low` and `sum` (`apply_protocol_delay`, read by read), `spin`, and `thermal`
when the ring is empty, from where `Update` is `update_thermal_model`. A register access
through the twin is two steps, because its delay is computed from the temperature first
and the register is touched after the spin: `BeginAccess` draws the jitter and the FEC
spike, `EndAccess` loads or stores. `set_config` runs on the thread that accesses
registers, between two accesses, but stores plain fields under the physics thread's
hands: between `SetConfig` and `ConfigSet` that thread may find either value in every
field it reads (`Seen`), and so a new base delay with an old jitter, or a distribution of
which one end is new. Nothing is assumed of base delay and jitter.

**PorthSystem** interleaves host, watchdog, sentinel, physics thread and the chaos tool.
`program`, chosen initially from `Programs`, says what the host does besides
constructing and destroying the device and its drivers, one driver at a time.

**PorthSentinel.** The guard thread's loop, `start`, `stop` with its join, and the
`std::terminate` of a second `start`.

**PorthMockDevice.** `link` is what the name refers to, `fd` and `map` what each process
has open and mapped; the constructor is the calls `Unlink`, `Open`, `Truncate`, `Map`.
Objects outlive their name while somebody maps them. `Vanish` is a process that is
killed.

**PorthSimCtl.** `pc[p]` is the main thread of process `p` from `shm_unlink` or
`shm_open` to `~PorthMockDevice`, `thread[p]` its physics thread: every process that
constructs a `PorthSimDevice`, a client too, resets the registers and runs a physics
loop of its own on them, `process_dma` included (`ProcessDma`). No driver is attached, so
`data_ptr` is unusable (zero or misaligned) until a stress process flips a bit of it into
an aligned address; whichever process then loads it, the owner too, latches and
dereferences it and dies (`"sigsegv"`). Any process may be killed anywhere and the chip
launched again.

**PorthFullDemo.** `pc` follows `main()`; `live` is the stack of constructed objects,
which a throw and the end of `main()` unwind from the top. Every acquisition has its
failing alternative: `Calls` for the VFIO constructor, the allocator and `mlock` of
`PorthHugePage`, thread start, AF_XDP memory and socket, the hub's system calls. The
engine may be killed at any step and run again while `porth_stat` keeps the old
counters mapped.

**PorthNetworkPortal.** `pc` follows `main()` of `examples/network_portal_demo.cpp`
into the portal: the seven setup steps with their failures, the flag test of the
loop, the four parts of `poll_rx()` (peek, read and print, recycle, release), the four
of the destructor. The kernel takes a frame from `fill`, copies (the frame counts as
torn meanwhile) and publishes a descriptor in `rx`. `Filter` is the kernel program as
a predicate on a packet; `Redirects` says when the attached program hands a packet to
the socket. The portal loads `porth_xdp_prog` but attaches it to nothing
(`load_kernel_program`), so `attached` is chosen initially; otherwise the default
program of socket creation redirects all of queue 0. The rings' library and kernel
code is external.

### Abstractions

* In the composed models the ring is a queue of `CAPACITY` descriptors with atomic
  push and pop and only its length is kept. Theorem `Refinement` justifies it for
  one producer and one consumer. `receive()` makes the host a second consumer, so
  in the passing runs it is called only while the physics thread is held at the
  deadlock gate (`receiveAlone`). A refusal because of a stale index is not
  repeated there: it looks like a call made earlier.
* A register is only stored by `Write`; steps are merged only where one thread
  alone stores the register (`counter`, `status`, `gan_voltage`).
* Addresses are a shuttle plus the classes of bits corruption has flipped, the
  alignment bits 0..5 or the bits above. Two shuttles may differ in one bit.
* Corruption may be switched on at any time, also before the device has latched an
  address, which the "hardening step" of `tests/test_sim_chaos.cpp` takes care to avoid
  and `porth-sim-ctl stress` does not: then a corrupted pointer is itself latched and
  dereferenced (fault `"wild"`; `ProcessDma` in `PorthSimCtl`). Nothing is mapped at an address that is no shuttle's.
* The constructor's test for a null register file (`PorthDriver.hpp`) is left out: every
  device that a driver is given has mapped its registers or has thrown.
* `program` is part of the environment: what a host program calls and in which
  order is free, but it never calls into the driver from two threads.
* The statistics are linked before the first `transmit`; `total_bytes`, drops and the
  displayed temperatures are left out.
* Not state: logging, core pinning, priorities, sleeps (a thread may always be
  delayed), bus-hang delay, TLP log. The protocol delay is a number in `PorthThermal`
  and otherwise one more delay. There every spin ends, a wrapped one after centuries:
  what is said of its length is `DelayBounded`. The physics thread and the owner also
  share the random generator `m_gen` without a lock; its draws are arbitrary values of
  the range in either case.
* `PorthSimCtl`: `status` is zero or not, of `data_ptr` only whether `process_dma` would
  use it; the other registers are left out, no driver is attached, and one process at a
  time is the owner.
* `PorthFullDemo`: driver and device are reduced to the ring's length and the status
  register; their interleavings are the subject of `PorthSystem`.
* A packet is its length, header length and the outcomes of the tests made on its
  bytes; the header length is any of 0..15, as nothing checks it. A packet that does not
  reach the socket changes nothing. Deleting the socket waits for a receive under way.
* A program `porth_xdp_prog` that somebody attached is taken to redirect through the map
  the portal has put its socket into (`Redirects`); loading the object a second time
  would give it a map of its own and nothing would arrive.
* 64-bit counters wrap at `WRAP`, which is `2^64` in the code.

## 3. Runs

| run | module | result | shows |
|---|---|---|---|
| `RingBuffer` | MCRingBuffer | pass | `TypeOK`, `NoDataRace`, `IndInv`, `ImplementsFifo`, `RefusalsJustified`, `AllTransferred` |
| `Thermal` | MCThermal | pass | `ThermalBounds`, `DelayBounded`, `NoRunaway`, `Overheats`, `CoolsDown` |
| `System_safety` | PorthSystem | pass | `TypeOK`, `Conservation`, `WatchdogWithinDriver`, `NoWildAccess`, `AcceptsOnlyLive` |
| `System_fair` | PorthSystem | pass | `WatchdogTrips`, `HostNeverStuck`, `PhysicsUnlessFed`, `Serviced`, `SentinelTrips`, `StopReturns` |
| `FullDemo` | PorthFullDemo | pass | `UmemWithinMemory`, `FreedByItsAllocator`, `CleanExit`, `CountsThisRun`, `ReportSound`, `DemoEnds` |
| `SimCtl` | PorthSimCtl | pass | `TypeOK`, `NameWhileOnline`, `FreshChip`, `OfflineByOthers`, `ToolsEnd` |
| `NetworkPortal` | MCNetworkPortal | pass | `TypeOK`, `FrameOwnership`, `SignalsFaithful`, `FilteredSignals`, `AreaOutlivesKernel`, `SignalDelivered`, `ClosesOnSignal` |
| `System_teardown` | PorthSystem | violated | `HaltsBeforeUnmap`: a physics thread inside `process_dma` pops from the unmapped ring |
| `System_receive` | PorthSystem | violated | `ReceivesProcessed`: `receive()` returns what the device has not processed |
| `System_redrive` | PorthSystem | violated | `Serviced`: a second driver at another address is never served |
| `Safety_trip_ignored` | PorthSystem | violated | `TripShutsDown`: nothing reads `safety_trip` |
| `SimCtl_offline` | PorthSimCtl | violated | `OfflineMeansDown`: a monitor reports an online chip as offline |

Each property has a mutant in `PROJECT.json`: a faulty variant of a modelled
definition, kept beside it in the module, that makes TLC refute the property.

### Bounds

* `RingBuffer`: `SIZE = 4`, two descriptors, `MaxPush = 8`: both indices wrap twice,
  the ring fills and empties, and a load may be stale by a full round. A consumer
  that polls an empty ring for ever keeps the run free of deadlock. The proofs
  remove the bounds on `SIZE` and on the descriptors, and hold for every `MaxPush`.
* `Thermal`: the constants of the code scaled down with the ratio of heating and
  cooling step kept at 5 : 3, which is what decides whether overshooting settles.
  The proofs cover the code's own constants. Three delay configurations in the code's
  proportions: the Newport profile (base 2, jitter 2), whose base covers its jitter; a
  chip launched with too small a delay (0, 2), which wraps; and none at all (0, 0), which
  wraps only when it is read half stored next to one of the others. 861,480 states.
* `System_safety`: two shuttle addresses, capacity 2 and counters modulo 4, so that
  a driver is replaced at the same and at another address, the ring fills and the
  counters wrap; two host programs, one that receives and injects deadlocks and one
  that injects corruption, from the first moment on, and suffers failing thread starts.
  3,672,716 states.
* `System_fair`: one address, capacity 1; four host programs that put each guard next to
  each way of stopping the thermal model: one that writes `control` and injects deadlocks
  while the chaos tool runs, one that powers the chip, transmits and injects deadlocks,
  one that writes `control`, runs the sentinel and injects deadlocks, one that powers the
  chip, runs the sentinel and feeds the ring. 336,984 states.
* `FullDemo`: two runs of the engine, so that the second meets what a killed first one
  left, two telemetry objects, a ring of two descriptors and three rounds, so that the
  loop also ends by a full ring, two polls of the handshake, latencies 1 and 2.
* `SimCtl`, `SimCtl_offline`: one process of each kind, two launches and two objects, so
  that clients of a killed or crashed chip meet its successor, and two rounds of a
  monitor. A third object is never needed: only a launch creates one. 246,815 states.
* `NetworkPortal`: three frames of which two circulate, rings of two entries, five
  packets: every frame is reused at least once, the fill ring runs empty and full and
  the receive ring fills. The packets lie on both sides of each test of the code; one of
  41 bytes claims an IP header of 12. 210,170 states.
* The scaled temperatures (base 10, limit 14, saturation 20) let a powered chip
  cross the limit in a few steps and cool down again.

The composed runs say `CHECK_DEADLOCK FALSE`: a destroyed device, a fault and
`std::terminate` really end the system.

### Fairness

* Threads: weak fairness of the physics, watchdog and guard threads, because the
  operating system schedules runnable threads, and none of them blocks. It does not give
  the thermal model its turn: a ring that is fed for ever keeps the physics thread in its
  pop loop, an injected deadlock keeps it from both. `WatchdogTrips`, `SentinelTrips`,
  `Overheats` and `CoolsDown` except exactly a thread that from some time on publishes no
  temperature (updates no temperature), and `PhysicsUnlessFed` says when that happens.
* Host: weak fairness of the steps inside a constructor, destructor, `transmit` or
  `stop` only. Whether a program calls anything again is its own business.
* Demo: weak fairness of the engine's thread; hardware need not answer, and nothing has
  to be killed, restarted or displayed.
* Tools: weak fairness of both threads of every process; nobody has to start or kill one.
* Network portal: weak fairness of the process and of a copy the kernel has begun;
  no packet need arrive and no interrupt need come.
* Ring: weak fairness of a producer and a consumer that retry, as the tasks of
  `tests/fuzz_ring_buffer.cpp` do, and strong fairness of reading the newest store
  of an index, because hardware makes stores visible in finite time.

## 4. Proofs

`PorthRingBufferProofs` proves for every `SIZE`, every set of
descriptors and every bound on pushes:

* `Invariance`: `Spec => []IndInv`. `NoDataRace` alone is not inductive: that a slot
  is free follows from how far each thread has *seen* the other's index, not from
  the index itself. `IndInv` therefore says that the k-th store of an index holds
  `k % SIZE` and releases exactly `k` accesses (`IndexHistory`), that the views are
  what has been seen (`Views`), that the consumer stays behind the heads it has
  seen and the producer does not lap the tails it has seen (`Occupancy`), what the
  locals of a call in progress are (`Locals`), and that every unread slot still
  holds the descriptor pushed into it (`Contents`).
* `TypeCorrect`, `RaceFree`: `TypeOK` and `NoDataRace` follow from it.
* `Refusals`: the action property `RefusalsJustified`.
* `Refinement`: `Spec => ImplementsFifo`: `PushStoreHead` is a `Send`,
  `PopStoreTail` a `Receive`, every other step a stutter.

The arithmetic the proofs rest on is that two numbers less than `SIZE` apart with the
same remainder are equal. They assume only `SIZE \in Nat \ {0}`, `MaxPush \in Nat`
and `Junk \notin Desc`; that the mask of the code is the modulo is where the power of
two is needed, and `MCRingBuffer` checks it.

`PorthThermalProofs` proves `Bounded` (`Spec => []ThermalBounds`, inductive as it
stands) and `Settling` (`Spec => NoRunaway`) for every choice of the physical
constants with positive steps and divisors and a cooling step not above the base
temperature. With the code's constants the rail stays below 804,000 and the
temperature between 24,986 and 89,024, far inside `uint32_t`.

It also proves `DelaysBounded` (`Spec => []DelayBounded`) for every set of
configurations, of which it assumes no more than that they are numbers. An access of the
host lies in the window of the configuration in force, from full negative jitter to full
positive jitter, the hottest chip and an FEC retry; a delay of the physics thread lies in
the window of a base delay and a jitter that were given, not necessarily together, with
twice the jitter above, because a distribution read half stored may be as wide as two of
them; or else the delay has wrapped, and then the window itself reaches below zero or
past `WORD`. So the one thing that makes the sum wrap at zero is a jitter above base delay
plus FEC penalty, which `set_config` does not refuse and `porth-sim-ctl launch` reaches.
The proof rests on `ThermalBounds`, on the jitter being monotone in the
temperature (`JitterMonotone`), on the draw in progress being bounded by jitters that were
given (`DrawKnown`) and on only one of host access and `set_config` being under way
(`OneThread`).

`PorthSystemProofs` proves, for every set of host programs, every set of shuttle
addresses, every ring capacity, every counter range `WRAP` and every choice of the
physical constants:

* `SystemTypes` (`TypeOK`), inductive together with the lower bound of the
  temperature, which is what keeps the unsigned subtraction from wrapping.
* `NoWild` (`NoWildAccess`): a device that has latched the address of a shuttle
  dereferences no address that is none's. Needs `Latched`: the pop loop runs only on the
  latched address, which never changes once it is set. It does not say that a shuttle is
  still mapped there, which is `System_teardown`, nor anything of a device that latched
  what corruption made of zero, which does dereference it.
* `WatchdogContained` (`WatchdogWithinDriver`), inductive as it stands given the types.
* `DrainsLive` (`AcceptsOnlyLive`, an action property). Needs `PointerLive`: without
  corruption and failing constructors `data_ptr` is null or the live shuttle's address,
  and it is null again before the shuttle is unmapped.
* `Conserved` (`Conservation`). The counters wrap, so the invariant is a congruence:
  what was sent and what was found, received, discarded or is still in the ring are
  equal modulo `WRAP`, with the descriptor that `transmit()` has pushed but not counted
  and the one the device has popped but not counted added on their sides. It needs
  `Lifetime` (the shuttle is mapped exactly while a driver exists) and `Unborn`.

`PorthSimCtlProofs` proves `ToolTypes` (`TypeOK`), `NameKept` (`NameWhileOnline`),
`FreshRegisters` (`FreshChip`) and `ZeroedByAnother` (`OfflineByOthers`) for any number
of clients, launches and objects. The invariant says at which steps a process
has an object open or mapped (`Handles`), which steps belong to which kind of process
(`Roles`), that from the `shm_unlink` of its constructor on the name leads to what the
owner has open or mapped (`NameOwned`), and that a zero a monitor wrote itself has been
overwritten when it comes to poll (`Overwritten`); a process that crashes on a corrupted
`data_ptr` leaves all of this as one that is killed does. The name alone says nothing about who has mapped what,
which is why `NameWhileOnline` is not inductive.

`PorthFullDemoProofs` proves `UmemContained` (`UmemWithinMemory`), `NeverMisfreed`
(`FreedByItsAllocator`), `LeavesClean` (`CleanExit`) and `CountsOwn` (`CountsThisRun`)
for any number of runs, objects, rounds and any ring. The invariant ties the stack of
constructed objects to the place in `main()` (`Stacked`, `Height`) and the resources to
the stack (`Paged`, `Registered`, `Acquired`, `Attached`), so that unwinding from any
height releases what was acquired. `CleanExit` has no exemption for runs that threw: it
says which constructor may leave what, and that a name still linked is the hub's own or the
one that the run `found` when it started (`NameFound`). `Sampled` needs `ITERATIONS <= MetricCapacity`, as in
`PorthMetric metric(iterations)`.

`PorthMetricProofs` proves `PercentileSound`, for every sequence of samples and every
percentile: of the samples at most the asked share is below what `get_percentile_ns()`
returns, and more than that share, or all, is not above it. It needs the sorted order to
exist, which looks like an induction over the samples. It is not: give each index the
number of indices that come before it (smaller sample, or equal sample and smaller
index), and this is a bijection onto `1..n` because the relation is a total order on a
finite set (`Sortable`). `ReportsPercentiles` then proves `ReportSound` of the demo.

`PorthNetworkPortalProofs` proves `PortalTypes` (`TypeOK`), `FramesOwned`
(`FrameOwnership`), `PrintsWhatArrived` (`SignalsFaithful`), `FilterSuffices`
(`FilteredSignals`) and `AreaKept` (`AreaOutlivesKernel`) for any number and size of
frames, any ring sizes that hold the frames lent, any packets and any number of them.
`poll_rx()` hands a frame back before it releases the descriptor, so the receive ring
may name a frame that is already in the fill ring or in the kernel's hands. The
invariant therefore speaks of the descriptors from `Recycled + 1` on: their frames are
pairwise different and in no other place (`Owned`), and hold the packets that follow the
`Gone` ones (`Contents`). What is printed is then the set of IPv4 packets among the
`Gone + Seen` oldest (`Printed`). `Rings` counts the frames, `Holds` says what is
acquired at each step, `Filtered` that every accepted packet passed the filter. The
filter believes the header length the packet claims, so `FilterSuffices` gives at least 34
bytes for every packet and the 42 that `poll_rx()` subtracts only for one that claims 20
bytes or more of IP header. That
different frames have different addresses (`AddressesDiffer`) needs only
`FRAME_SIZE > 0`.

### The safety halves of the liveness properties

Liveness itself is out of the prover's reach, but most of what it rests on is not: a
measure that every step of the party waited for lowers and that no other step raises.
These are proved, each with the invariant that says that the party exists and is in a
place from which it moves on:

| Theorem | Liveness | What is proved |
|---|---|---|
| `WaitsEnd` | `HostNeverStuck`, `StopReturns` | whom the host waits for was started and has been told to stop; watchdog, guard and physics thread then end within 3, 2 and 8 of their steps |
| `DrivenToTarget` | `Overheats`, `CoolsDown` | each update moves the rail to its end, and from there the temperature towards its target |
| `ClosesWithin` | `ClosesOnSignal` | after the signal at most twelve steps of the program are left; each of them lowers the bound, neither the kernel nor a packet raises it or takes the signal back, and it is 0 only at the end |
| `RunsOut` | `DemoEnds` | the steps left of a run, counted from the calls, polls, rounds and destructors left, fall with each step of its thread, and nothing but the next start raises them |
| `ClientsRunOut` | `ToolsEnd` | so do a client's; what its destructor joins ends in four steps |

In `WaitsEnd` the physics thread is the interesting one. It pops for as long as it finds
descriptors, so its end is near only because a host in the device's destructor has no
driver any more: the ring is unmapped (`Lifetime`), and the next pop faults rather than
finds one. Outside the destructor no such bound exists, which is why `PhysicsUnlessFed`
has its exception.

What is missing to the liveness property is that some step is enabled until the end, and
that fairness takes it; both stay with TLC.

The assumptions are the named `ASSUME`s of the models; TLC evaluates each of them in a
run.

Every invariant and every action property of the passing runs is stated by a theorem.
Only model-checked: the liveness properties (`AllTransferred`, `Overheats`, `CoolsDown`,
`WatchdogTrips`, `HostNeverStuck`, `PhysicsUnlessFed`, `Serviced`, `SentinelTrips`,
`StopReturns`, `SignalDelivered`, `ClosesOnSignal`, `DemoEnds`, `ToolsEnd`), because
liveness under fairness and `ENABLED` are out of the prover's reach; and the violations
of section 5, which are counterexamples and need no proof.

## 5. What the checks found

1. `~Driver()` clears `data_ptr` and unmaps without waiting for the device, which
   may be inside `process_dma` (run `System_teardown`).
2. `m_last_valid_shuttle` is never reset, so only drivers whose shuttle lands on
   the first address are served (run `System_redrive`).
3. `receive()` takes from the ring `transmit()` fills (run `System_receive`).
4. `safety_trip` is written and never read (run `Safety_trip_ignored`).
5. A client that attaches writes 0 to the status of the live chip, and a monitor polling
   at that moment prints "Chip Offline" and returns (run `SimCtl_offline`). A corruption
   injected by a stress client does the same.

Four more faults are reachable in the models of the passing runs, whose properties say
exactly when they happen; TLC refutes each property without its exception:

* A jitter above base delay plus FEC penalty makes the unsigned delay wrap, and the access
  spins for centuries; `set_config` accepts it, and `porth-sim-ctl launch` sets it for every
  delay below 20 ns (`DelayBounded`, a wrap four steps from the start).
* The guard of `process_dma` takes the first aligned address for the valid one, also when
  corruption made it out of zero before any driver came (`NoWildAccess` speaks of a
  latched shuttle). Under `porth-sim-ctl stress` this crashes the stress process or the
  chip itself (`"sigsegv"`).
* The filter does not check `ihl >= 5`, so a packet of 34 to 41 bytes can reach the
  portal's `desc->len - 42` and end its loop with an exception (`FilteredSignals`,
  `SignalDelivered`).
* Three constructors of the demo throw past what they hold: the huge page's past the buffer
  whose `mlock` failed, the VFIO device's past its descriptors, the hub's past its name
  (`CleanExit`).

Known limits that the passing properties delimit: the pop loop starves the thermal
model for as long as the host feeds it (`PhysicsUnlessFed`), and an injected deadlock
stops it, and then no guard trips (`WatchdogTrips`, `SentinelTrips`); the watchdog is
one-shot, so `WatchdogTrips` speaks only of an armed one; a spike written to
`laser_temp` may be overwritten before a guard samples it. The portal ignores a BPF
object that does not load (`bound` stays `FALSE` and it receives nothing), and a packet
behind a malformed one may never be printed (`SignalDelivered`).

Seen while modelling, without a run of their own:

* `PorthXDPPortal` never primes its fill ring, so the kernel has no frame to receive
  into and `bridge_to_shuttle()` always returns at its first test. Behind it,
  `is_addr_valid` compares an offset into the memory with absolute addresses, and a full
  shuttle would lose the peeked frame.
* A client's attachment also resets `control`, which powers the chip off, and
  `laser_temp`; the scenario of a `stress` process configures the PHY of that process
  only and ends with it.
* A client that opens the name between the owner's `shm_open` and `ftruncate` gets
  SIGBUS, modelled as the end `"sigbus"`; a second owner would unlink the first one's
  name.
* The hub does not check `mmap`; the demo then crashes (`"crashed"`). What the
  three constructors keep when they throw half way is descriptors but never a mapped BAR, a
  buffer but never a huge page, and the name of the counters (a failing `ftruncate` or
  `fchmod`).
* `update_thermal_model` writes the SNR to its register but does not feed it back to the
  PHY as its comment says; the demo's parking runs ten times as long as it announces.

## 6. Not modelled, and the plan

Modelled so far: ring, thermal and delay model, driver, twin, both guards, network
portal, shared memory and the control tool, memory fallback, VFIO, telemetry,
percentiles and the demo that composes them. Next would be the ring with two consumers,
as `receive()` uses it next to a device that drains the same ring, and the measures behind
`AllTransferred`, where a stale load lets a call fail without bringing anything nearer.

Not modelled: `map_dma` and `set_device_iova` (called by nobody before the address is
read), the unreachable part of `bridge_to_shuttle`, mean, deviation and files of
`PorthMetric` (floating point and I/O), `PorthClock`, `PorthUtil` (inline assembly and
system calls without protocol state), `PorthPDK` (reads a file), the other examples and
the benchmarks, which call the modelled operations in sequences that `PorthSystem`'s
programs include.
