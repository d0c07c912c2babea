# A verification of the Intel CE PWM driver

TLA+ models of the PWM kernel module in `src/driver`, their TLC configurations,
and TLAPS proofs. The driver controls the PWM controller of the CE5300 and
CE2600 SoCs: up to four channels, each with a period, a duty and a polarity,
opened by user processes through a character device, by kernel modules through
`pwm_open()`, and by anybody with access to sysfs.

## The system

| part | state | operations | interacts with |
|---|---|---|---|
| tick arithmetic (`pwm_core.c:217-276`, `_pwm.c:130,154-158,172`) | none | ns/ticks/percent conversions, prescale, period and duty fields | used by configuration |
| channel configuration (`pwm_core.c:244-331`, `_pwm.c:76-253`) | `tick_hz`, `period_ticks`, `duty_ticks`, `active_high` of a channel; its registers `pwm_ctrl`, `pwm_duty`, `pwm_perval`; its spinlock `p->lock` | `pwm_config` and its wrappers (`pwm_set_*`, `pwm_start`, `pwm_stop`) | called by ioctl, kernel API, sysfs, handler work, release |
| channel ownership (`pwm_core.c:138-215`) | `FLAG_REQUESTED`, `requester`, the module's reference count, `device_list_mutex` | `pwm_request`, `pwm_release` | called by every client; a release stops the channel and removes its handler |
| sysfs attributes (`pwm_core.c:480-594`) | none of their own | `run`, `duty_ns`, `period_ns`, `polarity` configure; `request` takes a channel when read and releases it when written | bypass ownership |
| character device (`pwm_drv.c`) | `chrdev_list` under `host_list_lock`, one entry per open file | open, close, ioctls SET_CONF, GET_CONF, ENABLE, DISABLE, SYNC, UNSYNC | ownership, configuration |
| kernel API (`pwm_wrapper.c`) | handles: memory with a magic number and the channel | `pwm_open`, `pwm_close`, `pwm_set_config`, `pwm_get_config`, `pwm_enable`, `pwm_disable`, `pwm_sync`, `pwm_unsync` | ownership, configuration |
| readers (`pwm_core.c:345-385`) | none | `pwm_get_period_ns`, `pwm_get_duty_ns`, `pwm_get_duty_percent` | read the channel without a lock |
| handlers and the interrupt (`pwm_core.c:453-478`, `_pwm.c:261-308`) | `handler`, `handler_data`, the work item, `callback`; `pwm->lock` | `pwm_set_handler`, `pwm_handler`, `pwm_irq` | the work stops the channel |
| suspend and resume (`_pwm.c:311-375`) | one global copy of the registers | save, restore | the registers, behind every lock |
| probe, remove, registration (`_pwm.c:378-513`, `pwm_core.c:43-124,600-662`) | `pwm_device_list`, the channels' memory, sysfs directories, interrupt | `pwm_probe`, `pwm_remove`, `pwm_register`, `pwm_unregister` | everything |

What is hard in it:

* the configuration is validated before the lock that protects it is taken;
* one attribute spreads over two registers and two functions that must agree,
  and errors in the locked half are ignored;
* the list of open files is searched without its lock;
* sysfs can take and release channels behind the back of their users;
* a removal waits for the readers of sysfs with the mutex they may be waiting for;
* opens fail half way and must give back what they took;
* integers wrap: a period of zero ticks, a duty less than one prescale step.

`PROJECT.json` lists every such place under "hazards", with the properties
that watch it, and how far, or why none does.

What makes each part correct: the arithmetic must fit the fields it is written
to. The configuration must keep the duty within the period, the registers in
agreement with the channel structure, calls atomic to each other, and return.
A reader must not divide by zero, and must get a pair that was configured when
nobody disturbs it. Suspend must save one consistent set of registers, and resume
must bring it back before it enables the output. Ownership must be a lock: one
holder, and nothing left running or hooked up when it is given back. A handler must
be called for every interrupt, with its own data, and not for the next owner.
The character device must keep exactly one list entry for each open file, free
each once, and compare SYNC's partner with the file's own entry. The module must
not stay pinned by a channel that nobody has. A probe that fails, and an unload,
must give back what was acquired, and no channel may disappear under a user.

## The modules

| module | what it is |
|---|---|
| `PwmTicks` | the arithmetic, with symbolic widths |
| `PwmConfig` | `pwm_config()` on one channel by concurrent threads |
| `ChannelSettings` | the abstract specification: a channel whose period, duty, polarity and output a call changes at once |
| `PwmReader` | reading the configuration back, beside `PwmConfig` |
| `PwmPower` | suspend and resume, beside `PwmConfig` |
| `PwmChannel` | `PwmConfig`, `PwmReader` and `PwmPower` together |
| `PwmCore` | request, release, start/stop, set_handler and the sysfs attributes `request` and `run`, on all channels of the device |
| `PwmDrv` | the character device on top of `PwmCore` |
| `PwmWrapper` | the kernel API on top of `PwmCore` |
| `PwmClients` | `PwmCore`, `PwmDrv`, `PwmWrapper` and sysfs together |
| `ChannelLock` | the abstract specification: a lock per channel |
| `PwmHandler` | the handler of one channel word by word, the interrupt, the work queue, the release |
| `PwmProbe` | module init and exit, probe, registration, remove |
| `PwmDevice` | `PwmHandler` and `PwmProbe` together: users, interrupt and work beside loading, binding and their failures |
| `PwmTicksProofs`, `PwmConfigProofs`, `PwmChannelProofs` | the proofs about the arithmetic and one channel's configuration |
| `PwmSettingsProofs` | the proof that `PwmConfig` implements `ChannelSettings` |
| `PwmClientsProofs`, `PwmDrvProofs` | the proofs about who has a channel, and about the list of open files |
| `PwmDeviceProofs`, `PwmHandlerProofs` | the proofs about the life of the device, and about handlers |
| `MCPwmConfig`, `MCPwmChannel`, `MCPwmClients` | instances for TLC (`PwmDevice` needs none) |

Definitions named "variant for the checks" are deliberately wrong versions of the
definition that follows them. They are used to confirm that each property can
fail, and appear nowhere in the specifications.

### PwmConfig and the code

The variables are the fields of `struct pwm_channel` and the channel's three
registers (`pwm_ctrl` as the fields the driver writes), the spinlock, and for
each thread its stage in `pwm_config()` and its `struct pwm_channel_config`.
One action is one access to state that others can change:

| action | code |
|---|---|
| `ChannelRequested` | `__pwm_request` sets `tick_hz`; before that only sysfs reaches the channel and every time is zero ticks |
| `Call` | building the command and `pwm_config_ns_to_ticks`, which reads `tick_hz`; `MaskOf` builds the mask from the flags: SET_CONF adds them up, `pwm_set_config` of the kernel API lets the polarity replace the others (`ApiMask`, `pwm_wrapper.c:167`) |
| `ResolvePercent` | `pwm_config_percent_to_ticks`, which reads the period |
| `CheckRejects`, `CheckPasses` | the switch at `pwm_core.c:302`, which reads period or duty, and the test for an empty mask in `__pwm_config_nosleep` |
| `EnterAndRun` | `spin_lock_irqsave`, `__pwm_start`, `__pwm_stop` |
| `PeriodApplied`, `PeriodRefused` | `__config_period_ticks`, or its absence or `-EINVAL`, which is ignored |
| `ConfigDuty` | `__config_duty_ticks` |
| `PolarityAndLeave` | `__config_polarity`, `spin_unlock_irqrestore`, return 0 |

The attributes written under the lock are separate actions, so that readers and
the validation of other calls see the channel half configured. Two register
writes of one function are one action: nobody reads `pwm_duty` and `pwm_perval`
outside the lock except suspend, and with both in one action suspend still comes
before or after each function, and between two functions of one call.
`config->duty_percent` is a natural number (the documentation limits it to 100).

`ApiCallers` are the configurers that come by the kernel API; the others come by the
ioctl, where one call may set period, duty or percentage, and polarity together, as
the example at `summary.h:268` does.

For its callers all this amounts to `ChannelSettings`: `Begin`, then `Apply` or
`Refuse`, then `Return`. The refinement mapping, `Setting`, lets a call take effect
when it takes the lock: what the holder still has to write counts as written.

### PwmReader, PwmPower, PwmChannel and the code

| action | code |
|---|---|
| `ReadDuty`, `ReadPeriod` | `pwm_get_duty_ns` and `pwm_get_period_ns` in `PWM_IOC_GET_CONF` and `pwm_get_config` |
| `TestFails`, `TestPasses`, `ReadNumerator`, `Divide` | the reads of `pwm_get_duty_percent`: the tested period, the duty, the period it divides by |
| `ReadPolarity` | `pwm_get_polarity`, and the return |
| `Freeze`, `Thaw` | the kernel stops processes before it suspends devices, and lets them go after the resume |
| `SaveCtrl`, `SaveDuty`, `SavePerval` | `pwm_save_state`, one register each |
| `Sleep`, `SleepAborted` | the registers are lost, or another device refuses to sleep |
| `RestoreDuty`, `RestorePerval`, `RestoreCtrl` | `pwm_restore_state`, in the order of the code: the control register last |

Each read is an action because nothing locks the channel against the calls of
`PwmConfig`. `PercentOf` is the unsigned product that wraps. `quiet` is a history
variable: true while no call was in its locked half when the read began and none
has changed duty or period since.

`Freezable` are the threads that are user processes: they are frozen outside the
driver. The work queue of the driver and other kernel threads are not, and take
steps between any two of suspend's. `pwm_config` reads the control register and
writes it back; `PwmConfig` needs no action between the two because the lock is
held, but resume does not take the lock. `RestoreCtrl` therefore has the outcome
that a call in its locked half overwrites what was restored, and remembers it in
`clobbered`. `undisturbed` remembers that no call has been in its locked half
since the processes were frozen.

The reader of `PwmChannel` is a frozen process as well. Five more registers are
saved and restored and left out here: `cntr_hold`, `pnum_cntr` and `dds_rate`,
which nothing else writes, `clk_src`, which only probe writes, and `int_trg_reg`,
whose status bits `pwm_irq` acknowledges and which no configuration touches (the
resume writes it back under a mask, `_pwm.c:349`).

### PwmCore, PwmDrv, PwmWrapper and the code

`pwm_request` and `pwm_release` hold `device_list_mutex` from end to end and are
one step each. `requested` is the set of channels with `FLAG_REQUESTED`,
`running` those whose counter is enabled, `handled` those with a handler.
`modref` counts `try_module_get` less `module_put`; reading `request` in sysfs
takes a channel without the former. A request that fails leaves everything as it
was and is therefore not a step.

In `PwmDrv` open is `OpenRequest`, `OpenAlloc` or `OpenNoMemory`, `OpenAdd`;
close is `CloseUnlink`, `CloseRelease`, `CloseFree`, the three calls of
`pwm_drv_close`. SYNC and UNSYNC are the same code: `SyncStart`, then one
`ScanNext` for each step along the list, `ScanFound`, or `ScanBug` for
`BUG_ON(!found)`; then the locked half, `SyncReturn`. `entry` keeps the contents
of freed memory, and `allocated` says what is handed out, so a search can stand
on an entry that was unlinked, freed and reused. If that entry is not on the
list, its next pointer leads nowhere the code knows of (`ScanOops`). Each file
has one caller at a time.

In `PwmWrapper` a caller has at most one handle and does not use it after closing
it, as `summary.h:242` asks. `pwm_sync` and `pwm_unsync` change nothing (the
device has no `synchronize` hook and the calls return -EINVAL).

### PwmHandler, PwmProbe, PwmDevice and the code

`PwmHandler` is one channel. `SetHandler` to `SetCallback` are the four writes
of `pwm_set_handler`: data, handler, `INIT_WORK`, and the callback under `pwm->lock`.
`Release`, `ReleaseStop` and the same four writes with no handler are
`pwm_release`; a release does not wait for the work. `CounterEnds` is the
hardware, `Interrupt` is `pwm_irq` for this channel with the callback it may
call, all of it under `pwm->lock`. `WorkTake`, `WorkTest`, `WorkLoad`,
`HandlerReturns`, `WorkStop` are `pwm_handler`. After its test it loads the handler,
once more or not as the compiler likes, and the data (`LoadHandler`, `LoadData`): two
steps in either order, so that it may call a new handler with old data or the
reverse. The work queue forgets that the item is queued
before it runs it, so an interrupt during the handler queues it again; with
more than one worker it may run twice at once. `INIT_WORK` on a queued item
corrupts the queue's list (`handler_work = "corrupt"`).

`own` is a history variable: what the owner of the channel has set, `Mixed`
once it sets a second handler or if it took the channel while work for the
last owner was left over.

`PwmProbe` has a place for each acquisition of `pwm_probe`, in `dev`, and what is
held, in `res`. A failed acquisition goes to the label the code jumps to, and the
labels fall through. `Register`, `RegisterFails` and `RegisterCrashes` are
the outcomes of `pwm_register`'s locked half; `half_listed` remembers the second,
which frees the channels but leaves the list entry. `Unregister` is the first
half of `pwm_unregister`, whose -EBUSY `pwm_remove` ignores (`busy_ignored`), and
`Drained` the second: between them, at `dev = "drain"`, `device_unregister` waits for
whoever is in an attribute of sysfs. `module` is the place in `pwm_init` and
`pwm_exit`, `globals` what they registered: `pwm_init` goes on without the class, the
work queue or the device number it could not get.

`PwmDevice` puts them together. The flag of a requested channel, the references
to the module and `device_list_mutex` are all that stands between a user and
the removal of the channel. `modref` counts the references as `PwmCore` does: one for
a client, none for a channel that sysfs took by reading `request`, and every release
puts one; so the count may be too low, and the module be unloaded under a client
(`Exit`). `MutexFree` is the mutex: a release has it to its end, `pwm_unregister`
while it drains. `RunStore` and `AttributeRequest` are the attributes `run` and
`request`, whose writer starts, stops and releases whoever's channel it is.
`AttributeWaits` is somebody in `request` who waits for the mutex while the
attributes are drained: then neither goes on (`waiting`).

Each actor has a step that works and a step that finds its memory gone
or a pointer that is none (`UserCrashes`, `InterruptCrashes`, `WorkCrashes`,
`DeviceCrashes`); the latter sets `crashed` and is the last step. The device model
reaches all four: users only after an ignored -EBUSY or a half-made
registration, which is what `UsersFindLiveChannels` says; the shared interrupt
before the channels exist or after they are freed (`InterruptFindsChannels`); the worker with work a
release did not wait for; the device with an error pointer of `device_create`
or without the class or the work queue that `pwm_core_init` failed to make. The last
is why `ExitReturnsEverything` speaks of few errors: a module without class or work
queue does not come to the end of its exit; one without a device number does.

## The runs

| run | what it asks | bounds |
|---|---|---|
| `config_two` | two configurers, one by the ioctl and one by the kernel API: types, agreement of registers and channel, atomic calls and the refinement of `ChannelSettings`, period never reset, and does every call return? | 3 periods, of no tick, 4 and 11 ticks; a duty of 3 ticks or a percentage of 100; calls with the period alone, the percentage alone, and period, duty and polarity together; 198,332 states |
| `channel` | one configurer that freezes, a thread that starts and stops and does not, a reader, any number of suspends: does the duty stay within the period, are reads safe and consistent, is the copy a snapshot, and do the registers come back complete and in order? | 3 periods, one of zero ticks; a duty and a percentage of 150; calls with the period alone, with duty and polarity, and with all four flags; 4,053,344 states |
| `clients` | three files, one handle, sysfs readers, two channels: ownership, and the refinement of `ChannelLock` | sysfs may take both channels; requests for a channel that does not exist |
| `clients_revoked` | three files on one channel that sysfs keeps releasing: the list and its memory, nothing freed twice or leaked, the module's references | at most one reference lost to sysfs (`MaxDrift`) |
| `device` | one channel with owners, handlers, interrupts and work while the module is loaded and unloaded and the device bound and unbound, any acquisition failing: who touches what is gone and when, what is left behind, whose handler is called with what, is it called for every interrupt, and does a removal end? | one setting, one worker, the count of references down to -1 (`MaxDrift`); 778,880 states |
| `race_duty` | two configurers break `DutyWithinPeriod` | violation |
| `period_dropped` | a period out of range is dropped with success | violation |
| `duty_off_by_one` | the duty register after a change of prescale | violation |
| `stale_period` | the period register after a full duty cycle | violation |
| `sync_bug` | `BUG_ON(!found)` is reachable | violation |
| `two_openers` | a channel is opened twice after a write to sysfs | violation |
| `leaked_channel` | a channel stays busy after `PWM_NO_MEM` | violation |

Why these bounds. The widths are scaled: 4 ticks instead of 2^17 for each
prescale step, 3 prescales instead of 128, words of 1024; the proofs cover the
real ones. In `config_two` the periods of 4 and 11 ticks have different prescales and
round differently, and a period of 1 ns is none at all; the duty of 3 ticks is less than
both, and a percentage of 100 follows whatever the period is. The call with the three
flags is all three by the ioctl and the polarity alone by the kernel API. Periods
beyond the prescaler are in `period_dropped`, duties of less than a step in
`duty_off_by_one`. Two threads suffice for the configuration:
the lock lets one in, and a call is disturbed through the channel's two numbers,
which one other thread can set to anything. Three files on a list let an entry
leave from before, under and behind a search, and three entries of memory let
freed ones be reused. `config_two` and `clients` are otherwise unbounded; only
`MaxDrift` stops a counter.

In `channel` words of 1024 are small enough for a hundred times a duty to
wrap, as it does in the code from 42.9 ms on, and the percentage of 150 asks for
duties beyond the period, which are refused, or with a longer period accepted and
met again by a shorter one. In `device` there is one setting, s1, beside none: a
handler that is not the owner's is then the one a previous owner left or none at all.
The safety properties have been checked with two settings as well (2,613,908 states,
too many for the two of liveness), and are proved for any number of settings and
workers. Of `MaxDrift` one step is enough for a count of zero with a client present. Three
bounds are guards of the model: a module that left something behind is not loaded again
(`Load`), a driver that was unbound in spite of -EBUSY, or whose registration failed
half way, is not bound again (`Bind`); both are after the damage is done. New channels
are allocated only when left-over work has run (`ChannelsAllocated`). `device` does not
check deadlock, since a crash is the last step.

`clients` has no writer of `request` or `run` in sysfs. With them `OneHolder` and
`OnlyHeldChannelsRun` fail, because that is what writing the attributes does.
`clients_revoked` is the same system with them, checked for what must hold
even then. The `clients` runs do not check deadlock: when every channel is held
by sysfs or leaked, and every client is closed, no request can succeed and
the system really is at rest.

### Fairness

`CallsReturn` needs it (`FairSpec`, which `config_two` runs). A thread inside the driver goes on
running (weak fairness on each step): nothing in `pwm_config` sleeps, and the
locked half runs with interrupts off. A thread waiting for the spinlock is
eventually served although the lock is taken and released meanwhile (strong
fairness on `EnterAndRun`): spinlocks of the kernels concerned are ticket locks,
served in order. Nobody is obliged to call.

`InterruptReachesHandler` and `RemovalReturns` need it (`DeviceSpec`): the interrupt
controller delivers a pending interrupt, the work queue runs what is queued, and a worker
goes on, which includes that handlers return. Who is setting a handler or releasing a
channel goes on. `pwm_remove` goes on as well, and gets `device_list_mutex` in its turn
although it is taken and released meanwhile (strong fairness on `Removes`): a mutex of
the kernel serves its waiters in order. Users, the counter, and loading and
binding are under no obligation.

`InterruptReachesHandler` asks for a call that has not begun when the interrupt
comes: a worker that has still to test or load the handler, or does it again. A handler
that is running already does not count.

### What the violations show

1. `race_duty`: two callers, a period shortened after another call validated its
   duty against it. `pwm.h:98` promises `duty_ns <= period_ns`.
2. `period_dropped`: `_pwm.c:243` ignores the `-EINVAL` of `_pwm.c:155`.
3. `duty_off_by_one`: `_pwm.c:172` deducts one tick from the duty register, which
   the comment at `_pwm.c:130` says must not be; zero wraps to all ones.
4. `stale_period`: `_pwm.c:176-179` writes the period register only when the new
   period differs from the duty the channel has. A call that sets both, with the old
   duty for its new period, leaves the period register of an earlier call behind,
   and returns 0. One caller suffices.
5. `sync_bug`: `pwm_drv.c:281` walks the list without the lock.
6. `two_openers`: `pwm_core.c:581` releases the channel of whoever holds it.
7. `leaked_channel`: `pwm_wrapper.c:100` forgets to release.

The same lines leave the full-cycle bit of the duty register set when a longer
period of the same prescale ends a full cycle. `DutyRegisterFollows` and
`OneRegisterStale` say how far this goes: the duty register is never that of
another duty, and duty and period registers are not stale together.

Also met while reading. `pwm_wrapper.c:167` assigns the mask for the polarity
and so drops the other flags of a call by the kernel API, although the example at
`summary.h:268` sets all four; the ioctl adds the flag (`pwm_drv.c:253`). The model
has both, and no property: only the caller knows what it gave.
`pwm_unregister` waits for the readers of sysfs with `device_list_mutex`
(`pwm_core.c:98-115`), and reading `request` waits for that mutex (`pwm_core.c:565`): the
removal hangs. No statement of the repository is contradicted, so there is no run
that fails on it; `RemovalReturns` says that it is the only way to hang, and names it.
Not modelled: the documented upper bound of the period is not enforced; UNSYNC calls
`pwm_synchronize` (`pwm_drv.c:343`); `PWM_MAGIC` uses `||` and is 1
(`pwm_abi.h:56`); `FLAG_STOP` is never set, so the branch of `pwm_irq` that stops a
channel is dead. The crashes of `PwmDevice` other than the users' contradict no
statement of the repository; it has no run that fails on them, and "hazards" in
`PROJECT.json` lists them.

## The proofs

For every number of threads, clock, width of words and fields and set of
requested values, from `NumbersAssumption` (the fields fit in a word) and
`ConfigAssumption` (the clock is at most a tick a nanosecond, the longest
programmable period in nanoseconds fits a word, and requests are natural
numbers). The real constants, 2^32, 10^9, 2^17, 127 and 27 MHz, satisfy them:
2^17 * 128 * 10^9 < 2^32 * 27000000, by a factor of nearly seven.

* `TypeCorrect`. The type invariant is inductive alone. It needs the masks for
  the duty and the bound of the period counter.
* `RegistersCorrect`, `PrescaleFollowsPeriod`, `PeriodNeverSpills`.
  `RegistersAgree` (prescale, period field and full cycle)
  is inductive with the types: each place that writes a period or a duty
  writes the register bit it determines. `PervalBound` is the arithmetic:
  if q is the prescale of p then 2^17 q < p <= 2^17 (q + 1), so p / (q + 1) is
  between 1 and 2^17. `ZeroNotProgrammable` shows that the wrapped
  period of zero ticks is refused.
* `DutyRegisterIsCurrent`, `NeverBothStale`. `DutyAndPeriodFollow` is their
  conjunction, inductive with `RegistersAgree` and the types. A full cycle
  is the only way to a stale register, and each way out of it writes one of the two.
* `PeriodStays`. A period once programmed is at least one tick, and at no more
  than a tick a nanosecond that is at least one nanosecond, which does not wrap.
* `CallsAreAtomic`. The lock excludes (`MutualExclusion`: the thread in the
  locked half holds the lock), and so what the thread has applied of its call
  stays applied until it leaves (`Applied`).
* `SoleConfigurerKeepsDuty`. Under the assumption `SoleConfigurer`: one configuring thread,
  and no period too long for the prescaler. The invariant
  `SoleInv` says that the command of the configurer, once validated, is
  still valid when it is applied: nobody else changes what it was validated
  against, and the other threads' commands have neither period nor duty. The
  assumption is needed: `race_duty` is the system without it.
* `PairedCallsKeepDuty`. The other way to avoid the race, for any number of configuring
  threads: `PairedCalls`, every call that sets a period or a duty sets both, with the polarity
  or without; it is about the mask that reaches `pwm_config`, by the ioctl or the kernel API. It is then
  validated against itself. `PairInv` says that a validated call carries a duty within its
  own period, and that a duty beyond the period exists only while its
  replacement is about to be written.
* `DocumentedCallsPass`, the four-flag call of `summary.h:268` by the ioctl among them. If
  paired calls also keep to the duties and percentages of
  `pwm.h:98-99` (`DocumentedCalls`), none is refused. The assumption that 100 times the
  longest period is a word holds of the real constants: 100 * 2^17 * 128 < 2^32.

### Calls are indivisible

`CallsAreIndivisible` (in `PwmSettingsProofs`): every behaviour of `PwmConfig` is one
of `ChannelSettings`. `EnterAndRun` is `Apply`: taking the lock changes the abstract
setting as a whole, with period, duty and polarity of one ioctl among them, and the three locked writes are stutters, because what they write
is what `Setting` had promised. The invariant is only the types and
`MutualExclusion`: one thread has writes pending. The proof assumes nothing about the
requests, so also calls that race in `race_duty` take effect at once; what they race
on is the validation before.

### The arithmetic

`PwmTicksProofs` has, for all widths: `ConversionKeepsOrder` (duty within period in
nanoseconds is duty within period in ticks), `ReadBackWithinOneTick` (what is read back
is at most what was set, and less than a tick and a nanosecond short of it),
`PercentWithinPeriod` (a percentage up to 100 is a duty within the period, 100 is the
period), `PeriodAccuracy` (the counter is short of the period by less than one prescaled
step), `DutyFitsPeriod` and `DutyFieldExact` (a duty below its period has no more steps than
the period, and is written without loss and without touching the full-cycle bit).

### One channel, read back, suspended and resumed

* `ReaderNeverTraps`. The division by a second, unlocked read of the period never
  divides by zero. `ReaderInv` adds that a period of any ticks is programmable,
  hence at least a nanosecond, and that a reader past the test has seen one; a
  period never goes back to zero. It holds for any configurers.
* `QuietReadsAgree`. Under `SoleConfigurer`, as the run has it. `SoleInv` is kept
  by suspend and the reader too; `QuietInv` says that what an undisturbed reader has
  read so far is what the channel holds. `PercentIsExact` is the arithmetic: the
  quotient is the one number that `Percentage` chooses.
* `SnapshotIsExact`. `CopyInv`: while no call is in its locked half since the
  freeze, each register already saved equals its copy, each register already
  restored likewise.
* `ResumeRestoresConfiguration`, `ResumeSwitchesOnLast`. Under the assumption that
  all configuring threads freeze. What comes back is the prescale, the period and the
  duty register, as far as a call leaves them in agreement (`DutyRegisterFollows`,
  `OneRegisterStale`). `ResumeInv` says stage by stage which of the
  registers and of the copies agree with what the channel reports, and that the
  threads that do not freeze have only starts and stops to apply. The
  assumption is needed: a kernel thread that configures between two saves leaves a
  mixture.

### Who has a channel

* `ModuleNotPinned`, for every system: a reference of the module belongs to a
  requested channel.
* `HeldByOne`. Assumption: nobody writes the sysfs attribute `request`;
  `two_openers` is the system without it. The
  invariant `Ownership` relates the flag of each channel to the set of its
  holders. Every step is one of five (`OwnerMoves`): nothing of a channel's
  ownership changes, one channel is taken, given back, or switched, or any is switched
  through sysfs.
* `RunsOnlyHeld`, `OpeningIsALock`. Assumption: nobody writes `run`, either. The other four
  are the actions of `ChannelLock` and its stutter: that is the refinement.

### The list of open files

* `EntryForEveryFile`, `EntriesAreOwned`, `NoEntryLeaks`, for every system, revocations included.
  A close removes the first entry of its channel, not its own, so no entry belongs to
  a file; what is invariant is the count. `EntryInv` says that for each channel
  the listed entries are as many as the files that are listed with it, that a new
  entry has its file's channel, and that the entries files are about to add or free
  are different and not listed, and that what is neither listed nor theirs is free.
* `SyncFindsOwnEntry`, `request` not written. With one file on a channel, counts
  become identities (`EntriesInv`), and `ScanInv` says that when the entry under a
  search matches, it is on the list. A search may also stand on a freed or reused
  entry, as `sync_bug` shows; that entry does not match.

### The device and its handlers

* `ProbeGivesBack`, `ExitGivesBack`. `ProbeInv` is the table of what each label of
  the chain presupposes: a resource is held exactly at its stages. `ModuleInv` is the
  same for what the module registers. `ExitGivesBack` is about modules that were
  unloaded, which without a class or a work queue none is.
* `UsersAreSafe`. `UseInv`: a channel that somebody has, or is releasing, is
  listed and its removal has not begun to drain the attributes, and what is listed is
  alive.
* `InterruptMissesOnlyInGaps`. The stages that hold the interrupt less those that have
  channels are three (`ProbeInv`); after an ignored -EBUSY the channels stay for good
  (`BusyInv`), so no fourth is added.
* `OwnersAreCalledBack`. `CallbackInv`: the callback is installed only for a client or
  during its release.
* `DeviceTypeCorrect`, `OwnersGetTheirData`, for any number of workers and
  settings. `SettingInv` follows the four writes; `OwnInv` says that until an owner
  replaces its handler the work is idle while it is being set, and that everything
  a worker has read is the owner's, in whichever order it reads (`LoadCases`).
  `DriftInv` bounds the count of references: above its lower bound while somebody
  has the channel, not above zero while nobody has.

### Model-checked only

Liveness (`CallsReturn`, `InterruptReachesHandler`, `RemovalReturns`), which the prover
does not treat: all need fairness, and so ENABLED. Every other property of a passing run is a theorem.

## Not modelled

* Formatting, logging, minor numbers beyond "a channel that exists or not",
  the copy to and from user space (its failure returns before any change).
* The second search of SYNC is not distinguished by its result: each
  leaves the state alone.
* What `pwm_wrapper.c:167` drops before `pwm_config` is called: the mask that is left
  is modelled, the flags that were given only the caller knows.
* The branch of `pwm_irq` for `FLAG_STOP`, which is dead, and the completion that
  nobody waits for.
* In `PwmDevice` a write to `request` releases a channel under its owner, but not
  between two of the writes of `pwm_set_handler`; and there is one channel, so a reader of
  sysfs caught by the failure of `__pwm_create_sysfs` for the next channel is missing.
* The makefiles and the documentation have no state.

## Plan

Everything the plan had is done: configuration, readers, suspend and resume;
ownership, the character device and the kernel API with the lock they implement;
handlers, interrupt, work queue, probe and remove. What could follow:

1. In `PwmDevice` a write to `request` between two writes of `pwm_set_handler`.
2. Two channels on one interrupt, where `pwm_irq` walks an array that is half made.
