# TLA+ models of the DE25-Nano test project

The repository is a Terasic DE25-Nano board (Intel Agilex 5: an FPGA with an
ARM HPS) running Linux, a web GUI for it, the tools that install and recover
it, and the FPGA design behind it. This directory holds the TLA+ models of its
stateful parts, the TLC configurations that check them on small instances, and
the TLAPS proofs of their central theorems for every instance.

    tlc -config fan_control.cfg FanControl.tla        # one run
    tlapm FpgaAccessProofs.tla                        # one module's proofs

`PROJECT.json` maps each definition to the source lines it stands for, names
the run of each property, one mutation of the code that breaks it, and the
hazards of the code with the properties that cover them. A definition whose
comment begins with "Fault:" or "Mutant of" is used by no specification: it is
the mutated form of the definition that follows.

## 1. The system

    browser, deploy_web.py, deploy_rsu.py       U-Boot of a board in recovery
        | HTTP                                       | TFTP
    fpga_web.py ------ control.sock ------ temp_control.py     tftp_server.py
        |    \                                /
        |     \------- fpga.sock ------------/
        |                  |
        |            fpga_access.py      (the only process that maps /dev/mem)
        |              | LWH2F        | /dev/mtd, sysfs, the card
    current, previous, axi_lwh2f_bridge  flash slot P1, SDM, HPS watchdog
    pending            | fan_duty          |
        |              amc6821_fan_control.vhd    rsu-confirm.sh
        |                  | I2C
    de25web-supervisor.sh  AMC6821 chip

| Component | State | Operations | What makes it hard |
|---|---|---|---|
| register process, `fpga_access.py` class `Access` | `paused_until`, `loading`, `leases`, `core_lock`, the registers in the fabric | read, write (with a lease), release, pause, resume, load, the watchdog thread | a thread per connection, a watchdog, a load during which one access hangs the CPU; state read outside the lock; restarts |
| requests and replies, `FpgaClient`, `ControlClient`, `serve` | one shared connection, its lock, the attempt | call, resend, time out, close | late replies, dropped connections, requests sent twice, deaths of either side |
| FPGA core install, `fpga_access.py` | core and manifest, their `.prev`, the pending mark, the card's copy, the core in the fabric | install_core, reload, `_recover_install` | the process or the board may stop between any two file operations |
| RSU, `install_rsu`, `rsu-confirm.sh`, `deploy_rsu.py` | flash P1, SSBL, CORE, the card, `rsu/P1`, the SDM's record, the watchdog | erase, write, verify, reboot, boot, confirm, follow | a power cut between any two of them; an image that cannot say it is broken |
| temperature control, `temp_control.py` | settings and their file, PI state, sensor failures | sample, set, start, stop, crash | bumpless mode changes, limits, a register shared with the watchdog and the GUI |
| `ControlLink` of `fpga_web.py`, history of `temp_control.py` | the cached state, two copies of the history, the saved history | poll, seed, set, save, load | restarts of either side; answers that cross |
| GUI releases, `fpga_web.py` class `Releases`, and `de25web-supervisor.sh` | `releases/`, the links `current` and `previous`, the file `pending`; the processes; the test's time and failures | install, rollback, confirm, prune; start, watch, revert | two programs on the same three names with no lock; restarts in the middle |
| fan controller, `amc6821_fan_control.vhd`, `i2c_master_pkg.vhd` | the two sequencers, the master, the chip's registers | configure, kick, write the duty, poll, back off | three clocked processes that hand over in one-cycle pulses; bytes not acknowledged |
| `tftp_server.py` | of each transfer the block and the tries | serve, send, wait, give up | lost, repeated and late packets, numbers that wrap, a request that comes twice |

How they interact. `temp_control.py` writes the fan duty through
`fpga_access.py` with a lease of 10 s: if no write follows, the watchdog there
raises the fan. Everybody else's register access goes the same way. A load of
an FPGA core pauses all of it, and the FPGA's reset puts the fan controller
back to its start. The fan duty register is the `duty_in` of the fan
controller. `fpga_web.py` installs releases of the three processes and exits;
the supervisor starts what `current` points at and reverts what does not prove
itself. An RSU update replaces everything under the processes: image, U-Boot
and core, of which the core can also be replaced alone.

What makes each part correct: nothing touches the fabric while it is being
configured; the traffic always comes back; a write that was acknowledged is
not lost; a slow fan is never left to nobody; a call gets its own reply or
none; after any crash a core, an image and a release that work are what starts
next; the page shows the present controller and loses no sample; the shared
I2C bus is never left in the middle of a frame; a recovered board gets the
file it asked for.

## 2. The modules

| Module | Models |
|---|---|
| `FpgaAccess`, `MCFpgaAccess` | class `Access` without its files, and the constants of its runs |
| `RpcClient` | `FpgaClient.call_raw`, `ControlClient.call`, both `serve` functions |
| `CoreInstall` | the files of a core install |
| `AtomicCore` | abstract: the installed core changes at once, to one that works |
| `RsuUpdate`, `MCRsuUpdate` | `install_rsu`, the boot, `rsu-confirm.sh`, `deploy_rsu.py` |
| `AtomicSlot` | abstract: a slot holds a whole build or nothing that boots |
| `TempControl`, `MCTempControl` | classes `Controller` and `PI`, over the register process |
| `ControlLink` | class `ControlLink` and the history of `Controller`, over `RpcClient` |
| `GuiRelease` | class `Releases` and the supervisor |
| `FanControl` | the fan controller, its I2C master, the chip |
| `TftpServer` | the TFTP server, U-Boot's client, the network |
| `...Proofs` | the theorems about a module, in a module of their own |

`ControlLink` composes `RpcClient` (its connection) with the two processes at
its ends. `TempControl` composes the loop with the parts of the register
process and of the web process that act on the same register: each is there
as its effect on the duty and the lease, which `FpgaAccess` has step by step.
`RsuUpdate` has the core operations as far as they touch the files an update
writes, which `CoreInstall` has step by step.

### FpgaAccess

Each critical section of `self.lock` is one action, since no other thread can
see its inside; what happens outside the lock is a step of its own: the test
of `loading` before a pause, the `pop` of a release, each write of a restore,
the watchdog's look at `paused()`, its `pop`, its raise. The one critical
section that is not one action is `_load`'s finally block: `release` does not
take the lock, so it can change the dictionary in the middle of the walk.
`fabric` is "configuring" while the loader runs; `touched` records who
accessed the fabric then. A load may be good, refused before it begins, fail,
leave the wrong core, or never return ("stuck", which the code's comment
reports from the board). Time is relative and passes only outside critical
sections: an access takes microseconds, a lease seconds. `Kill` is the death
of the process and its restart by the supervisor; a load the kernel has begun
ends before the process has exited.

### RpcClient

A call takes the lock, connects if need be, sends, reads; what goes wrong
closes the connection, and `Resends` says after which failures the second
attempt is made - the one difference of the two clients. The server has a
thread per connection, works its requests off in order, and can reply when
nobody reads any more. A request line that the server had received when the
client closed is still handled. Connections and calls have names, used again
when nothing is left of them; the code has no name for a call, which is why a
reply could be taken for another's.

### CoreInstall and AtomicCore

A version stands for a core and its manifest together, since `check_bundle`
compares them first. `write_file` (write, fsync, rename) and `os.replace` are
one step and last; `shutil.copyfile` truncates first, and its content may not
be on the disk at a power cut (constant `Flushed`). `Kill` keeps the fabric;
`PowerCut` loads the card's copy. `AtomicCore` is what an install promises:
the installed core is replaced in one step, by a core that has run. The
refinement maps `installed` to the kept core while an install is pending, so
that removing the pending mark is the commit point.

### RsuUpdate and AtomicSlot

The value of each file is the build its content comes from. `Plan` is the
order of `install_rsu`; a step on the flash is two (`Touch` makes it `Torn`,
`Done` gives it the new content), a file on the card or in `rsu/P1` is
replaced in one. Every step may fail, the process may die and the power may go
between any two. The flash and the SDM are external: librsu takes an image out
of the boot table before it erases it and enters it once it is written, which
is why the order protects the board; `Boot` takes U-Boot and the core from the
card, else from the image's flash. `Confirm` and `GiveUp` are `rsu-confirm.sh`
in its wait, `Watchdog` the HPS watchdog it no longer pets, or that of a board
that hangs. `deploy_rsu.py` polls and counts only answers after one that
failed. `Init` is every state a board programmed over JTAG can have.

### TempControl

A sample is two steps, the read of the register and the write, because
everything but a change of the settings may come between them: the lease may
lapse, the traffic pause, the process die, the GUI write. A call of the loop,
a release or a write, may time out while the register process lives, and be
carried out later (`LateRelease`, `LateWrite`; `call_raw` does not resend it);
a release's failure is ignored whatever it was. The control law is the code's,
with integers for its floats in units of half a duty (so that `round` has
ties), its gains and periods small. What the web process last saw of the loop
is one bit (`sawOff`), which is all that `Handler._fan` decides on. Three
histories: `guarded`, the duty is one the loop wrote and did not hand over;
`stripped`, the lease of such a duty was lost with the register process or to a
late release; `stray`, a lease is one that a call that timed out left. The
properties exempt the last two where the code does not keep its word (section
4), and nothing else: `guarded` says what the loop answers for, and no failure
clears it.

### ControlLink

The poller asks for the state, and when it is of another start of the controller
for the history, which it merges with its copy; a request of the GUI goes
through the same connection. A sample is its time. The controller stops cleanly
(saving its history), crashes, also before or after the save of a setting and
before its reply, and starts with what is on the disk (`disk`). A save may fail:
that is only logged, and the setting is in force and acknowledged (`Apply`);
`lost` is history, a start without a setting that had not been saved. The web
server restarts with nothing. The merge keeps the samples of the copy that are
older than the first of the history it was sent: `Kept` picks them by their
ranks among the positions (`Early`, `Nth`), which is `SelectSeq` without its
recursion. `alone` and `acked` are histories: what the GUI was told, as long as
no older copy of a request can come after it (section 4).

### GuiRelease

The handlers of one server (a step per change of a link, of `pending` or of
`releases/`), the supervisor's loop (a step per look and per command of
`revert()`; `ln -sfn` removes the link and makes a new one), the exits of the
processes, time, and restarts of the supervisor or the board at any step. Any
step of a handler may fail (`Fails`): a full card, at the links or at the mark,
or a client that is gone when it is answered; the handler ends there, the
server runs on and nothing restarts it. The server may also exit at any time.
`Working` are the releases whose processes answer. Histories: `cut`, at which
steps of a revert, or in the replacement of a release's directory, a restart or
a failure came; `unmarked`, the releases that were made current and whose
handler ended before it had written their mark; `confirmed`, what a client was
told. `NoBadSticks` exempts `unmarked`, since the code does leave such a release
in (section 4). The constants `Again`, `SameAgain`, `Late` and the number of
threads open the other cases in which the code does not keep its promise.

### FanControl

One step is one rising edge of the clock: `Edge` is the conjunction of what
the top-level sequencer, the transaction sequencer and the master do at it,
each reading the others' registers as they were before the edge, which is what
`rising_edge` processes do. So a pulse (`xact_start`, `xact_done`, `i2c_req`)
is seen exactly one edge later. An operation of the master takes at least one
edge and ends at any later one; the chip takes part at the end of it. That is
coarser than the four quarters of each bit, and sound for the handshakes since
the sequencers only look at `busy`. The chip may leave any byte
unacknowledged, and `duty_in` may change at every edge. Reset happens once,
after the configuration of the FPGA (there is no reset button): it is `Init`.

### TftpServer

Every read request gets a transfer of its own, also one the network repeats.
A packet stays in `net` when it is received and may be received again; `Lose`
takes it out. The network does not keep a packet for the time of `MaxAge`
blocks (`Aged`), which has to be less than the block numbers (`Wrap`, 2^16):
without such a limit no protocol that numbers modulo anything is correct.
The client, U-Boot, is not in the repository: it keeps to the first transfer
that answers, takes the block it expects and acknowledges what it has.

## 3. What is checked

| Run | Instance | Shows |
|---|---|---|
| `access_loads` | 2 threads, 2 registers, leases of 2 ticks, loads of up to 2 with all outcomes, 2 loads | `HandlersKeepQuiet`: no request of a client reaches a fabric being configured; `LeaseRunsUnpaused`: a lease runs exactly while its client may write |
| `access_quiet` | no leases, 3 loads or kills, loads return; fair | `KeepsQuiet`: nothing of the process does; `AckedKept`: the registers show the last acknowledged write; `LoadResumes` |
| `access_lease` | leased writes, releases, pauses, resumes; fair | `SilenceRaisesFan`: the dead-man switch is never lost; `PauseEnds`: a pause ends by itself |
| `install_crashes` | 3 cores, one bad; 3 installs, 3 kills or power cuts at any step | `ImplementsAtomicCore`, `NoUntestedInstalled`, `CardGood`: what starts next has run; `PairKept`: without a crash the manifest fits |
| `rsu_update` | 4 builds, one bad, 2 peripheries; 2 updates, 1 core operation, 2 faults; fair | `BootableIsWhole`, `ImplementsAtomicSlot`; `ToldConfirmed`: the host is told the truth; `UnhealthyFallsBack` |
| `temp_control` | duties 0 to 4, 4 settings, errors -1, 1 and 2, a lease of 2, 2 requests, faults or writes that time out, any releases that do; fair | `OffLeavesAlone`, `UnattendedIsSafe`, `NoWindup`, `BlindFanSafe`, `HotFullFan` |
| `rpc_client` | 2 threads, 3 connections, `FpgaClient`'s resends, 2 deaths or exceptions; fair | `RepliesMatch`, `NeverTwiceAtOnce`, `CallsEnd` |
| `control_link` | poller and GUI, `ControlClient`'s resends, 1 death, 1 late reply, 2 sets, failed saves, 2 samples, any 4 of these; fair | `HistoryOrdered`, `NothingForgotten`, `SavedShown`, `AckedSticks`, `LatestSettles` |
| `gui_releases` | 3 releases, one bad; 3 uploads or rollbacks, any step of which may fail, 1 restart at any step; tests of 1 tick and 2 exits; 2 releases kept; fair | `NoBadSticks`, `ConfirmedStays`, `LinksHold`, `TestEnds` |
| `fan_control` | 2 duties and the kick, delays of 1; fair | `NeverMidFrame`, `ConfigLast`, `ReadbacksMatch`, `ErrorsAreNacks`; `FanFollows`: the chip ends up with the setpoint |
| `tftp_server` | 5 blocks (the last one empty) over 3 numbers, 2 transfers, 2 tries; fair | `FileInOrder`, `SentIsReceived`, `TransfersEnd` |
| `revert_twice` | 2 releases, a change and a restart | the counterexample of section 4 |

Bounds. Two threads are enough for every race of two parties with the watchdog
as the third; `core_lock` admits one load at a time. Three installs and three
crashes let an install meet the files two earlier ones left, and a recovery be
cut short twice. In `rsu_update` an update finds what another one, cut short
twice, has left; with two peripheries a core can fit one of the two images and
not the other. In `temp_control` two faults let a second process die while the
first is away; four settings have each mode and two gains, and the errors reach
both limits; of the calls that timed out one release and one write are under way
at a time. Three connections leave one for each call, and one that the server
still works on. In `control_link` a death of either side comes in before,
between and after the two samples, and with two sets a late copy of the first
can meet the second; `MaxEvents` bounds the deaths, late replies, sets, samples
and failed saves (one that still matters) together, by a number that still lets
two of any two kinds, or two of one kind and one of each of two others, meet in
one behaviour (two sets, a late reply and a death of the controller among them).
`Keep` is 2 instead of 4 and the releases 3, so that `_prune` has something to
delete at the third; `MaxFails` is 2 instead of 3. The fan controller's state is
finite without a bound; its delays of one cycle still take both branches of each
comparison. With 5 blocks over 3 numbers the numbers wrap, and `MaxAge` is at
its limit.

Symmetry is used in `access_loads`, on the threads, which no property tells
apart; never with liveness.

Deadlock is checked except in five runs that may stop: in `install_crashes` and
`rsu_update` the power cuts and operations are bounded, and a board hung by a
core waits for one; in `rpc_client`, `control_link` and `tftp_server` the calls,
the samples or the transfers are.

Fairness. `FpgaAccess`: time passes and the scheduler runs the handlers and
the watchdog; clients need do nothing. A load that is under way returns in
`access_quiet`; the load that never returns is in `access_loads`. `RsuUpdate`:
processes, boots, loads and the two watchdogs go on; nobody has to ask for an
update. `TempControl`: the supervisor starts a process that died, a pause ends
(`PauseEnds` shows it), the loop samples once a second, the watchdog looks at
the leases. `RpcClient`: a thread at the socket goes on, since every call of
it has a timeout of 2 s; nothing at all is assumed of the server. `ControlLink`:
the threads of both processes run; a lock of Python's is not fair, so the
poller gets its connection by strong fairness only - the GUI's requests are
bounded. `GuiRelease`: the supervisor's loop, each handler thread, time, and
the exit that `restart_soon` has set its timer for; no process is obliged to
crash and no client to confirm. `FanControl`: the clock runs, and an operation,
being a fixed number of quarter periods, ends. `TftpServer`: the wait for an
acknowledgement has a deadline; the network and the client owe nothing.

## 4. Where the code and its documents disagree

`revert_twice` ends in a counterexample (`expect: violation`, with the quoted
line in `PROJECT.json`): a restart after `revert()` has put the previous
release back and before its `rm -f pending` finds the mark, and the next start
reverts to the release that had failed.

The others that were met while modelling are seen by changing a passing run as
the first column says, and are why that run has the constants it has:

| Change | Violates | Because |
|---|---|---|
| `FpgaAccess`: reload among leased writes | `KeepsQuiet` | the watchdog finds no pause; a load begins; it takes the lock and accesses the fabric (`fpga_access.py:1151`) |
| `Ops` = read, resume, reload | `KeepsQuiet` | a resume that tested `loading` before the load began lifts its pause (772) |
| write, release, reload with a lease | `LoadResumes` | a release during the finally block's walk ends it with the traffic paused (798) |
| write, reload with a lease | `SilenceRaisesFan` | the watchdog's raise is undone by the restore, and the lease is gone (867) |
| write, reload with leases on both registers (`access_loads`) | `LeaseRunsUnpaused` | the watchdog drops a lease that was overdue before the load, in the middle of the finally block's walk; the walk ends with the traffic paused and the other lease not extended, and the next load gives back only its own time (893-898) |
| write, pause with a lease, `MaxPause` 3 | `LeaseRunsUnpaused` | the pause op does not extend the leases |
| `CoreInstall`, `PairKept` without its "no crash" | `PairKept` | a crash between the two renames of a rollback or a recovery leaves the old core with the new manifest (957, 1097) |
| `Flushed` = FALSE | `NoUntestedInstalled` | `core.prev` is not flushed before the pending mark is (940) |
| `RsuUpdate`, property: a start of P1 on its own image finds a core that fits | it | a core install hangs P1 before its mark is removed; the watchdog, the factory image, an update from it; the next start of P1 takes the mark for its own and puts the old build's core in the place of the update's (1093-1105), and a reload then loads a core that does not fit |
| `GuiRelease`, `NoBadSticks` without `unmarked` | `NoBadSticks` | the handler ends between the new `current` and its mark and leaves a release nobody tests: a restart or an exit there (`fpga_web.py:372`), or an `OSError` of the open, which leaves no mark, or of the write, which leaves an empty one (373-374, 395-396); the server that runs on starts it when it next exits |
| `GuiRelease`, `TestEnds` for every mark (`pending # None ~> pending = None`) | it | the reply is written before `restart_soon()`: with the client gone, or a failing `_prune`, links and mark are switched, the old server runs on and the test does not begin (`fpga_web.py:618-626`); an empty mark names no release, and its test never begins or ends |
| `Again` = TRUE | `NoBadSticks` | a change during a test makes the untested release the revert target |
| `Late` = TRUE | `ConfirmedStays` | a confirmation between the supervisor's look at `pending` and its verdict is answered, then reverted |
| `MaxCrashes` = 2 | `LinksHold` | a restart between the two halves of `revert()`'s `ln -sfn` leaves no `current`; the next revert makes `previous` a link to `releases/`, and a second restart, before its `rm -f pending`, has that linked as `current` (`de25web-supervisor.sh:64-69`) |
| `Again` = TRUE, two threads | `ConfirmedStays` | the release on test is uploaded again while its confirmation is under way; the confirmation is answered, the upload marks the release anew, and a restart reverts it |
| two threads | `NoBadSticks` | a stalled confirmation removes the next release's `pending` |
| `SameAgain` = TRUE | `LinksHold` | an upload of the running release unprotects `previous` from `_prune` |
| `TempControl`, `OffLeavesAlone` without `stray` | `OffLeavesAlone` | every failure of the release is ignored (`temp_control.py:254-258`), also a timeout with the process and the lease alive: the lease then fires, or is carried out late; and a write that timed out may land after the loop was switched off, with a new lease ("a lease left by a previous run must not fire", 386) |
| `TempControl`, `UnattendedIsSafe` without `stripped` | `UnattendedIsSafe` | the register process dies with its leases, or a late release takes one, and the loop stops before its next write: nobody raises the slow fan |
| `ControlLink`, `AckedSticks` without `lost` | `AckedSticks` | a save that fails is only logged, and the setting acknowledged: the next start has the old one (`temp_control.py:232-240`) |
| `RpcClient`, `Resends` with "timeout", property without its guard | `NeverTwiceAtOnce` | `ControlClient` resends a set after a timeout, and the first copy may run after a newer set |
| `ControlLink`, `AckedSticks` without `alone` | `AckedSticks` | the first set times out, is sent again and answered; the second set is answered, but before the GUI's thread returns the stale copy of the first is handled and saved (`temp_control.py:480-488`) |
| `FanControl`, property: when Config1 is set, the duty has been written | it | the duty is written after the script, of which Config1 is the last (`amc6821_fan_control.vhd:433-442`, 474); `docs/de25_nano_fan.md:57-66` and the table in the header (51-54) list DCY before Config1, "with Configuration Register 1 last so the chip only starts once everything else is in place", and so does the comment at 135-136 ("once every other setting is in place"): until the kick is written the chip runs on the DCY it has. `ConfigLast` is about the script's other three settings |
| `FanControl`, property: the kick is written once | it | the retry after a byte that was not acknowledged writes the kick duty again (`amc6821_fan_control.vhd:440`, 521-522) |

Read in the code while modelling, without a run:

- A write between a failed load and the rollback's load is overwritten by the
  values of before, and a process that dies inside a load takes the saved
  registers with it (`fpga_access.py:867`). `AckedKept` counts what a rollback
  writes back as acknowledged, and a new process begins with what it finds.
- `PI.reset` calls itself bumpless (`temp_control.py:148`); where its integrator
  is clamped the output still jumps.
- "Every failure is an FpgaUnavailable" (`fpga_access.py:1205`): a reply that
  reports a bad request raises `ValueError`, which ends the temperature loop
  (`TempControl`'s `Crash`).
- `install_rsu` answers a failure with "P1 is erased or incomplete" (1065) also
  when the staging failed before the erase, or the verify after a good write;
  a failing write of `reboot_image` (1076) is not caught at all.
- After an update that failed, or that was not followed by its reboot, `rsu/P1`
  has the core and manifest of a build the running image is not.
- `deploy_rsu.py --no-reboot` says that the next reboot runs the new image; the
  documents say that a plain reboot keeps image and fabric.
- `deploy_rsu.py` takes any failed status for the reboot, so that a factory
  image with an old failure record can be reported as the update's fallback.
- A crash inside `setup_slot_firmware`'s move (571-579) leaves the rest of the
  flat files there for ever.
- Two uploads at once share the names of the temporary link (`fpga_web.py:401`)
  and of the uploaded archive (645, 664).
- A restart, or an `OSError`, while an upload replaces a release of the same
  name loses that release (`UploadCut`); a settings save that failed is not
  tried again by the same setting (`Apply`).

## 5. What is proved

TLAPS 1.4.5, with the assumptions on the constants that each module names
(types and what tells the constants apart, no bounds). Every module of proofs
has a `TypeCorrect`; the other theorems are properties of the runs, for every
value of the constants.

`FpgaAccessProofs`: `HandlersQuiet` (without the explicit pause and resume, no
client request reaches a fabric being configured); `ProcessQuiet` (without
leases nothing does); `ResumesAlways` (without releases every load ends with
the traffic resumed). The invariant ties the state of the load to the pause:
between entering `_load` and its end the pause has no limit, at most one thread
is past taking `core_lock` and it is its holder, and the fabric is being
configured only then. It is needed because the properties speak of what was
touched, a history, and say nothing of why. Over the same invariant:
`WritesKept` (`AckedKept`, without explicit pauses and leases), whose `AckedInv`
says for each step of a load whether the acknowledged writes are in the
registers, in the saved values, or part in each; and `LeasesRunUnpaused`
(`LeaseRunsUnpaused`, for any leased registers, with releases), whose `LeaseInv`
says how far the walk of the finally block has come and what the leases it has
not reached yet are owed. It has the hypothesis that no walk is broken off while
there are leases (`NoBrokenWalk`); section 4 shows what such a walk does.
`FanLeaseRunsUnpaused` is what follows for the fan's lease alone, not released:
there the watchdog can break a walk off only by dropping the one lease.
`SilenceRaises` (`SilenceRaisesFan`) is where no core is loaded, for any
clients that write, release, pause and resume: the lease, the watchdog's list,
or the fan's register has the switch.

`CoreInstallProofs`: `InstallIsAtomic` (with `Flushed`, every behaviour
implements `AtomicCore`); `UntestedNeverStays`; `CardAlwaysGood`;
`PairAlwaysKept` (`PairKept`, over which of the two files each step has
renamed). The invariant
says what each file holds at each step of the install, of the rollback and of
the recovery: while the mark is there the installed core is the kept one, or,
after the rename that puts it back, the core file itself; either has run.

`RsuUpdateProofs`: `BootsWhole` (`BootableIsWhole`) and `AtomicUpdate` (every
behaviour implements `AtomicSlot`), for any builds and peripheries and any
number of updates, core operations and faults. The invariant says what each
step of the plan has written so far, and that the image is not bootable
meanwhile (`Progress`); that a core is loaded only under its mark, and that no
mark is left once P1 serves (`Marked`); and that while another image runs than
the one in the slot, the manifests beside it are of cores that fit the slot's
(`Owned`) - without which a core installed after an update and before its
reboot could come to the card the new image boots from. `ToldIsConfirmed`
(`ToldConfirmed`) adds `ToldInv`, which follows one update through its three
actors: what the board has run and proved since the host began to poll is of the
host's build, or the host has not been told so.

`TempControlProofs`: `OffIsOff`, `Attended` (`UnattendedIsSafe`),
`LimitsAreLeft` (`NoWindup`), and `ResetGivesOutput`, the bumpless start where
nothing is clamped, over lemmas about the control law: what `Within`, `Rounded`
and `Integrated` return.

`RpcClientProofs`: `OwnReply` (`RepliesMatch`), for any resends; `OneAtATime`
(`NeverTwiceAtOnce`). The invariant: all that is on the client's connection,
requests at work and replies under way, is the lock's owner's while it reads,
and nothing otherwise; the name of a call is at one place only, which needs the
names in use to be those of calls, requests and replies (`Named`); and a request
that has not been sent, or was dropped, is not at work (`NotSentYet`).

The same module has the theorems of `ControlLink`, which uses the connection:
`LinkTypeCorrect`; `PlotInOrder` (`HistoryOrdered`); `BroughtIsShown`
(`SavedShown`); `AcknowledgedSticks` (`AckedSticks`); `PlotForgetsNothing`
(`NothingForgotten`, an action property) - for any settings, connections and
bounds. Their hypothesis `AsLink` says that `RpcClient`'s answers include the
states and histories of `ControlLink`, as its configuration defines them. A
step of `ControlLink` is a step of `RpcClient` (`LinkStep`), so that `Safe`
holds of it, and a reply is of the request it answers. What is added to it,
`LinkSafe`, has a part for each place the data is at:

- `Controller`: its history has every sample from its first to the last there
  was (`Unbroken`), and so has the saved one, which is only there while the
  controller is down.
- `Copy`: the web server's copy is in order too, and knows of no later start
  than there was. In an ordered copy the positions before the first sample of a
  history are the first ones (`EarlyFirst`), so `Kept` is a prefix
  (`KeptFirst`), and what it is put in front of begins later (`MergedOrdered`).
- `Asking`, `Answering`: what is asked for, and what the answers under way or
  held by the client (`Heard`) say. A history under way has what the copy has
  of its time, since it was unbroken when it was sent and the copy does not
  grow while the poller waits for it (`Told`); and if the state that it was
  asked for is of the present start, all that start brought over (`Brought`). A
  state is of a start and a sample there have been (`Seen`). An answered
  setting is in force, or lost, while no other was on its way (`Fits`).
- `Shown`: `SavedShown`, by the positions of the samples.
- `Sticks`: while an acknowledgement stands, or is about to, no set that would
  change it is on its way, to the server or on a connection the client has
  left. This is why `AckedSticks` needs `alone` and `Astray`: they are what the
  invariant says and the code does not ensure.

`TftpServerProofs`: `FileCorrect` (`FileInOrder`) and `SentCorrect`, for a file
and blocks of any size, any `Wrap` and any number of transfers. Two numbers
that agree modulo `Wrap` and are less than `Wrap` apart are one number
(`SameNumber`); the invariant gives the distance: the server is at most one
block ahead of its client (`LockStep`), and a packet under way is of a block at
most `MaxAge` old (`NetKnown`). `ShortBlock` says that the block that is less
than full is the last one, also of a file of whole blocks.

`FanControlProofs`, for any duties and any delays (0 included): `BusReleased`
(`NeverMidFrame`); `NoLostPulse` (`Handshake`, a lemma of its own about the
pulses); `ErrorsExact`; `SettingsCorrect` (`ConfigLast`, `DutyShown`);
`ReadbacksCorrect`. Not even the types are inductive here: what the chip takes
for data is data only because the master is at the fourth operation of a write.
The invariant (checked by TLC before it was proved) says that the request, the
transaction under way and its end exclude each other (`Turns`), what each state
of the sequencer asks for (`Aim`), what the master, the frame and the
acknowledge are at each step of a transaction (`Leaving`, `Progress`, `Taken`),
and what its end leaves (`Outcome`, `Settings`). An edge is a conjunction of
three processes; lemmas about the bus alone (`Resting`, `Working`, `Writing`)
and the fact that a running transaction stills the sequencer
(`SameTransaction`) keep the cases of one from multiplying those of the others.

`GuiReleaseProofs`, for any releases, limits and numbers of changes and of
restarts. All of it rests on `Base`: handlers act only while their server runs,
one change at a time, and never while the supervisor reverts. So the links and
the mark have one writer at a time, except for a confirmation, which may remove
the mark beside anyone - each theorem's hypotheses say which of those meetings
it excludes, and section 4 what happens in them.

- `ConfirmationHolds` (`ConfirmedStays`), for any number of handler threads,
  with `Again` and `Late` FALSE. `Unconfirmed`: while there is a mark, or a
  handler is about to make one, no confirmation stands.
- `LinksLead` (`LinksHold`), with `SameAgain` and `Late` FALSE. `LinkInv` says
  that `current` is missing only within a revert or where one was cut short, and
  that a mark and a rollback target are there then; `DiskInv` that what a link,
  or the local variable of a handler or of `revert()`, names is on the disk. It
  is not so for every restart: `NoSecondCut` is an action property that the
  theorem has as its hypothesis (section 4). `LinksLeadOnce` is the same for
  `MaxCrashes` at most 1, from which `NoSecondCut` follows.
- `BadGoesOut` (`NoBadSticks`), with `Again` and `SameAgain` FALSE, for any
  number of handler threads and either value of `Late`, as long as no
  confirmation stalls until the mark is another release's (`NoStaleConfirm`);
  `BadGoesOutSingle` for one thread, where that follows. The invariant: what
  runs with nothing on test works or was left unmarked, and so is what would be
  reverted to (`Works`, `Trusted`); the mark is `current`'s (`Marked`); a change
  begins with nothing on test, and a step that fails adds to `unmarked` what it
  leaves (`Handled`); and what the supervisor tests is what runs (`Seen`).

Only model-checked: liveness (`LoadResumes`, `PauseEnds`, `UnhealthyFallsBack`,
`BlindFanSafe`, `HotFullFan`, `CallsEnd`, `LatestSettles`, `TestEnds`,
`FanFollows`, `TransfersEnd`), since fairness and ENABLED are out of TLAPS's
reach. Every invariant and every action property of a passing run has a
theorem; the hypotheses of those that hold only for some constants are named
with them above.

## 6. What is not modelled, and the plan

Left out of modelled components: the bits and quarter periods of the I2C master
and the 24 steps of the RPM divider; a plain reboot, which keeps the running
image; the flat-file move of the first start after RSU; a card that cannot be
written during a core install; releases of before 1.3.0; the statuses that the
web server only reads and formats; the ten-minute limits of the histories; a
settings file that is there and cannot be read (the loop starts on its
defaults); the X-Force header, with which an operator installs a core of another
periphery (`fpga_access.py:924-928`).

Not modelled: the AXI bridge and register file, whose every step is a call into
`fpga_interconnect`, a submodule that is not in the tree (the bridge alone
leaves open whether the watchdog's answer to a read can meet the late one,
`axi_lwh2f_bridge.vhd:195`); the LED blinkers (no interaction but one
register); `eth-watchdog.sh` (a counter whose effect lies in the driver);
`sd_recover.py`, the deploy, image and build scripts (sequential, over a console
or HTTP, whose other side is modelled); the bare-metal programs (register writes
to hardware); the web page (rendering); the generated HPS IP.

Nothing of the plan is open. Where a theorem of section 5 has a hypothesis on
what the clients do or where a crash comes, section 4 has what happens without
it: for `SilenceRaises` with loads, for `ResumesAlways` with releases. The AXI
bridge would be next, with its submodule at hand.
