----------------------------- MODULE FpgaAccess -----------------------------
(***************************************************************************)
(* The register process of the web stack, linux/webapp/fpga_access.py:     *)
(* every access to the FPGA register file from the handler threads of its  *)
(* Unix socket, the pause of that traffic, the load of an FPGA core with   *)
(* its save and restore of the writable registers, and the fan lease with  *)
(* the watchdog thread that enforces it.                                   *)
(*                                                                         *)
(* Time is relative: pause and left hold what is left of paused_until and  *)
(* of each lease's deadline, and Tick lets one unit of time pass.  The     *)
(* lock self.lock is held across two steps only by the loop of _load's     *)
(* finally block, so LockFree reads it off the program counters.  The      *)
(* variables promise, age, acked and touched are history: no step of the   *)
(* code reads them.                                                        *)
(***************************************************************************)
EXTENDS Integers, FiniteSets

CONSTANTS
  Thread,     \* handler threads, one per connection
  Reg,        \* the writable registers (WRITABLE / RESET_VALUES)
  Fan,        \* REG_FAN_DUTY
  Val,        \* values written to the registers
  Reset,      \* RESET_VALUES: what a core load leaves in them
  Safe,       \* SAFE_FAN_DUTY
  Lease,      \* length of a lease, in ticks (LEASE_S of temp_control.py)
  LeaseReg,   \* the registers clients write with a lease
  Ops,        \* the kinds of request the clients make
  Outcomes,   \* how a core load may go
  MaxPause,   \* longest explicit pause, in ticks
  MaxLoad,    \* longest load that returns, in ticks
  MaxWork,    \* bound: pauses, loads and process deaths in a behaviour
  None        \* no thread

AllOps == {"read", "write", "release", "pause", "resume", "reload", "install", "kill"}
AllOutcomes == {"good", "refused", "error", "wrong", "stuck"}

ASSUME ConstantsOK ==
  /\ None \notin Thread
  /\ Fan \in Reg /\ LeaseReg \subseteq Reg
  /\ Val \subseteq Nat /\ Safe \in Val
  /\ Reset \in [Reg -> Val]
  /\ Lease \in Nat \ {0} /\ MaxPause \in Nat /\ MaxLoad \in Nat /\ MaxWork \in Nat
  /\ Ops \subseteq AllOps /\ Outcomes \subseteq AllOutcomes

\* Fault: a load's pause has a limit, like the one of the pause op.
ShortForever == 1

\* paused_until = math.inf
Forever == MaxPause + 1

\* Fault: the fan duty is not among the registers written back.
SavedWithoutFan == Reg \ {Fan}

\* The registers a load resets, saved before it and written back after it.
SavedReg == Reg

VARIABLES
  regs,       \* the register file in the fabric
  fabric,     \* "up": the expected core runs; "wrong": another core does
  pause,      \* time left of paused_until
  loading,    \* self.loading
  coreLock,   \* the holder of core_lock
  pc, job,    \* what each thread is at; the core operation of coreLock's holder
  ok,         \* whether _load has raised nothing so far
  saved,      \* self._saved
  todo, seen, \* the registers a loop of _load has still to visit; the leases
              \* it found when it began
  held,       \* time since _load's t0
  leased, left, \* the keys of self.leases; time left of each deadline
  dog,        \* the watchdog: its program counter, expired leases to look at
  work        \* operations left to the bound MaxWork

VARIABLES
  promise,    \* the last write carried a lease that was not released
  age,        \* unpaused time since that write, up to Lease
  acked,      \* the value the last acknowledged write left in the register
  touched     \* who accessed the fabric while it was being configured

core == <<coreLock, pc, job, ok, saved, todo, seen, held>>
leases == <<leased, left, promise, age>>
vars == <<regs, fabric, pause, loading, core, leases, dog, work, acked, touched>>

Registers == [Reg -> Val]
LoadPC == {"enter", "load", "configuring", "stuck", "restore", "finally", "extend"}
PC == {"idle", "pause", "resume"} \cup LoadPC
DogPC == {"sleep", "scan", "pop", "raise"}

TypeOK ==
  /\ regs \in Registers /\ saved \in Registers /\ acked \in Registers
  /\ fabric \in {"up", "configuring", "wrong", "failed"}
  /\ pause \in 0..(MaxPause + 1)
  /\ loading \in BOOLEAN /\ ok \in BOOLEAN
  /\ coreLock \in Thread \cup {None}
  /\ pc \in [Thread -> PC]
  /\ job \in {"none", "reload", "install", "rollback"}
  /\ todo \subseteq Reg /\ seen \subseteq Reg /\ leased \subseteq Reg
  /\ held \in 0..MaxLoad
  /\ left \in [Reg -> Int]
  /\ dog \in [pc : DogPC, expired : SUBSET Reg, reg : Reg]
  /\ work \in 0..MaxWork
  /\ promise \in [Reg -> BOOLEAN]
  /\ age \in [Reg -> 0..Lease]
  /\ touched \subseteq {"handler", "loader", "watchdog"}

Init ==
  /\ regs = Reset /\ saved = Reset /\ acked = Reset
  /\ fabric = "up"
  /\ pause = 0 /\ loading = FALSE /\ ok = TRUE
  /\ coreLock = None /\ job = "none"
  /\ pc = [t \in Thread |-> "idle"]
  /\ todo = {} /\ seen = {} /\ held = 0
  /\ leased = {} /\ left = [r \in Reg |-> 0]
  /\ dog = [pc |-> "sleep", expired |-> {}, reg |-> Fan]
  /\ work = MaxWork
  /\ promise = [r \in Reg |-> FALSE]
  /\ age = [r \in Reg |-> 0]
  /\ touched = {}

-----------------------------------------------------------------------------
\* Fault: a pause without a limit is not seen as one.
LimitedPaused == pause \in 1..MaxPause

Paused == pause > 0
LockFree == \A t \in Thread : pc[t] # "extend"

\* An access over LWH2F: one that finds the fabric half-way through its
\* configuration can hang the CPU.
Touch(who) ==
  touched' = IF fabric = "configuring" THEN touched \cup {who} ELSE touched

\* What a write leaves in the register file: nothing takes it without a core.
Poked(r, v) ==
  IF fabric \in {"up", "wrong"} THEN [regs EXCEPT ![r] = v] ELSE regs

Use == work > 0 /\ work' = work - 1
Goto(t, l) == pc' = [pc EXCEPT ![t] = l]
Done(t) == Goto(t, "idle") /\ coreLock' = None /\ job' = "none"

-----------------------------------------------------------------------------
(* Register requests: one critical section of self.lock each.  While the   *)
(* traffic is paused the answer is an error and nothing changes.           *)

Read ==
  /\ "read" \in Ops
  /\ LockFree /\ ~Paused
  /\ Touch("handler")
  /\ UNCHANGED <<regs, fabric, pause, loading, core, leases, dog, work, acked>>

Write(r, v, withLease) ==
  /\ "write" \in Ops
  /\ LockFree /\ ~Paused
  /\ Touch("handler")
  /\ regs' = Poked(r, v)
  /\ acked' = IF fabric \in {"up", "wrong"} THEN [acked EXCEPT ![r] = v] ELSE acked
  /\ IF withLease
       THEN leased' = leased \cup {r} /\ left' = [left EXCEPT ![r] = Lease]
       ELSE UNCHANGED <<leased, left>>
  /\ promise' = [promise EXCEPT ![r] = withLease \/ r \in leased]
  /\ age' = IF withLease \/ r \notin leased THEN [age EXCEPT ![r] = 0] ELSE age
  /\ UNCHANGED <<fabric, pause, loading, core, dog, work>>

\* Outside the lock, in or out of a pause.
Release(r) ==
  /\ "release" \in Ops
  /\ leased' = leased \ {r}
  /\ left' = [left EXCEPT ![r] = 0]
  /\ promise' = [promise EXCEPT ![r] = FALSE]
  /\ age' = [age EXCEPT ![r] = 0]
  /\ UNCHANGED <<regs, fabric, pause, loading, core, dog, work, acked, touched>>

\* pause and resume look at self.loading first, and take the lock after.
AskPause(t, op) ==
  /\ op \in Ops \cap {"pause", "resume"}
  /\ pc[t] = "idle" /\ ~loading
  /\ Use /\ Goto(t, op)
  /\ UNCHANGED <<regs, fabric, pause, loading, coreLock, job, ok, saved, todo,
                 seen, held, leases, dog, acked, touched>>

\* Fault: the time a client asks for has no upper limit.
SetPauseUncapped(t) ==
  /\ LockFree
  /\ pc[t] \in {"pause", "resume"}
  /\ pause' \in IF pc[t] = "pause" THEN 0..Forever ELSE {0}
  /\ Goto(t, "idle")
  /\ UNCHANGED <<regs, fabric, loading, coreLock, job, ok, saved, todo, seen,
                 held, leases, dog, work, acked, touched>>

SetPause(t) ==
  /\ LockFree
  /\ \/ pc[t] = "pause" /\ pause' \in 0..MaxPause
     \/ pc[t] = "resume" /\ pause' = 0
  /\ Goto(t, "idle")
  /\ UNCHANGED <<regs, fabric, loading, coreLock, job, ok, saved, todo, seen,
                 held, leases, dog, work, acked, touched>>

-----------------------------------------------------------------------------
(* A core operation: reload, or install_core with its rollback.  core_lock *)
(* is taken without blocking, so a second one is refused.                  *)

Begin(t, op) ==
  /\ op \in Ops \cap {"reload", "install"}
  /\ pc[t] = "idle" /\ coreLock = None
  /\ Use /\ Goto(t, "enter")
  /\ coreLock' = t /\ job' = op
  /\ UNCHANGED <<regs, fabric, pause, loading, ok, saved, todo, seen, held,
                 leases, dog, acked, touched>>

\* The first critical section of _load: save, pause without a limit.  A
\* rollback keeps the values read before the failed load.
Enter(t) ==
  /\ pc[t] = "enter" /\ LockFree
  /\ IF job = "rollback" THEN UNCHANGED <<saved, touched>>
                         ELSE saved' = regs /\ Touch("loader")
  /\ pause' = Forever /\ loading' = TRUE
  /\ ok' = TRUE /\ held' = 0
  /\ Goto(t, "load")
  /\ UNCHANGED <<regs, fabric, coreLock, job, todo, seen, leases, dog, work,
                 acked>>

\* Fault: a load refused by the loader skips the finally block.
StartLoadNoFinally(t) ==
  /\ pc[t] = "load"
  /\ \/ /\ fabric' = "configuring"
        /\ Goto(t, "configuring") /\ UNCHANGED <<coreLock, job>>
     \/ "refused" \in Outcomes /\ Done(t) /\ UNCHANGED fabric
  /\ UNCHANGED <<regs, pause, loading, ok, saved, todo, seen, held, leases,
                 dog, work, acked, touched>>

\* loader.load(): it may fail before it touches the fabric.
StartLoad(t) ==
  /\ pc[t] = "load"
  /\ \/ /\ fabric' = "configuring"
        /\ Goto(t, "configuring") /\ UNCHANGED ok
     \/ /\ "refused" \in Outcomes
        /\ Goto(t, "finally") /\ ok' = FALSE
        /\ UNCHANGED fabric
  /\ UNCHANGED <<regs, pause, loading, coreLock, job, saved, todo, seen, held,
                 leases, dog, work, acked, touched>>

\* What the load leaves, and the check of the board and build ids: the core
\* expected, another one, or none; or it never returns.
EndLoad(t) ==
  /\ pc[t] = "configuring"
  /\ \E out \in Outcomes \ {"refused"} :
       /\ fabric' = CASE out = "good"  -> "up"
                      [] out = "wrong" -> "wrong"
                      [] out = "error" -> "failed"
                      [] out = "stuck" -> "configuring"
       /\ regs' = IF out \in {"good", "wrong"} THEN Reset ELSE regs
       /\ acked' = IF out = "wrong" THEN Reset ELSE acked
       /\ ok' = (out = "good")
       /\ todo' = IF out = "good" THEN SavedReg ELSE {}
       /\ Goto(t, CASE out = "good"  -> "restore"
                    [] out = "stuck" -> "stuck"
                    [] OTHER         -> "finally")
  /\ UNCHANGED <<pause, loading, coreLock, job, saved, seen, held, leases, dog,
                 work, touched>>

\* The load reset the registers: each is written back, outside the lock.
Restore(t, r) ==
  /\ pc[t] = "restore" /\ r \in todo
  /\ Touch("loader")
  /\ regs' = Poked(r, saved[r])
  /\ acked' = IF job = "rollback" THEN [acked EXCEPT ![r] = saved[r]] ELSE acked
  /\ todo' = todo \ {r}
  /\ Goto(t, IF todo' = {} THEN "finally" ELSE "restore")
  /\ UNCHANGED <<fabric, pause, loading, coreLock, job, ok, saved, seen, held,
                 leases, dog, work>>

\* The finally block takes the lock and walks self.leases.
Finally(t) ==
  /\ pc[t] = "finally" /\ LockFree
  /\ Goto(t, "extend")
  /\ todo' = leased /\ seen' = leased
  /\ UNCHANGED <<regs, fabric, pause, loading, coreLock, job, ok, saved, held,
                 leases, dog, work, acked, touched>>

\* Fault: the time of the load is not given back.
NotExtended(r) == left[r]

\* A pause must not expire a lease.
Extended(r) == left[r] + held

Extend(t, r) ==
  /\ pc[t] = "extend" /\ leased = seen /\ r \in todo
  /\ left' = [left EXCEPT ![r] = Extended(r)]
  /\ todo' = todo \ {r}
  /\ UNCHANGED <<regs, fabric, pause, loading, coreLock, pc, job, ok, saved,
                 seen, held, leased, promise, age, dog, work, acked, touched>>

\* The end of the finally block, and of the operation unless a failed
\* install has a previous core to load back.
LeaveLoad(t) ==
  /\ pc[t] = "extend" /\ leased = seen /\ todo = {}
  /\ pause' = 0 /\ loading' = FALSE
  /\ seen' = {} /\ held' = 0
  /\ \/ Done(t)
     \/ /\ ~ok /\ job = "install"
        /\ Goto(t, "enter") /\ job' = "rollback" /\ UNCHANGED coreLock
  /\ UNCHANGED <<regs, fabric, ok, saved, todo, leases, dog, work, acked,
                 touched>>

\* A key that left the dict during the walk ends it with a RuntimeError (or
\* a KeyError), out of _load and out of the operation.
AbortWalk(t) ==
  /\ pc[t] = "extend" /\ leased # seen
  /\ Done(t)
  /\ todo' = {} /\ seen' = {} /\ held' = 0
  /\ UNCHANGED <<regs, fabric, pause, loading, ok, saved, leases, dog, work,
                 acked, touched>>

CoreStep(t) ==
  \/ Enter(t) \/ StartLoad(t) \/ EndLoad(t) \/ Finally(t)
  \/ LeaveLoad(t) \/ AbortWalk(t)
  \/ \E r \in Reg : Restore(t, r) \/ Extend(t, r)

-----------------------------------------------------------------------------
(* The watchdog thread: every half second it takes a list of the leases,   *)
(* drops each one that is past its deadline, and raises the fan.           *)

DogGoto(l) == dog' = [dog EXCEPT !.pc = l]

Wake ==
  /\ dog.pc = "sleep"
  /\ \E r \in leased : left[r] <= 0
  /\ dog' = [dog EXCEPT !.pc = "scan", !.expired = {r \in leased : left[r] <= 0}]
  /\ UNCHANGED <<regs, fabric, pause, loading, core, leases, work, acked, touched>>

\* paused() is read without the lock ...
Look(r) ==
  /\ dog.pc = "scan" /\ r \in dog.expired
  /\ LET rest == dog.expired \ {r} IN
       dog' = [pc      |-> IF ~Paused THEN "pop" ELSE IF rest = {} THEN "sleep" ELSE "scan",
               expired |-> rest,
               reg     |-> IF Paused THEN dog.reg ELSE r]
  /\ UNCHANGED <<regs, fabric, pause, loading, core, leases, work, acked, touched>>

\* Fault: the pause is looked at again after the lease was dropped.
PopThenRecheck ==
  /\ dog.pc = "pop"
  /\ leased' = leased \ {dog.reg}
  /\ left' = [left EXCEPT ![dog.reg] = 0]
  /\ DogGoto(IF dog.reg = Fan /\ ~Paused THEN "raise"
             ELSE IF dog.expired = {} THEN "sleep" ELSE "scan")
  /\ UNCHANGED <<regs, fabric, pause, loading, core, promise, age, work, acked,
                 touched>>

Pop ==
  /\ dog.pc = "pop"
  /\ leased' = leased \ {dog.reg}
  /\ left' = [left EXCEPT ![dog.reg] = 0]
  /\ DogGoto(IF dog.reg = Fan THEN "raise"
             ELSE IF dog.expired = {} THEN "sleep" ELSE "scan")
  /\ UNCHANGED <<regs, fabric, pause, loading, core, promise, age, work, acked,
                 touched>>

\* ... and not again once the lock is taken.
Raise ==
  /\ dog.pc = "raise" /\ LockFree
  /\ Touch("watchdog")
  /\ IF regs[Fan] < Safe
       THEN regs' = Poked(Fan, Safe) /\ acked' = [acked EXCEPT ![Fan] = Safe]
       ELSE UNCHANGED <<regs, acked>>
  /\ dog' = [dog EXCEPT !.pc = IF dog.expired = {} THEN "sleep" ELSE "scan", !.reg = Fan]
  /\ UNCHANGED <<fabric, pause, loading, core, leases, work>>

WatchdogStep == Wake \/ (\E r \in Reg : Look(r)) \/ Pop \/ Raise

-----------------------------------------------------------------------------
\* Time; none passes within a critical section.  A lease overdue by more
\* than the longest load stays overdue when that load's time is added, so it
\* is not counted further.
Tick ==
  /\ LockFree
  /\ loading /\ coreLock # None /\ pc[coreLock] # "stuck" => held < MaxLoad
  /\ pause' = IF pause \in 1..MaxPause THEN pause - 1 ELSE pause
  /\ held' = IF loading /\ coreLock # None /\ held < MaxLoad THEN held + 1 ELSE held
  /\ left' = [r \in Reg |-> IF r \in leased /\ left[r] > -MaxLoad THEN left[r] - 1
                                                                 ELSE left[r]]
  /\ age' = [r \in Reg |-> IF promise[r] /\ ~Paused /\ age[r] < Lease THEN age[r] + 1
                                                                      ELSE age[r]]
  /\ UNCHANGED <<regs, fabric, loading, coreLock, pc, job, ok, saved, todo, seen,
                 leased, promise, dog, work, acked, touched>>

\* The process dies (killed, or stopped with its release) and the supervisor
\* starts it again: only the fabric outlives it.  A load the kernel has begun
\* ends first - the process cannot exit in the middle of it.
Kill ==
  /\ "kill" \in Ops /\ Use
  /\ IF fabric = "configuring"
       THEN /\ \E out \in Outcomes \cap {"good", "error"} :
                 fabric' = IF out = "good" THEN "up" ELSE "failed"
            /\ regs' = IF fabric' = "up" THEN Reset ELSE regs
       ELSE UNCHANGED <<regs, fabric>>
  /\ pause' = 0 /\ loading' = FALSE /\ ok' = TRUE
  /\ coreLock' = None /\ job' = "none" /\ held' = 0
  /\ pc' = [t \in Thread |-> "idle"]
  /\ saved' = Reset /\ todo' = {} /\ seen' = {}
  /\ leased' = {} /\ left' = [r \in Reg |-> 0]
  /\ promise' = [r \in Reg |-> FALSE] /\ age' = [r \in Reg |-> 0]
  /\ dog' = [pc |-> "sleep", expired |-> {}, reg |-> Fan]
  /\ acked' = regs'
  /\ UNCHANGED touched

Client ==
  \/ Read
  \/ \E r \in Reg, v \in Val : Write(r, v, FALSE)
  \/ \E r \in LeaseReg, v \in Val : Write(r, v, TRUE)
  \/ \E r \in LeaseReg : Release(r)
  \/ \E t \in Thread, op \in {"pause", "resume"} : AskPause(t, op)
  \/ \E t \in Thread, op \in {"reload", "install"} : Begin(t, op)

Handler == \E t \in Thread : SetPause(t) \/ CoreStep(t)

Next == Client \/ Handler \/ WatchdogStep \/ Tick \/ Kill

Spec == Init /\ [][Next]_vars

\* The scheduler runs every thread, time passes, and a load that is under
\* way returns; clients need not ask for anything.
Fairness ==
  /\ WF_vars(Tick)
  /\ WF_vars(WatchdogStep)
  /\ \A t \in Thread : WF_vars(SetPause(t)) /\ WF_vars(CoreStep(t))

FairSpec == Spec /\ Fairness

-----------------------------------------------------------------------------
(* Properties                                                              *)

\* No request of a client reaches the fabric while it is being configured,
\* whatever the interleaving of the requests, the load and the watchdog: the
\* pause that _load takes keeps them out.  Holds while nobody uses the
\* explicit pause and resume.
HandlersKeepQuiet == "handler" \notin touched

\* The same for every thread of the process: "this is the process that must
\* keep LWH2F quiet while it happens" (the docstring of fpga_access.py).
KeepsQuiet == touched = {}

\* When no core operation holds core_lock, no load is marked as running: the
\* traffic was resumed by whichever way the last one ended.
TrafficResumes == coreLock = None => ~loading

\* With the expected core running and no core operation under way, every
\* register shows what the last write a core took (or the watchdog) left there:
\* a load loses no write.  The writes that count are the acknowledged ones and
\* what a rollback writes back, the values of before the failed load; a load
\* answered with an error because another core came up leaves them reset, and
\* a new process starts from what it finds.
AckedKept == fabric = "up" /\ coreLock = None => regs = acked

\* A lease runs only while its client may write: its deadline has passed
\* exactly when the traffic has been unpaused for the lease's length since
\* the write ("a pause must not expire a lease", _load's finally block).
LeaseRunsUnpaused ==
  ~loading => \A r \in leased : left[r] <= 0 <=> age[r] = Lease

\* The dead-man switch is never lost: as long as a leased write to the fan
\* is the last one and was not released, its lease is still in the table, or
\* the watchdog is about to raise the fan, or the fan has been raised.
SilenceRaisesFan ==
  promise[Fan] /\ fabric = "up" /\ coreLock = None =>
    \/ Fan \in leased
    \/ dog.pc = "raise"
    \/ regs[Fan] >= Safe

\* A forgotten pause ends by itself, so it cannot hold the fan loop forever.
PauseEnds == Paused /\ ~loading ~> ~Paused

\* Every load that begins ends with the traffic resumed.
LoadResumes == loading ~> ~loading
=============================================================================
