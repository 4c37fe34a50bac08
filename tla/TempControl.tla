----------------------------- MODULE TempControl -----------------------------
(***************************************************************************)
(* The temperature control process, linux/webapp/temp_control.py: its loop *)
(* (a sample a second), its settings, its stops, crashes and restarts, and *)
(* what the loop relies on - the register process, which may die or pause  *)
(* the traffic, with the fan register and its lease (FpgaAccess has them   *)
(* in detail) - and the web process, which writes the fan register itself  *)
(* when it last saw the loop off or missing.                               *)
(*                                                                         *)
(* A sample holds the controller's lock from its look at the settings to   *)
(* its write: it is two steps, the read of the register and the write, and *)
(* everything but a change of the settings may come between them.  A call  *)
(* of the register process may time out and still be carried out, late.    *)
(* The quantities of the control law are in units of 1/Unit of a duty.     *)
(***************************************************************************)
EXTENDS Integers

CONSTANTS
  Lo, Hi,        \* FAN_MIN_DUTY and FAN_MAX_DUTY
  Safe,          \* SAFE_FAN_DUTY
  Ki,            \* the integral gain, in units per error and period
  Settings,      \* the settings clients ask for: mode, manual duty and kp
  Default,       \* DEFAULTS
  Errors,        \* how far the die may be from the setpoint
  Dt,            \* the time between two samples, in periods (5 at most)
  FaultSamples,  \* SENSOR_FAULT_SAMPLES
  Lease,         \* LEASE_S, in ticks
  MaxWork,       \* bound: requests, stops, deaths and pauses in a behaviour
  None           \* no temperature, no settings file, no late write

Modes == {"auto", "manual", "off"}

ASSUME TempControlConstants ==
  /\ Lo \in Nat /\ Safe \in Nat /\ Hi \in Nat /\ Lo < Safe /\ Safe < Hi
  /\ Ki \in Nat /\ Lease \in Nat \ {0} /\ MaxWork \in Nat
  /\ FaultSamples \in Nat \ {0}
  /\ Settings \subseteq [mode : Modes, manual : Lo..Hi, kp : Nat]
  /\ Default \in [mode : Modes, manual : Lo..Hi, kp : Nat]
  /\ Errors \subseteq Int /\ None \notin Int /\ Dt \subseteq Nat \ {0}
  /\ None \notin Modes /\ None \notin [mode : Modes, manual : Lo..Hi, kp : Nat]

-----------------------------------------------------------------------------
(* The control law: a positional PI with output clamping and conditional   *)
(* integration.                                                            *)

Unit == 2
Larger(a, b) == IF a > b THEN a ELSE b
Within(u) == IF u < Lo * Unit THEN Lo * Unit ELSE IF u > Hi * Unit THEN Hi * Unit ELSE u

\* Python's round: a tie goes to the even duty.
Rounded(u) ==
  LET q == u \div Unit
  IN  IF u % Unit = 0 \/ q % 2 = 0 THEN q ELSE q + 1

\* PI.reset: the integrator that gives this output for this error.
Reset(output, kp, e) == Within(output * Unit - kp * e)

\* Fault: it integrates at the limits of the duty as well.
Unlimited(i, kp, e, dt) == i + Ki * e * dt

\* Fault: the integrator keeps whole duties, and loses smaller steps.
WholeSteps(i, kp, e, dt) == Within(i + Unit * ((Ki * e * dt) \div Unit))

\* The integrator after PI.step: no step pushes the output further into a limit.
Integrated(i, kp, e, dt) ==
  LET u == kp * e + i + Ki * e * dt
  IN  Within(IF (u > Hi * Unit /\ e > 0) \/ (u < Lo * Unit /\ e < 0)
               THEN i ELSE i + Ki * e * dt)

Output(i, kp, e) == Rounded(Within(kp * e + i))

-----------------------------------------------------------------------------
VARIABLES
  duty,       \* the fan register
  leased, left, \* its lease in the register process: there, and the time left
  access,     \* the register process: up, paused (a core load) or down
  ctl,        \* the controller: down, idle, or at the write of a sample
  cfg, file,  \* its settings, and their file
  integral, needReset, fails, \* pi.i, need_reset, sensor_fails
  seen, error, \* what the sample under way has read: the register, the error
  sawOff,     \* the web process last saw the loop off, or nothing of it
  lateRelease, \* a release that timed out, still to be carried out
  lateWrite,  \* the duty of a loop's write that did (bound: one of each at a time)
  guarded,    \* history: the duty is the loop's, and was not handed over
  stripped,   \* history: its lease went with its process, or by a late release
  stray,      \* history: the lease is one that a call that timed out left
  work        \* operations left to the bound MaxWork

lease == <<leased, left>>
law == <<integral, needReset, fails>>
sample == <<seen, error>>
calls == <<lateRelease, lateWrite>>
history == <<guarded, stripped, stray>>
vars == <<duty, lease, access, ctl, cfg, file, law, sample, sawOff, calls, history, work>>

Config == [mode : Modes, manual : Lo..Hi, kp : Nat]

TypeOK ==
  /\ duty \in 0..Hi /\ seen \in 0..Hi
  /\ leased \in BOOLEAN /\ left \in 0..Lease
  /\ access \in {"up", "paused", "down"} /\ ctl \in {"down", "idle", "act"}
  /\ cfg \in Config /\ file \in Config \cup {None}
  /\ integral \in (Lo * Unit)..(Hi * Unit)
  /\ needReset \in BOOLEAN /\ fails \in 0..FaultSamples
  /\ error \in Errors \cup {None}
  /\ sawOff \in BOOLEAN
  /\ lateRelease \in BOOLEAN /\ lateWrite \in 0..Hi \cup {None}
  /\ guarded \in BOOLEAN /\ stripped \in BOOLEAN /\ stray \in BOOLEAN
  /\ work \in 0..MaxWork

\* The board has started, on whatever settings and duty the last run left.
Init ==
  /\ duty \in {0, Lo, Hi} /\ leased = FALSE /\ left = 0 /\ access = "up"
  /\ ctl = "down" /\ cfg = Default /\ file \in Settings \cup {None}
  /\ integral = Lo * Unit /\ needReset = TRUE /\ fails = 0
  /\ seen = 0 /\ error = None
  /\ sawOff = TRUE /\ lateRelease = FALSE /\ lateWrite = None
  /\ guarded = FALSE /\ stripped = FALSE /\ stray = FALSE /\ work = MaxWork

Use == work > 0 /\ work' = work - 1

-----------------------------------------------------------------------------
(* The register process.                                                   *)

\* The lease is gone; that of a duty the loop still answers for is missed.
Strip ==
  /\ leased' = FALSE /\ left' = 0 /\ stray' = FALSE
  /\ stripped' = (stripped \/ (guarded /\ leased))
  /\ UNCHANGED guarded

HandOver == guarded' = FALSE /\ stripped' = FALSE

\* Fault: a release is refused like the rest of the traffic in a pause.
ReleaseTraffic ==
  /\ HandOver /\ UNCHANGED calls
  /\ IF access = "up" THEN leased' = FALSE /\ left' = 0 /\ stray' = FALSE
                      ELSE UNCHANGED <<lease, stray>>

\* A call of release, its failure ignored: it is carried out, in a pause too, or
\* it times out, or there is no process, and no lease.
Release ==
  /\ HandOver /\ UNCHANGED lateWrite
  /\ \/ access # "down" /\ leased' = FALSE /\ left' = 0 /\ stray' = FALSE /\ UNCHANGED lateRelease
     \/ access # "down" /\ lateRelease' = TRUE /\ stray' = leased /\ UNCHANGED lease
     \/ access = "down" /\ UNCHANGED <<lease, stray, lateRelease>>

LateRelease ==
  /\ lateRelease /\ lateRelease' = FALSE /\ Strip
  /\ UNCHANGED <<duty, access, ctl, cfg, file, law, sample, sawOff, lateWrite, work>>

\* A write of the loop, with a new lease.
Lands(want) ==
  /\ duty' = want /\ leased' = TRUE /\ left' = Lease
  /\ guarded' = TRUE /\ stripped' = FALSE

\* A late write is refused in a pause; else it brings its lease, to a loop that
\* may be off by now.
LateWrite ==
  /\ lateWrite # None /\ lateWrite' = None
  /\ IF access = "up" THEN Lands(lateWrite) /\ stray' = (ctl # "down" /\ cfg.mode = "off")
                      ELSE UNCHANGED <<duty, lease, history>>
  /\ UNCHANGED <<access, ctl, cfg, file, law, sample, sawOff, lateRelease, work>>

\* Its leases, and the calls it has not carried out, die with it.
AccessDies ==
  /\ access # "down" /\ Use
  /\ access' = "down" /\ Strip
  /\ lateRelease' = FALSE /\ lateWrite' = None
  /\ UNCHANGED <<duty, ctl, cfg, file, law, sample, sawOff>>

AccessPauses ==
  /\ access = "up" /\ Use /\ access' = "paused"
  /\ UNCHANGED <<duty, lease, ctl, cfg, file, law, sample, sawOff, calls, history>>

AccessResumes ==
  /\ access # "up" /\ access' = "up"
  /\ UNCHANGED <<duty, lease, ctl, cfg, file, law, sample, sawOff, calls, history, work>>

\* The time of a load is given back to the lease, that of a pause a client
\* asked for is not; the watchdog acts in neither.
Tick ==
  /\ leased /\ left > 0
  /\ left' = left - 1
  /\ UNCHANGED <<duty, leased, access, ctl, cfg, file, law, sample, sawOff, calls, history, work>>

Lapse ==
  /\ access = "up" /\ leased /\ left = 0
  /\ leased' = FALSE /\ stray' = FALSE /\ duty' = Larger(duty, Safe)
  /\ UNCHANGED <<left, access, ctl, cfg, file, law, sample, sawOff, calls, guarded, stripped, work>>

-----------------------------------------------------------------------------
(* The controller.                                                         *)

\* In mode off the loop gives up a lease the last run may have left.
Start ==
  /\ ctl = "down" /\ ctl' = "idle"
  /\ cfg' = IF file = None THEN Default ELSE file
  /\ IF cfg'.mode = "off" THEN Release ELSE UNCHANGED <<lease, calls, history>>
  /\ integral' = Lo * Unit /\ needReset' = TRUE /\ fails' = 0
  /\ UNCHANGED <<duty, access, file, sample, sawOff, work>>

\* Killed, or stopped with its release: duty and lease stay.
Stop ==
  /\ ctl # "down" /\ Use /\ ctl' = "down"
  /\ seen' = 0 /\ error' = None
  /\ UNCHANGED <<duty, lease, access, cfg, file, law, sawOff, calls, history>>

\* A call answered with an error ends the process; on its way out it raises
\* the fan, if the register process answers now.
Crash ==
  /\ ctl # "down" /\ access = "up" /\ Use /\ ctl' = "down"
  /\ seen' = 0 /\ error' = None
  /\ duty' \in {duty, IF cfg.mode = "off" THEN duty ELSE Larger(duty, Safe)}
  /\ UNCHANGED <<lease, access, cfg, file, law, sawOff, calls, history>>

\* Settings that changed are saved; a save that fails is only logged.
Set(s) ==
  /\ ctl = "idle" /\ Use
  /\ cfg' = s
  /\ needReset' = (needReset \/ (s.mode = "auto" /\ (cfg.mode # "auto" \/ s.kp # cfg.kp)))
  /\ IF s.mode = "off" /\ cfg.mode # "off" THEN Release ELSE UNCHANGED <<lease, calls, history>>
  /\ file' \in IF s = cfg THEN {file} ELSE {file, s}
  /\ UNCHANGED <<duty, access, ctl, integral, fails, sample, sawOff>>

\* The temperature - of the hottest sensor, if one answers - then the register.
SampleRead ==
  /\ ctl = "idle"
  /\ \E e \in Errors \cup {None} :
       /\ fails' = IF e # None THEN 0 ELSE IF fails < FaultSamples THEN fails + 1 ELSE fails
       /\ IF access = "up" /\ cfg.mode # "off"
            THEN ctl' = "act" /\ seen' = duty /\ error' = e /\ UNCHANGED needReset
            ELSE needReset' = TRUE /\ UNCHANGED <<ctl, sample>>
  /\ UNCHANGED <<duty, lease, access, cfg, file, integral, sawOff, calls, history, work>>

\* Fault: no temperature is never taken for more than a hiccup.
BlindKeep == seen

\* Without a temperature: the duty stays, at the safe one from the fifth sample.
BlindDuty == IF fails >= FaultSamples THEN Larger(seen, Safe) ELSE seen

Regulating == cfg.mode = "auto" /\ error # None

\* Fault: the loop writes without a lease, as the crash handler does.
WriteBare(want) ==
  /\ IF access = "up" THEN duty' = want /\ guarded' = TRUE /\ stripped' = FALSE /\ UNCHANGED lease
                      ELSE UNCHANGED <<duty, lease, guarded, stripped>>
  /\ UNCHANGED <<stray, calls, work>>

\* The sample's write, with a new lease: it may find the access gone or paused,
\* or time out.  (A read that does is like one in a pause.)
Write(want) ==
  \/ access = "up" /\ Lands(want) /\ stray' = FALSE /\ UNCHANGED <<calls, work>>
  \/ /\ access # "down" /\ lateWrite = None /\ Use
     /\ lateWrite' = want /\ UNCHANGED <<duty, lease, history, lateRelease>>
  \/ access # "up" /\ UNCHANGED <<duty, lease, calls, history, work>>

SampleWrite ==
  /\ ctl = "act" /\ ctl' = "idle"
  /\ IF Regulating
       THEN /\ \E dt \in Dt :
                 integral' = Integrated(IF needReset THEN Reset(seen, cfg.kp, error) ELSE integral,
                                        cfg.kp, error, dt)
            /\ needReset' = FALSE
            /\ Write(Output(integral', cfg.kp, error))
       ELSE /\ needReset' = TRUE /\ UNCHANGED integral
            /\ Write(IF cfg.mode = "manual" THEN Larger(Lo, cfg.manual) ELSE BlindDuty)
  /\ seen' = 0 /\ error' = None
  /\ UNCHANGED <<access, cfg, file, fails, sawOff>>

-----------------------------------------------------------------------------
(* The web process.                                                        *)

Poll ==
  /\ sawOff' = (ctl = "down" \/ cfg.mode = "off")
  /\ UNCHANGED <<duty, lease, access, ctl, cfg, file, law, sample, calls, history, work>>

\* Handler._fan: a duty for a loop last seen off or missing goes to the
\* register as it is, without a lease; else it is a Set to manual.
Poke(d) ==
  /\ sawOff /\ access = "up" /\ Use
  /\ duty' = d /\ guarded' = leased /\ stripped' = FALSE
  /\ UNCHANGED <<lease, access, ctl, cfg, file, law, sample, sawOff, calls, stray>>

Next ==
  \/ AccessDies \/ AccessPauses \/ AccessResumes \/ Tick \/ Lapse
  \/ LateRelease \/ LateWrite
  \/ Start \/ Stop \/ Crash \/ SampleRead \/ SampleWrite
  \/ \E s \in Settings : Set(s)
  \/ Poll \/ \E d \in 0..Hi : Poke(d)

Spec == Init /\ [][Next]_vars

\* The supervisor restarts what died, a pause ends, the loop samples, and
\* the watchdog looks at the leases.
FairSpec ==
  /\ Spec
  /\ WF_vars(AccessResumes) /\ WF_vars(Tick) /\ WF_vars(Lapse)
  /\ WF_vars(Start) /\ WF_vars(SampleRead) /\ WF_vars(SampleWrite)

-----------------------------------------------------------------------------
(* Properties                                                              *)

\* With the loop off no lease of an earlier sample or run is left to fire and
\* move the fan ("a lease left by a previous run must not fire"), also not when
\* the release met a pause or a dead process - but for what a call that timed
\* out leaves: the lease its release did not take, or its late write brings.
OffLeavesAlone == ctl # "down" /\ cfg.mode = "off" => ~leased \/ stray

\* A duty the loop wrote is under its lease, or the fan has been raised: no
\* stop, crash or change of settings leaves a slow fan to nobody - but for one
\* whose lease was lost with the register process or to a late release, until
\* the loop's next write.
UnattendedIsSafe == guarded /\ ~leased => duty >= Safe \/ stripped

\* The loop's write, carried out, of a sample that had a temperature.
Regulates ==
  ctl = "act" /\ ctl' = "idle" /\ Regulating /\ access = "up" /\ lateWrite' = lateWrite

\* No windup: once the die is on the other side of the setpoint by a duty's
\* worth, the fan leaves its limit with the very next sample.
NoWindup ==
  [][Regulates => /\ cfg.kp * error >= Unit => duty' > Lo
                  /\ cfg.kp * error <= -Unit => duty' < Hi]_vars

\* With no temperature for good the fan ends safe - by the loop, or by the
\* lease of a loop that died - unless the loop is told to leave it alone.
BlindFanSafe ==
  <>[](ctl = "act" => error = None)
    => <>[](cfg.mode = "auto" => duty >= Safe)

LastStep ==
  LET steps == {(Ki * e * dt) \div Unit : e \in Errors, dt \in Dt}
  IN  CHOOSE s \in steps : \A t \in steps : t <= s

\* With the die too hot for good the fan ends within the last integration
\* step of its limit.
HotFullFan ==
  <>[](ctl = "act" => error # None /\ error > 0)
    => <>[](cfg.mode = "auto" => Hi - duty <= LastStep)
=============================================================================
