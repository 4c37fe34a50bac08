-------------------------- MODULE TempControlProofs --------------------------
(***************************************************************************)
(* Theorems about TempControl, for any duties, gains, settings, errors and *)
(* lease that its assumption allows.                                       *)
(***************************************************************************)
EXTENDS TempControl, TLAPS

-----------------------------------------------------------------------------
(* The control law.                                                        *)

\* A clamped quantity lies between the fan's limits.
LEMMA WithinLimits ==
  ASSUME NEW u \in Int
  PROVE  Within(u) \in (Lo * Unit)..(Hi * Unit)
BY TempControlConstants DEF Within, Unit

\* Rounding keeps a clamped quantity a duty between the limits, at most half
\* a duty away.
LEMMA RoundedDuty ==
  ASSUME NEW u \in (Lo * Unit)..(Hi * Unit)
  PROVE  /\ Rounded(u) \in Lo..Hi
         /\ 2 * Unit * Rounded(u) <= 2 * u + Unit
         /\ 2 * Unit * Rounded(u) >= 2 * u - Unit
<1> DEFINE q == u \div 2
           r == u % 2
<1>1. u \in Int /\ Lo \in Int /\ Hi \in Int BY TempControlConstants DEF Unit
<1>2. q \in Int /\ r \in 0..1 /\ u = 2 * q + r BY <1>1
<1>3. Rounded(u) = IF r = 0 \/ q % 2 = 0 THEN q ELSE q + 1 BY DEF Rounded, Unit
<1>4. 2 * Lo <= u /\ u <= 2 * Hi BY <1>1 DEF Unit
<1>. HIDE DEF q, r
<1>5. Rounded(u) \in {q, q + 1} /\ (r = 0 => Rounded(u) = q) BY <1>3
<1>. QED BY <1>1, <1>2, <1>4, <1>5 DEF Unit

\* The integrator stays between the limits whatever it was (no windup), and
\* the loop's output is a duty between the limits.
LEMMA LawBounded ==
  ASSUME NEW i \in Int, NEW kp \in Nat, NEW e \in Int, NEW dt \in Nat
  PROVE  /\ Integrated(i, kp, e, dt) \in (Lo * Unit)..(Hi * Unit)
         /\ Output(i, kp, e) \in Lo..Hi
<1>1. Ki \in Int /\ kp * e \in Int BY TempControlConstants
<1>2. Ki * e * dt \in Int BY <1>1
<1>3. i + Ki * e * dt \in Int /\ kp * e + i \in Int BY <1>1, <1>2
<1>4. Integrated(i, kp, e, dt) \in {Within(i), Within(i + Ki * e * dt)} BY DEF Integrated
<1>. QED BY <1>3, <1>4, WithinLimits, RoundedDuty DEF Output

\* The bumpless start: an integrator reset to a duty of the fan's range gives
\* that duty for the error it was reset with, when no limit is in the way.
THEOREM ResetGivesOutput ==
  ASSUME NEW output \in Lo..Hi, NEW kp \in Nat, NEW e \in Int,
         output * Unit - kp * e \in (Lo * Unit)..(Hi * Unit)
  PROVE  Output(Reset(output, kp, e), kp, e) = output
<1> DEFINE p == kp * e
<1>1. p \in Int /\ output \in Int /\ Lo \in Int /\ Hi \in Int BY TempControlConstants
<1>. HIDE DEF p
<1>2. output * Unit - p \in (Lo * Unit)..(Hi * Unit) BY DEF p
<1>3. Within(output * Unit - p) = output * Unit - p
  BY <1>1, <1>2 DEF Within, Unit
<1>4. p + (output * Unit - p) = output * Unit BY <1>1 DEF Unit
<1>5. Within(output * Unit) = output * Unit BY <1>1 DEF Within, Unit
<1>6. Rounded(output * Unit) = output BY <1>1 DEF Rounded, Unit
<1>. QED BY <1>3, <1>4, <1>5, <1>6 DEF Output, Reset, p

-----------------------------------------------------------------------------
(* Type correctness.                                                       *)

\* What a sample writes is a duty the register can hold.
LEMMA BlindDutyType ==
  ASSUME TypeOK
  PROVE  /\ BlindDuty \in 0..Hi
         /\ Larger(Lo, cfg.manual) \in 0..Hi
         /\ Larger(duty, Safe) \in 0..Hi
BY TempControlConstants DEF TypeOK, BlindDuty, Larger, Config

\* TypeOK in three parts, for the provers.
Quantities ==
  /\ duty \in 0..Hi /\ seen \in 0..Hi /\ left \in 0..Lease
  /\ lateWrite \in 0..Hi \cup {None}
  /\ integral \in (Lo * Unit)..(Hi * Unit)
  /\ fails \in 0..FaultSamples /\ work \in 0..MaxWork

Flags ==
  /\ leased \in BOOLEAN /\ needReset \in BOOLEAN /\ sawOff \in BOOLEAN
  /\ lateRelease \in BOOLEAN
  /\ guarded \in BOOLEAN /\ stripped \in BOOLEAN /\ stray \in BOOLEAN

Names ==
  /\ access \in {"up", "paused", "down"} /\ ctl \in {"down", "idle", "act"}
  /\ cfg \in Config /\ file \in Config \cup {None}
  /\ error \in Errors \cup {None}

LEMMA Parts == TypeOK <=> Quantities /\ Flags /\ Names
BY DEF TypeOK, Quantities, Flags, Names

LEMMA FlagsKept == TypeOK /\ [Next]_vars => Flags'
<1>. SUFFICES ASSUME TypeOK, [Next]_vars PROVE Flags' OBVIOUS
<1>0. Flags BY Parts
<1>. USE <1>0 DEF Flags, law, sample, lease, calls, history, Release, HandOver, Strip, Lands, Write
<1>1. CASE AccessDies BY <1>1 DEF AccessDies
<1>2. CASE AccessPauses BY <1>2 DEF AccessPauses
<1>3. CASE AccessResumes BY <1>3 DEF AccessResumes
<1>4. CASE Tick BY <1>4 DEF Tick
<1>5. CASE Lapse BY <1>5 DEF Lapse
<1>6. CASE Start BY <1>6 DEF Start
<1>7. CASE Stop BY <1>7 DEF Stop
<1>8. CASE Crash BY <1>8 DEF Crash
<1>9. CASE SampleRead BY <1>9 DEF SampleRead
<1>10. CASE SampleWrite BY <1>10 DEF SampleWrite
<1>11. ASSUME NEW s \in Settings, Set(s) PROVE Flags' BY <1>11 DEF Set
<1>12. CASE Poll BY <1>12 DEF Poll
<1>13. ASSUME NEW d \in 0..Hi, Poke(d) PROVE Flags' BY <1>13 DEF Poke
<1>14. CASE UNCHANGED vars BY <1>14 DEF vars
<1>15. CASE LateRelease BY <1>15 DEF LateRelease
<1>16. CASE LateWrite BY <1>16 DEF LateWrite
<1>. QED
  BY <1>1, <1>2, <1>3, <1>4, <1>5, <1>6, <1>7, <1>8, <1>9, <1>10, <1>11, <1>12, <1>13, <1>14, <1>15, <1>16
  DEF Next

LEMMA NamesKept == TypeOK /\ [Next]_vars => Names'
<1>. SUFFICES ASSUME TypeOK, [Next]_vars PROVE Names' OBVIOUS
<1>0. Names BY Parts
<1>1. Settings \subseteq Config /\ Default \in Config BY TempControlConstants DEF Config
<1>. USE <1>0 DEF Names, law, sample
<1>2. CASE AccessDies \/ AccessPauses \/ AccessResumes
  BY <1>2 DEF AccessDies, AccessPauses, AccessResumes
<1>3. CASE Tick \/ Lapse BY <1>3 DEF Tick, Lapse
<1>4. CASE Start BY <1>4, <1>1 DEF Start
<1>5. CASE Stop \/ Crash BY <1>5 DEF Stop, Crash
<1>6. CASE SampleRead BY <1>6 DEF SampleRead
<1>7. CASE SampleWrite BY <1>7 DEF SampleWrite
<1>8. ASSUME NEW s \in Settings, Set(s) PROVE Names' BY <1>8, <1>1 DEF Set
<1>9. CASE Poll BY <1>9 DEF Poll, Config
<1>10. ASSUME NEW d \in 0..Hi, Poke(d) PROVE Names' BY <1>10 DEF Poke
<1>11. CASE UNCHANGED vars BY <1>11 DEF vars
<1>12. CASE LateRelease \/ LateWrite BY <1>12 DEF LateRelease, LateWrite
<1>. QED
  BY <1>2, <1>3, <1>4, <1>5, <1>6, <1>7, <1>8, <1>9, <1>10, <1>11, <1>12 DEF Next

\* What the loop writes is a duty, and the integrator it leaves is in range.
LEMMA SampleWrites ==
  ASSUME TypeOK, SampleWrite
  PROVE  /\ integral' \in (Lo * Unit)..(Hi * Unit)
         /\ \E want \in 0..Hi : Write(want)
         /\ Regulating => Output(integral', cfg.kp, error) \in 0..Hi
<1>. USE TempControlConstants
<1>1. CASE Regulating
  <2>1. error \in Int /\ cfg.kp \in Nat BY <1>1 DEF TypeOK, Regulating, Config
  <2>2. PICK dt \in Dt :
          integral' = Integrated(IF needReset THEN Reset(seen, cfg.kp, error) ELSE integral,
                                 cfg.kp, error, dt)
    BY <1>1 DEF SampleWrite
  <2>3. seen * Unit - cfg.kp * error \in Int
    <3>1. cfg.kp * error \in Int BY <2>1
    <3>2. seen \in Int BY DEF TypeOK
    <3>. QED BY <3>1, <3>2 DEF Unit
  <2>4. Reset(seen, cfg.kp, error) \in Int /\ integral \in Int /\ dt \in Nat
    BY <2>3, WithinLimits DEF TypeOK, Reset, Unit
  <2>5. integral' \in (Lo * Unit)..(Hi * Unit) BY <2>1, <2>2, <2>4, LawBounded
  <2>6. integral' \in Int BY <2>5 DEF Unit
  <2>7. Output(integral', cfg.kp, error) \in Lo..Hi BY <2>1, <2>4, <2>6, LawBounded
  <2>8. Write(Output(integral', cfg.kp, error)) BY <1>1 DEF SampleWrite
  <2>9. Output(integral', cfg.kp, error) \in 0..Hi BY <2>7
  <2>. QED BY <2>5, <2>8, <2>9
<1>2. CASE ~Regulating
  <2>1. integral' = integral BY <1>2 DEF SampleWrite
  <2>2. Write(IF cfg.mode = "manual" THEN Larger(Lo, cfg.manual) ELSE BlindDuty)
    BY <1>2 DEF SampleWrite
  <2>. QED BY <1>2, <2>1, <2>2, BlindDutyType DEF TypeOK
<1>. QED BY <1>1, <1>2

LEMMA QuantitiesKept == TypeOK /\ [Next]_vars => Quantities'
<1>. SUFFICES ASSUME TypeOK, [Next]_vars PROVE Quantities' OBVIOUS
<1>0. Quantities BY Parts
<1>. USE <1>0, TempControlConstants DEF Quantities, law, sample, lease, calls, Use
<1>1. CASE AccessDies BY <1>1 DEF AccessDies, Strip
<1>2. CASE AccessPauses BY <1>2 DEF AccessPauses
<1>3. CASE AccessResumes BY <1>3 DEF AccessResumes
<1>4. CASE Tick BY <1>4 DEF Tick
<1>5. CASE Lapse BY <1>5, BlindDutyType DEF Lapse
<1>6. CASE Start BY <1>6 DEF Start, Release, Unit
<1>7. CASE Stop BY <1>7 DEF Stop
<1>8. CASE Crash BY <1>8, BlindDutyType DEF Crash
<1>9. CASE SampleRead BY <1>9 DEF SampleRead
<1>10. CASE SampleWrite
  <2>1. PICK want \in 0..Hi : Write(want) BY <1>10, SampleWrites
  <2>2. integral' \in (Lo * Unit)..(Hi * Unit) BY <1>10, SampleWrites
  <2>3. /\ duty' \in 0..Hi /\ left' \in 0..Lease
        /\ lateWrite' \in 0..Hi \cup {None} /\ work' \in 0..MaxWork
    BY <2>1 DEF Write, Lands
  <2>. QED BY <1>10, <2>2, <2>3 DEF SampleWrite
<1>11. ASSUME NEW s \in Settings, Set(s) PROVE Quantities' BY <1>11 DEF Set, Release
<1>12. CASE Poll BY <1>12 DEF Poll
<1>13. ASSUME NEW d \in 0..Hi, Poke(d) PROVE Quantities' BY <1>13 DEF Poke
<1>14. CASE UNCHANGED vars BY <1>14 DEF vars
<1>15. CASE LateRelease BY <1>15 DEF LateRelease, Strip
<1>16. CASE LateWrite BY <1>16 DEF LateWrite, Lands
<1>. QED
  BY <1>1, <1>2, <1>3, <1>4, <1>5, <1>6, <1>7, <1>8, <1>9, <1>10, <1>11, <1>12, <1>13, <1>14, <1>15, <1>16
  DEF Next

\* Every variable keeps its range - the duties that of the fan, the integrator
\* that of its output - whatever the settings, errors, stops and failures.
THEOREM TypeCorrect == Spec => []TypeOK
<1>1. Init => TypeOK
  <2>. SUFFICES ASSUME Init PROVE TypeOK OBVIOUS
  <2>1. Quantities BY TempControlConstants DEF Init, Quantities, Unit
  <2>2. Flags BY DEF Init, Flags
  <2>3. Names BY TempControlConstants DEF Init, Names, Config
  <2>. QED BY <2>1, <2>2, <2>3, Parts
<1>2. TypeOK /\ [Next]_vars => TypeOK'
  BY QuantitiesKept, FlagsKept, NamesKept, Parts DEF TypeOK, Quantities, Flags, Names
<1>. QED BY <1>1, <1>2, PTL DEF Spec

-----------------------------------------------------------------------------
(* Safety.                                                                 *)

\* The lock of the sample and the death of the leases with their process, as
\* an inductive invariant: no sample is under way in mode off, and a release
\* that no process answers has nothing to release.
OffInv ==
  /\ OffLeavesAlone
  /\ ctl = "act" => cfg.mode # "off"
  /\ access = "down" => ~leased /\ ~lateRelease /\ lateWrite = None

\* With the loop off no lease is left to fire, whether the release found the
\* process up, paused or dead - but for the lease that a release that timed out
\* did not take, or that a late write brought.
THEOREM OffIsOff == Spec => []OffLeavesAlone
<1>. USE DEF OffInv, OffLeavesAlone
<1>1. Init => OffInv BY DEF Init
<1>2. OffInv /\ [Next]_vars => OffInv'
  <2>. SUFFICES ASSUME OffInv, [Next]_vars PROVE OffInv' OBVIOUS
  <2>. USE DEF law, sample, lease, calls, history
  <2>1. CASE AccessDies BY <2>1 DEF AccessDies, Strip
  <2>2. CASE AccessPauses BY <2>2 DEF AccessPauses
  <2>3. CASE AccessResumes BY <2>3 DEF AccessResumes
  <2>4. CASE Tick BY <2>4 DEF Tick
  <2>5. CASE Lapse BY <2>5 DEF Lapse
  <2>6. CASE Start BY <2>6 DEF Start, Release, HandOver
  <2>7. CASE Stop BY <2>7 DEF Stop
  <2>8. CASE Crash BY <2>8 DEF Crash
  <2>9. CASE SampleRead BY <2>9 DEF SampleRead
  <2>10. CASE SampleWrite
    <3>1. PICK want : Write(want) BY <2>10 DEF SampleWrite
    <3>. QED BY <2>10, <3>1 DEF SampleWrite, Write, Lands
  <2>11. ASSUME NEW s \in Settings, Set(s) PROVE OffInv' BY <2>11 DEF Set, Release, HandOver
  <2>12. CASE Poll BY <2>12 DEF Poll
  <2>13. ASSUME NEW d \in 0..Hi, Poke(d) PROVE OffInv' BY <2>13 DEF Poke
  <2>14. CASE UNCHANGED vars BY <2>14 DEF vars
  <2>15. CASE LateRelease BY <2>15 DEF LateRelease, Strip
  <2>16. CASE LateWrite BY <2>16 DEF LateWrite, Lands
  <2>. QED
    BY <2>1, <2>2, <2>3, <2>4, <2>5, <2>6, <2>7, <2>8, <2>9, <2>10, <2>11, <2>12, <2>13, <2>14, <2>15, <2>16
    DEF Next
<1>3. OffInv => OffLeavesAlone OBVIOUS
<1>. QED BY <1>1, <1>2, <1>3, PTL DEF Spec

\* A duty the loop wrote and did not hand over is under its lease, or the fan has
\* been raised, or the lease was lost with the register process or to a late
\* release - whenever the loop, the web process and the register process stop,
\* crash, time out or pause.
THEOREM Attended == Spec => []UnattendedIsSafe
<1>. USE DEF UnattendedIsSafe
<1>1. Init => UnattendedIsSafe BY DEF Init
<1>2. TypeOK /\ UnattendedIsSafe /\ [Next]_vars => UnattendedIsSafe'
  <2>. SUFFICES ASSUME TypeOK, UnattendedIsSafe, [Next]_vars PROVE UnattendedIsSafe' OBVIOUS
  <2>0. duty \in Int /\ Safe \in Int BY TempControlConstants DEF TypeOK
  <2>. USE DEF law, sample, lease, calls, history
  <2>1. CASE AccessDies BY <2>1 DEF AccessDies, Strip
  <2>2. CASE AccessPauses BY <2>2 DEF AccessPauses
  <2>3. CASE AccessResumes BY <2>3 DEF AccessResumes
  <2>4. CASE Tick BY <2>4 DEF Tick
  <2>5. CASE Lapse
    <3>1. duty' >= Safe BY <2>0, <2>5 DEF Lapse, Larger
    <3>. QED BY <3>1
  <2>6. CASE Start BY <2>6 DEF Start, Release, HandOver
  <2>7. CASE Stop BY <2>7 DEF Stop
  <2>8. CASE Crash
    <3>1. duty' = duty \/ duty' >= Safe BY <2>0, <2>8 DEF Crash, Larger
    <3>. QED BY <2>8, <3>1 DEF Crash
  <2>9. CASE SampleRead BY <2>9 DEF SampleRead
  <2>10. CASE SampleWrite
    <3>1. PICK want : Write(want) BY <2>10 DEF SampleWrite
    <3>. QED BY <3>1 DEF Write, Lands
  <2>11. ASSUME NEW s \in Settings, Set(s) PROVE UnattendedIsSafe' BY <2>11 DEF Set, Release, HandOver
  <2>12. CASE Poll BY <2>12 DEF Poll
  <2>13. ASSUME NEW d \in 0..Hi, Poke(d) PROVE UnattendedIsSafe' BY <2>13 DEF Poke
  <2>14. CASE UNCHANGED vars BY <2>14 DEF vars
  <2>15. CASE LateRelease BY <2>15 DEF LateRelease, Strip
  <2>16. CASE LateWrite BY <2>16 DEF LateWrite, Lands
  <2>. QED
    BY <2>1, <2>2, <2>3, <2>4, <2>5, <2>6, <2>7, <2>8, <2>9, <2>10, <2>11, <2>12, <2>13, <2>14, <2>15, <2>16
    DEF Next
<1>. QED BY <1>1, <1>2, TypeCorrect, PTL DEF Spec

\* The output moves off its limit as soon as the proportional part is worth a
\* duty: the integrator never holds more than the limits.
LEMMA OutputMoves ==
  ASSUME NEW i \in (Lo * Unit)..(Hi * Unit), NEW kp \in Nat, NEW e \in Int
  PROVE  /\ kp * e >= Unit => Output(i, kp, e) > Lo
         /\ kp * e <= -Unit => Output(i, kp, e) < Hi
<1> DEFINE p == kp * e
<1>1. p \in Int /\ i \in Int /\ Lo \in Int /\ Hi \in Int /\ Lo + 2 <= Hi
  BY TempControlConstants DEF Unit
<1>. HIDE DEF p
<1>2. 2 * Lo <= i /\ i <= 2 * Hi BY <1>1 DEF Unit
<1>3. Within(p + i) \in (Lo * Unit)..(Hi * Unit) BY <1>1, WithinLimits
<1>4. Rounded(Within(p + i)) \in Int
      /\ 4 * Rounded(Within(p + i)) <= 2 * Within(p + i) + 2
      /\ 4 * Rounded(Within(p + i)) >= 2 * Within(p + i) - 2
  BY <1>1, <1>3, RoundedDuty DEF Unit
<1>5. p >= 2 => Within(p + i) >= 2 * Lo + 2 BY <1>1, <1>2 DEF Within, Unit
<1>6. p <= -2 => Within(p + i) <= 2 * Hi - 2 BY <1>1, <1>2 DEF Within, Unit
<1>7. Within(p + i) \in Int BY <1>3 DEF Unit
<1>8. p >= 2 => Rounded(Within(p + i)) > Lo BY <1>1, <1>4, <1>5, <1>7
<1>9. p <= -2 => Rounded(Within(p + i)) < Hi BY <1>1, <1>4, <1>6, <1>7
<1>. QED BY <1>8, <1>9 DEF Output, Unit, p

\* No windup, for every gain, error and time between two samples.
THEOREM LimitsAreLeft == Spec => NoWindup
<1>1. TypeOK /\ [Next]_vars =>
        [Regulates => /\ cfg.kp * error >= Unit => duty' > Lo
                      /\ cfg.kp * error <= -Unit => duty' < Hi]_vars
  <2>. SUFFICES ASSUME TypeOK, Next, Regulates
                PROVE  /\ cfg.kp * error >= Unit => duty' > Lo
                       /\ cfg.kp * error <= -Unit => duty' < Hi
    OBVIOUS
  <2>1. ctl = "act" /\ ctl' = "idle" /\ access = "up" /\ Regulating /\ lateWrite' = lateWrite
    BY DEF Regulates
  <2>2. SampleWrite
    <3>. USE <2>1
    <3>1. ~(AccessDies \/ AccessPauses \/ AccessResumes \/ Tick \/ Lapse)
      BY DEF AccessDies, AccessPauses, AccessResumes, Tick, Lapse
    <3>2. ~(Start \/ Stop \/ Crash \/ SampleRead \/ Poll)
      BY DEF Start, Stop, Crash, SampleRead, Poll
    <3>3. ~(\E s \in Settings : Set(s)) /\ ~(\E d \in 0..Hi : Poke(d)) BY DEF Set, Poke
    <3>4. ~(LateRelease \/ LateWrite) BY DEF LateRelease, LateWrite
    <3>. QED BY <3>1, <3>2, <3>3, <3>4 DEF Next
  <2>3. duty' = Output(integral', cfg.kp, error)
    <3>1. Output(integral', cfg.kp, error) # None
      BY <2>1, <2>2, SampleWrites, TempControlConstants
    <3>. QED BY <2>1, <2>2, <3>1 DEF SampleWrite, Write, Lands
  <2>4. integral' \in (Lo * Unit)..(Hi * Unit) BY <2>2, SampleWrites
  <2>5. cfg.kp \in Nat /\ error \in Int
    BY <2>1, TempControlConstants DEF TypeOK, Config, Regulating
  <2>6. PICK i \in (Lo * Unit)..(Hi * Unit) : i = integral' BY <2>4
  <2>7. PICK kp \in Nat : kp = cfg.kp BY <2>5
  <2>8. PICK e \in Int : e = error BY <2>5
  <2>. QED BY <2>3, <2>6, <2>7, <2>8, OutputMoves
<1>. QED BY <1>1, TypeCorrect, PTL DEF Spec, NoWindup
=============================================================================
