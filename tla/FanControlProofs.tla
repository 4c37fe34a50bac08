-------------------------- MODULE FanControlProofs --------------------------
(***************************************************************************)
(* Proofs about FanControl, for any set of duties, any kick and any delays *)
(* (0 included): every invariant that the run fan_control checks.          *)
(*                                                                         *)
(* None is inductive by itself.  What makes them so is one invariant in    *)
(* four parts: the pulses xact_start and xact_done and the flag xact_busy  *)
(* exclude each other (Turns); the state of the sequencer says what the    *)
(* transaction is about (Aim); the step of the transaction says what the   *)
(* master is at, where the chip is in the frame and what it has taken      *)
(* (Leaving, Progress); and the end of a transaction says what came of it  *)
(* (Outcome).                                                              *)
(***************************************************************************)
EXTENDS FanControl, TLAPS

Waiting == {"config", "write_duty", "poll"}

\* No delay passes its end.
Delays ==
  /\ state = "por_wait" => delay \in 0..PorCycles
  /\ state = "error_wait" => delay \in 0..PorCycles
  /\ state = "kick_wait" => delay \in 0..KickCycles
  /\ state = "poll_wait" => delay \in 0..PollCycles

\* A state that waits has one of the request, the transaction and its end;
\* the others have none.
Turns ==
  /\ state \in Waiting => xactStart \/ xactBusy \/ xactDone
  /\ state \notin Waiting => ~xactStart /\ ~xactBusy /\ ~xactDone
  /\ ~(xactStart /\ xactBusy) /\ ~(xactStart /\ xactDone) /\ ~(xactBusy /\ xactDone)

Aim ==
  /\ state = "config" =>
       xact.kind = "write" /\ xact.reg = Config[cfgIndex] /\ xact.data = "set"
  /\ state = "write_duty" => xact.kind = "write" /\ xact.reg = "dcy"
  /\ state = "poll" => xact.kind = "read" /\ xact.reg = Polled[pollIndex]

\* The master is asked for op or at it (a byte b goes with a write), or it is
\* at nothing.
AtWork(op) ==
  \/ i2cReq /\ master = "idle" /\ i2cOp = op
  \/ ~i2cReq /\ master = op
Carries(b) == IF i2cReq THEN i2cWrData = b ELSE shiftOut = b /\ ~ackErr
AtRest == ~i2cReq /\ master \in {"idle", "done"}

\* Between two transactions, before the first operation of one and when it is
\* aborted, nothing is left to do but a STOP.
Leaving ==
  /\ ~xactBusy \/ xactStep = 0 \/ xactAbort =>
       AtWork("stop") \/ (AtRest /\ frame = "free")
  /\ ~xactBusy => xactStep = 0 /\ ~xactAbort
  /\ xactBusy => ~xactErr
  /\ xactBusy => IF xact.kind = "write" THEN xactStep < 5 ELSE xactStep < 7
  /\ xactBusy /\ xactStep = 0 => ~nacked /\ ~checkAck /\ ~xactAbort
  /\ xactAbort => nacked

\* An operation without an acknowledge takes the frame from before to after.
Doing(op, before, after) ==
  /\ ~checkAck /\ ~nacked
  /\ (AtWork(op) /\ frame = before) \/ (AtRest /\ frame = after)

\* So does a byte, unless it is not acknowledged.
Sending(b, before, after) ==
  /\ checkAck
  /\ \/ AtWork("write") /\ Carries(b) /\ frame = before /\ ~nacked
     \/ AtRest /\ frame = after /\ ~ackErr /\ ~nacked
     \/ AtRest /\ frame = "off" /\ ackErr /\ nacked

Progress ==
  xactBusy /\ ~xactAbort =>
    /\ xactStep = 1 => Doing("start", "free", "addr")
    /\ xactStep = 2 => Sending("addr_write", "addr", "pointer")
    /\ xactStep = 3 => Sending(xact.reg, "pointer", "data")
    /\ xactStep = 4 => IF xact.kind = "write" THEN Sending(xact.data, "data", "data")
                                              ELSE Doing("start", "data", "addr")
    /\ xactStep = 5 => Sending("addr_read", "addr", "read")
    /\ xactStep = 6 => Doing("read", "read", "sent")

\* What the chip has taken, or given, by then.
Taken ==
  xactBusy /\ ~xactAbort /\ ~nacked =>
    /\ xactStep > 3 \/ (xactStep = 3 /\ AtRest) => pointer = xact.reg
    /\ xact.kind = "write" /\ xactStep = 4 /\ AtRest => file[xact.reg] = xact.data
    /\ xactStep = 6 /\ AtRest => rdData = xact.reg

Outcome ==
  /\ ErrorsAreNacks
  /\ (xactDone /\ xactErr) \/ state = "error_wait" =>
       frame = "free" /\ master = "idle" /\ ~i2cReq
  /\ xactDone /\ ~xactErr =>
       IF xact.kind = "write" THEN file[xact.reg] = xact.data ELSE xactRdata = xact.reg

\* The settings before the one being written are in place.
Settings ==
  /\ ConfigLast /\ DutyShown /\ ReadbacksMatch
  /\ state = "config" => \A j \in DOMAIN Config : j < cfgIndex => file[Config[j]] = "set"

BusInv == Leaving /\ Progress /\ Taken

IInv == TypeOK /\ Delays /\ Turns /\ Aim /\ BusInv /\ Outcome /\ Settings

-----------------------------------------------------------------------------
LEMMA Tables ==
  /\ DOMAIN Config = 1..4 /\ Len(Config) = 4
  /\ Config[1] = "config2" /\ Config[2] = "config4"
  /\ Config[3] = "fanchar" /\ Config[4] = "config1"
  /\ DOMAIN Polled = 1..4 /\ Len(Polled) = 4
  /\ Polled[1] = "devid" /\ Polled[2] = "status1"
  /\ Polled[3] = "tach_l" /\ Polled[4] = "tach_h"
BY DEF Config, Polled

LEMMA RegisterNames ==
  Register = {"config1", "config2", "config4", "fanchar", "dcy",
              "devid", "status1", "tach_l", "tach_h"}
<1>1. {Polled[i] : i \in DOMAIN Polled} = {"devid", "status1", "tach_l", "tach_h"}
  BY Tables
<1> QED
  BY <1>1 DEF Register, Settable

LEMMA Delaying == DelayMax \in Nat /\ PorCycles <= DelayMax
                  /\ KickCycles <= DelayMax /\ PollCycles <= DelayMax
BY FanControlConstants DEF DelayMax, Max

\* The operations of the two kinds of transaction.
LEMMA WriteScript ==
  xact.kind = "write" =>
    /\ Len(Script) = 5
    /\ Script[1].op = "start"
    /\ Script[2].op = "write" /\ Script[2].byte = "addr_write"
    /\ Script[3].op = "write" /\ Script[3].byte = xact.reg
    /\ Script[4].op = "write" /\ Script[4].byte = xact.data
    /\ Script[5].op = "stop"
BY DEF Script, Start, Write, Stop

LEMMA ReadScript ==
  xact.kind # "write" =>
    /\ Len(Script) = 7
    /\ Script[1].op = "start"
    /\ Script[2].op = "write" /\ Script[2].byte = "addr_write"
    /\ Script[3].op = "write" /\ Script[3].byte = xact.reg
    /\ Script[4].op = "start"
    /\ Script[5].op = "write" /\ Script[5].byte = "addr_read"
    /\ Script[6].op = "read"
    /\ Script[7].op = "stop"
BY DEF Script, Start, Write, ReadByte, Stop

-----------------------------------------------------------------------------
\* A request begins a transaction, which ends with a pulse.
LEMMA TransactionTurns ==
  ASSUME TypeOK, Turns, Transaction
  PROVE  /\ xactStart => xactBusy' /\ ~xactDone'
         /\ ~xactStart /\ ~xactBusy => ~xactBusy' /\ ~xactDone'
         /\ xactBusy => (xactBusy' <=> ~xactDone')
<1>1. CASE Wait
  BY <1>1 DEF Wait, Proceed, TypeOK, Turns
<1>2. CASE ReleaseBus
  BY <1>2 DEF ReleaseBus, Ready, Proceed, TypeOK, Turns
<1>3. CASE EndAborted
  BY <1>3 DEF EndAborted, Ready, Proceed, TypeOK, Turns
<1>4. CASE Issue
  BY <1>4 DEF Issue, Ready, Proceed, TypeOK, Turns
<1> QED
  BY <1>1, <1>2, <1>3, <1>4 DEF Transaction

\* Until a transaction has ended the sequencer does nothing.
LEMMA SequencerWaits ==
  ASSUME Sequencer, state \in Waiting, ~xactDone
  PROVE  /\ state' = state /\ ~xactStart' /\ UNCHANGED <<xact, delay>>
         /\ UNCHANGED <<dutyWritten, kickDone, initDone, i2cError, shown, cfgIndex, pollIndex>>
BY DEF Sequencer, Waiting, Delay, PorDone, Busy, Fail, NextConfig, Configured, Kicked,
       KickDone, DutyDone, PollDone, WriteSetpoint, NextPoll, Retry, Ended, NoStart, Goto,
       outputs, indices

\* A state that waits is entered with a request, and no other.
LEMMA SequencerTurns ==
  ASSUME Sequencer, state \notin Waiting \/ xactDone
  PROVE  state' \in Waiting <=> xactStart'
BY Tables DEF Sequencer, Waiting, Delay, PorDone, Busy, Fail, NextConfig, Configured, Kicked,
       KickDone, DutyDone, PollDone, WriteSetpoint, NextPoll, Retry, Ended, NoStart, Goto,
       StartWrite, StartRead

LEMMA TurnsStep ==
  ASSUME TypeOK, Turns, Edge
  PROVE  Turns'
<1>1. CASE state \in Waiting /\ ~xactDone
  BY <1>1, SequencerWaits, TransactionTurns DEF Turns, Edge
<1>2. CASE state \notin Waiting \/ xactDone
  BY <1>2, SequencerTurns, TransactionTurns DEF Turns, Edge
<1> QED
  BY <1>1, <1>2

LEMMA AimStep ==
  ASSUME TypeOK, Turns, Aim, Sequencer
  PROVE  Aim'
<1>1. CASE state \in Waiting /\ ~xactDone
  BY <1>1, SequencerWaits DEF Aim
<1>2. CASE state \notin Waiting \/ xactDone
  <2>1. CASE PorDone \/ Retry
    BY <2>1 DEF PorDone, Retry, Goto, StartWrite, Aim
  <2>2. CASE NextConfig
    BY <2>2 DEF NextConfig, Ended, Goto, StartWrite, Aim
  <2>3. CASE Configured \/ KickDone \/ WriteSetpoint
    BY <2>3 DEF Configured, KickDone, WriteSetpoint, Goto, StartWrite, Aim
  <2>4. CASE DutyDone \/ NextPoll
    BY <2>4 DEF DutyDone, NextPoll, Goto, StartRead, Aim
  <2>5. CASE PollDone
    BY <2>5 DEF PollDone, Ended, Goto, StartRead, Aim
  <2>6. CASE Fail \/ Kicked
    BY <2>6 DEF Fail, Kicked, Goto, Aim
  <2>7. CASE \/ Delay("por_wait", PorCycles) \/ Delay("kick_wait", KickCycles)
             \/ Delay("poll_wait", PollCycles) \/ Delay("error_wait", PorCycles)
    BY <2>7 DEF Delay, Goto, Aim
  <2> QED
    BY <1>2, <2>1, <2>2, <2>3, <2>4, <2>5, <2>6, <2>7 DEF Sequencer, Busy, Waiting
<1> QED
  BY <1>1, <1>2

LEMMA DelaysStep ==
  ASSUME TypeOK, Delays, Sequencer
  PROVE  Delays' /\ delay' \in 0..DelayMax
<1> USE FanControlConstants, Delaying
<1>1. CASE Delay("por_wait", PorCycles)
  BY <1>1 DEF Delay, Goto, Over, Delays, TypeOK
<1>2. CASE Delay("kick_wait", KickCycles)
  BY <1>2 DEF Delay, Goto, Over, Delays, TypeOK
<1>3. CASE Delay("poll_wait", PollCycles)
  BY <1>3 DEF Delay, Goto, Over, Delays, TypeOK
<1>4. CASE Delay("error_wait", PorCycles)
  BY <1>4 DEF Delay, Goto, Over, Delays, TypeOK
<1>5. CASE \/ PorDone \/ Busy \/ Fail \/ NextConfig \/ Configured \/ Kicked \/ KickDone
           \/ DutyDone \/ WriteSetpoint \/ NextPoll \/ Retry
  BY <1>5 DEF PorDone, Busy, Fail, NextConfig, Configured, Kicked, KickDone, DutyDone,
              WriteSetpoint, NextPoll, Retry, Ended, Goto, Delays, TypeOK
<1>6. CASE PollDone
  BY <1>6 DEF PollDone, Ended, Goto, Delays, TypeOK
<1> QED
  BY <1>1, <1>2, <1>3, <1>4, <1>5, <1>6 DEF Sequencer

-----------------------------------------------------------------------------
\* The operation that each step of a transaction issues.
LEMMA Issued ==
  ASSUME TypeOK, Turns, Leaving, Issue
  PROVE  /\ xactBusy /\ ~xactStart /\ ~xactAbort /\ ~i2cReq /\ master = "idle"
         /\ ~(checkAck /\ ackErr)
         /\ i2cReq' /\ ~xactErr' /\ ~xactAbort' /\ (checkAck' <=> i2cOp' = "write")
         /\ IF xactStep = (IF xact.kind = "write" THEN 4 ELSE 6)
              THEN xactDone' /\ ~xactBusy' /\ xactStep' = 0 /\ i2cOp' = "stop"
              ELSE ~xactDone' /\ xactBusy' /\ xactStep' = xactStep + 1
         /\ xactStep = 0 => i2cOp' = "start"
         /\ xactStep = 1 => i2cOp' = "write" /\ i2cWrData' = "addr_write"
         /\ xactStep = 2 => i2cOp' = "write" /\ i2cWrData' = xact.reg
         /\ xactStep = 3 => IF xact.kind = "write"
                              THEN i2cOp' = "write" /\ i2cWrData' = xact.data
                              ELSE i2cOp' = "start"
         /\ xactStep = 4 /\ xact.kind # "write" => i2cOp' = "write" /\ i2cWrData' = "addr_read"
         /\ xactStep = 5 => i2cOp' = "read"
         /\ i2cOp' # "write" => i2cWrData' = i2cWrData
         /\ xactRdata' = IF xact.kind = "read" /\ xactStep = 6 THEN rdData ELSE xactRdata
<1>1. xactBusy /\ ~xactStart /\ ~xactAbort /\ ~i2cReq /\ master = "idle"
      /\ ~(checkAck /\ ackErr) /\ i2cReq' = TRUE /\ ~xactErr
  BY DEF Issue, Ready, Turns, Leaving, TypeOK
<1>2. IF xactStep + 1 = Len(Script)
        THEN xactDone' /\ ~xactBusy' /\ xactStep' = 0
        ELSE ~xactDone' /\ xactBusy' /\ xactStep' = xactStep + 1
  BY <1>1 DEF Issue, Proceed
<1>3. /\ i2cOp' = Script[xactStep + 1].op
      /\ i2cOp' = "write" => i2cWrData' = Script[xactStep + 1].byte
      /\ i2cOp' # "write" => i2cWrData' = i2cWrData
      /\ checkAck' <=> i2cOp' = "write"
      /\ ~xactErr' /\ ~xactAbort'
  BY <1>1 DEF Issue, Proceed, Judged
<1>4. xactRdata' = IF xact.kind = "read" /\ xactStep = 6 THEN rdData ELSE xactRdata
  BY DEF Issue, Capture
<1>5. xactStep \in 0..6
  BY DEF TypeOK
<1>6. CASE xact.kind = "write"
  <2>1. xactStep < 5
    BY <1>1, <1>6 DEF Leaving
  <2>2. xactStep \in {0, 1, 2, 3, 4}
    BY <1>5, <2>1
  <2>3. CASE xactStep = 0
    BY <1>1, <1>2, <1>3, <1>4, <1>6, <2>3, WriteScript
  <2>4. CASE xactStep = 1
    BY <1>1, <1>2, <1>3, <1>4, <1>6, <2>4, WriteScript
  <2>5. CASE xactStep = 2
    BY <1>1, <1>2, <1>3, <1>4, <1>6, <2>5, WriteScript
  <2>6. CASE xactStep = 3
    BY <1>1, <1>2, <1>3, <1>4, <1>6, <2>6, WriteScript
  <2>7. CASE xactStep = 4
    BY <1>1, <1>2, <1>3, <1>4, <1>6, <2>7, WriteScript
  <2> QED
    BY <2>2, <2>3, <2>4, <2>5, <2>6, <2>7
<1>7. CASE xact.kind # "write"
  <2>2. xactStep \in {0, 1, 2, 3, 4, 5, 6}
    BY <1>5
  <2>3. CASE xactStep = 0
    BY <1>1, <1>2, <1>3, <1>4, <1>7, <2>3, ReadScript
  <2>4. CASE xactStep = 1
    BY <1>1, <1>2, <1>3, <1>4, <1>7, <2>4, ReadScript
  <2>5. CASE xactStep = 2
    BY <1>1, <1>2, <1>3, <1>4, <1>7, <2>5, ReadScript
  <2>6. CASE xactStep = 3
    BY <1>1, <1>2, <1>3, <1>4, <1>7, <2>6, ReadScript
  <2>7. CASE xactStep = 4
    BY <1>1, <1>2, <1>3, <1>4, <1>7, <2>7, ReadScript
  <2>8. CASE xactStep = 5
    BY <1>1, <1>2, <1>3, <1>4, <1>7, <2>8, ReadScript
  <2>9. CASE xactStep = 6
    BY <1>1, <1>2, <1>3, <1>4, <1>7, <2>9, ReadScript
  <2> QED
    BY <2>2, <2>3, <2>4, <2>5, <2>6, <2>7, <2>8, <2>9
<1> QED
  BY <1>6, <1>7

\* A write is at work only for the byte of its step.
LEMMA WritesStep ==
  ASSUME TypeOK, Leaving, Progress, master = "write"
  PROVE  /\ xactBusy /\ ~xactAbort /\ ~i2cReq /\ ~ackErr /\ ~nacked /\ checkAck
         /\ \/ xactStep = 2 /\ shiftOut = "addr_write" /\ frame = "addr"
            \/ xactStep = 3 /\ shiftOut = xact.reg /\ frame = "pointer"
            \/ xactStep = 4 /\ xact.kind = "write" /\ shiftOut = xact.data /\ frame = "data"
            \/ xactStep = 5 /\ xact.kind # "write" /\ shiftOut = "addr_read" /\ frame = "addr"
<1>1. xactBusy /\ ~xactAbort /\ xactStep # 0
  BY DEF Leaving, AtWork, AtRest
<1>2. xactStep \in 1..6 /\ (xact.kind = "write" => xactStep < 5)
  BY <1>1 DEF TypeOK, Leaving
<1>3. CASE xactStep = 1
  BY <1>1, <1>3 DEF Progress, Doing, AtWork, AtRest
<1>4. CASE xactStep = 2
  BY <1>1, <1>4 DEF Progress, Sending, Carries, AtWork, AtRest
<1>5. CASE xactStep = 3
  BY <1>1, <1>5 DEF Progress, Sending, Carries, AtWork, AtRest
<1>6. CASE xactStep = 4
  BY <1>1, <1>6 DEF Progress, Doing, Sending, Carries, AtWork, AtRest
<1>7. CASE xactStep = 5
  BY <1>1, <1>2, <1>7 DEF Progress, Sending, Carries, AtWork, AtRest
<1>8. CASE xactStep = 6
  BY <1>1, <1>8 DEF Progress, Doing, AtWork, AtRest
<1> QED
  BY <1>2, <1>3, <1>4, <1>5, <1>6, <1>7, <1>8

-----------------------------------------------------------------------------
(* Types.                                                                  *)

SequencerType ==
  /\ state \in States
  /\ cfgIndex \in DOMAIN Config /\ pollIndex \in DOMAIN Polled
  /\ dutyTarget \in Duty /\ dutyWritten \in Data \cup {"zero"}
  /\ kickDone \in BOOLEAN /\ initDone \in BOOLEAN /\ i2cError \in BOOLEAN
  /\ shown \in [DOMAIN Polled -> Byte \cup {"zero", "released"}]
  /\ xact \in [kind : {"idle", "write", "read"}, reg : Register, data : Data]
  /\ xactStart \in BOOLEAN

TransactionType ==
  /\ xactBusy \in BOOLEAN /\ xactDone \in BOOLEAN /\ xactErr \in BOOLEAN
  /\ xactAbort \in BOOLEAN /\ checkAck \in BOOLEAN
  /\ xactRdata \in Byte \cup {"zero", "released"}
  /\ xactStep \in 0..6
  /\ i2cReq \in BOOLEAN /\ i2cOp \in Ops /\ i2cWrData \in Byte

BusType ==
  /\ master \in Ops \cup {"idle", "done"}
  /\ shiftOut \in Byte /\ rdData \in Byte \cup {"zero", "released"} /\ ackErr \in BOOLEAN
  /\ frame \in Frames /\ pointer \in Register
  /\ file \in [Settable -> Data \cup {"default"}]
  /\ nacked \in BOOLEAN

LEMMA Types ==
  TypeOK <=> SequencerType /\ delay \in 0..DelayMax /\ TransactionType /\ BusType
BY DEF TypeOK, SequencerType, TransactionType, BusType

LEMMA StartTypes ==
  /\ \A i \in 1..4 : Config[i] \in Register /\ Polled[i] \in Register
  /\ "dcy" \in Register /\ "set" \in Data /\ Kick \in Data /\ Duty \subseteq Data
<1>1. \A i \in 1..4 : i = 1 \/ i = 2 \/ i = 3 \/ i = 4
  OBVIOUS
<1> QED
  BY <1>1, Tables, RegisterNames DEF Data

LEMMA SequencerTypeStep ==
  ASSUME TypeOK, Sequencer
  PROVE  SequencerType'
<1> USE Tables, StartTypes
<1> DEFINE Flags == kickDone \in BOOLEAN /\ initDone \in BOOLEAN /\ i2cError \in BOOLEAN
           Indices == cfgIndex \in DOMAIN Config /\ pollIndex \in DOMAIN Polled
           Duties == dutyTarget \in Duty /\ dutyWritten \in Data \cup {"zero"}
           Shown == shown \in [DOMAIN Polled -> Byte \cup {"zero", "released"}]
           Xact == xact \in [kind : {"idle", "write", "read"}, reg : Register, data : Data]
<1>0. SequencerType /\ dutyTarget' \in Duty
  BY Types DEF Sequencer
<1>1. Flags'
  BY <1>0 DEF SequencerType, Sequencer, Delay, PorDone, Busy, Fail, NextConfig, Configured,
              Kicked, KickDone, DutyDone, PollDone, WriteSetpoint, NextPoll, Retry, outputs
<1>2. Indices'
  BY <1>0 DEF SequencerType, Sequencer, Delay, PorDone, Busy, Fail, NextConfig, Configured,
              Kicked, KickDone, DutyDone, PollDone, WriteSetpoint, NextPoll, Retry, indices
<1>3. Xact' /\ Duties'
  <2> USE <1>0, <1>2 DEF SequencerType
  <2>1. CASE PorDone \/ Retry \/ NextConfig
    BY <2>1 DEF PorDone, Retry, NextConfig, StartWrite, outputs
  <2>2. CASE Configured \/ KickDone \/ WriteSetpoint
    BY <2>2 DEF Configured, KickDone, WriteSetpoint, StartWrite, outputs
  <2>3. CASE DutyDone \/ NextPoll
    BY <2>3 DEF DutyDone, NextPoll, Programmed, StartRead, outputs
  <2>4. CASE PollDone /\ pollIndex < 4
    BY <2>4 DEF PollDone, StartRead
  <2>5. CASE PollDone /\ pollIndex = 4
    BY <2>5 DEF PollDone, NoStart
  <2>6. CASE Fail \/ Kicked \/ Busy
    BY <2>6 DEF Fail, Kicked, Busy, NoStart, outputs
  <2>7. CASE \/ Delay("por_wait", PorCycles) \/ Delay("kick_wait", KickCycles)
             \/ Delay("poll_wait", PollCycles) \/ Delay("error_wait", PorCycles)
    BY <2>7 DEF Delay, NoStart, outputs
  <2> QED
    BY <2>1, <2>2, <2>3, <2>4, <2>5, <2>6, <2>7 DEF Sequencer
<1>4. Shown'
  BY <1>0, Types DEF SequencerType, TransactionType, Sequencer, Delay, PorDone, Busy, Fail,
              NextConfig, Configured, Kicked, KickDone, DutyDone, PollDone, WriteSetpoint,
              NextPoll, Retry, outputs
<1>5. state' \in States /\ xactStart' \in BOOLEAN
  BY <1>0 DEF SequencerType, States, Sequencer, Delay, PorDone, Busy, Fail, NextConfig,
              Configured, Kicked, KickDone, DutyDone, PollDone, WriteSetpoint, NextPoll,
              Retry, Goto, NoStart, StartWrite, StartRead
<1> QED
  BY <1>1, <1>2, <1>3, <1>4, <1>5 DEF SequencerType

LEMMA TransactionTypeStep ==
  ASSUME TypeOK, Turns, Leaving, Transaction
  PROVE  TransactionType'
<1>0. TransactionType
  BY Types
<1>1. /\ xactBusy' \in BOOLEAN /\ xactDone' \in BOOLEAN /\ xactErr' \in BOOLEAN
      /\ xactAbort' \in BOOLEAN /\ checkAck' \in BOOLEAN /\ i2cReq' \in BOOLEAN
  BY <1>0 DEF TransactionType, Transaction, Wait, ReleaseBus, EndAborted, Issue, Proceed, Judged
<1>2. CASE Wait \/ ReleaseBus \/ EndAborted
  <2>1. i2cOp' \in Ops /\ i2cWrData' \in Byte
    BY <1>0, <1>2 DEF TransactionType, Ops, Wait, ReleaseBus, EndAborted
  <2>2. xactStep' \in 0..6
    BY <1>0, <1>2 DEF TransactionType, Wait, ReleaseBus, EndAborted, Proceed
  <2>3. xactRdata' \in Byte \cup {"zero", "released"}
    BY <1>0, <1>2 DEF TransactionType, Wait, ReleaseBus, EndAborted
  <2> QED
    BY <1>1, <2>1, <2>2, <2>3 DEF TransactionType
<1>3. CASE Issue
  <2>1. xact.reg \in Byte /\ xact.data \in Byte
    BY DEF TypeOK, Byte
  <2>2. "addr_write" \in Byte /\ "addr_read" \in Byte
    BY DEF Byte
  <2>3. xactStep \in {0, 1, 2, 3, 4, 5, 6}
    BY <1>0 DEF TransactionType
  <2>4. xact.kind = "write" => xactStep < 5
    BY <1>3 DEF Leaving, Issue, Ready
  <2>5. i2cOp' \in Ops /\ i2cWrData' \in Byte /\ xactStep' \in 0..6
    BY <1>0, <1>3, <2>1, <2>2, <2>3, <2>4, Issued DEF TransactionType, Ops
  <2>6. xactRdata' \in Byte \cup {"zero", "released"}
    BY <1>3, Issued DEF TypeOK
  <2> QED
    BY <1>1, <2>5, <2>6 DEF TransactionType
<1> QED
  BY <1>2, <1>3 DEF Transaction

LEMMA BusTypeStep ==
  ASSUME TypeOK, Leaving, Progress, Edge
  PROVE  BusType'
<1>0. BusType /\ nacked' \in BOOLEAN
  BY Types DEF Edge
<1>1. i2cOp \in Ops /\ i2cWrData \in Byte
  BY Types DEF TransactionType
<1>2. CASE Idle \/ Request \/ Clocking \/ OpDone \/ StartStop
  BY <1>0, <1>1, <1>2 DEF BusType, bus, Ops, Frames, Idle, Request, Clocking, OpDone,
                          StartStop, EndOp
<1>3. CASE Acknowledged
  <2>1. frame = "pointer" => shiftOut \in Register
    BY <1>3, WritesStep DEF Acknowledged, EndOp, TypeOK
  <2>2. frame = "data" => shiftOut \in Data
    BY <1>3, WritesStep DEF Acknowledged, EndOp, TypeOK
  <2>3. pointer' \in Register /\ frame' \in Frames
    BY <1>0, <1>3, <2>1 DEF Acknowledged, BusType, Frames
  <2>4. file' \in [Settable -> Data \cup {"default"}]
    BY <1>0, <1>3, <2>2 DEF Acknowledged, BusType
  <2>5. master' \in Ops \cup {"idle", "done"} /\ shiftOut' = shiftOut /\ rdData' = rdData
    BY <1>3 DEF Acknowledged, EndOp
  <2>6. ackErr' \in BOOLEAN
    BY <1>3 DEF Acknowledged
  <2> QED
    BY <1>0, <2>3, <2>4, <2>5, <2>6 DEF BusType
<1>4. CASE NotAcknowledged
  BY <1>0, <1>4 DEF NotAcknowledged, EndOp, BusType, Frames
<1>5. CASE EndRead
  BY <1>0, <1>5 DEF EndRead, EndOp, BusType, Frames, Byte
<1> QED
  BY <1>2, <1>3, <1>4, <1>5 DEF Edge, Bus, OpEnds

LEMMA TypeStep ==
  ASSUME TypeOK, Delays, Turns, Leaving, Progress, Edge
  PROVE  TypeOK'
<1>1. SequencerType' /\ TransactionType' /\ BusType' /\ delay' \in 0..DelayMax
  BY SequencerTypeStep, TransactionTypeStep, BusTypeStep, DelaysStep DEF Edge
<1> QED
  BY <1>1 DEF TypeOK, SequencerType, TransactionType, BusType

-----------------------------------------------------------------------------
(* The bus.  What the master and the chip make of an operation while the   *)
(* transaction sequencer waits.                                            *)

LEMMA Resting ==
  ASSUME Bus, AtRest, ~i2cReq'
  PROVE  AtRest' /\ UNCHANGED <<frame, ackErr, rdData, pointer, file>>
BY DEF AtRest, Bus, Idle, Request, Clocking, OpDone, OpEnds, StartStop, Acknowledged,
       NotAcknowledged, EndRead, EndOp, bus, Ops

LEMMA Working ==
  ASSUME Bus, NEW op \in {"start", "stop", "read"}, AtWork(op), ~i2cReq', TypeOK
  PROVE  /\ UNCHANGED <<pointer, file>> /\ (ackErr' <=> ackErr)
         /\ \/ AtWork(op)' /\ UNCHANGED <<frame, rdData>>
            \/ AtRest' /\ op = "start" /\ frame' = "addr"
            \/ AtRest' /\ op = "stop" /\ frame' = "free"
            \/ AtRest' /\ op = "read" /\ frame # "read" /\ frame' = frame
            \/ AtRest' /\ op = "read" /\ frame = "read" /\ frame' = "sent" /\ rdData' = pointer
<1>1. CASE i2cReq
  BY <1>1 DEF AtWork, Bus, Idle, Request, Clocking, OpDone, OpEnds, StartStop, Acknowledged,
              NotAcknowledged, EndRead, EndOp, bus, Ops
<1>2. CASE ~i2cReq
  BY <1>2 DEF AtWork, AtRest, Bus, Idle, Request, Clocking, OpDone, OpEnds, StartStop,
              Acknowledged, NotAcknowledged, EndRead, EndOp, bus, Ops
<1> QED
  BY <1>1, <1>2

LEMMA Writing ==
  ASSUME Bus, AtWork("write"), NEW b, Carries(b), ~i2cReq', TypeOK
  PROVE  \/ AtWork("write")' /\ shiftOut' = b /\ ~ackErr' /\ UNCHANGED <<frame, pointer, file>>
         \/ ~i2cReq /\ shiftOut = b /\ Acknowledged
         \/ ~i2cReq /\ shiftOut = b /\ NotAcknowledged
<1>1. CASE i2cReq
  BY <1>1 DEF AtWork, Carries, Bus, Idle, Request, Clocking, OpDone, OpEnds, StartStop,
              Acknowledged, NotAcknowledged, EndRead, EndOp, bus, Ops
<1>2. CASE ~i2cReq
  BY <1>2 DEF AtWork, Carries, Bus, Idle, Request, Clocking, OpDone, OpEnds, StartStop,
              Acknowledged, NotAcknowledged, EndRead, EndOp, bus, Ops
<1> QED
  BY <1>1, <1>2

\* An operation that has ended was refused exactly when its acknowledge says so.
LEMMA Verdict ==
  ASSUME TypeOK, Leaving, Progress, xactBusy, ~xactAbort, AtRest
  PROVE  nacked <=> checkAck /\ ackErr
<1>1. xactStep \in {0, 1, 2, 3, 4, 5, 6}
  BY DEF TypeOK
<1>2. ~AtWork("write") /\ ~AtWork("start") /\ ~AtWork("read")
  BY DEF AtWork, AtRest
<1>3. CASE xactStep = 0
  BY <1>3 DEF Leaving
<1>4. CASE xactStep \in {1, 6}
  BY <1>2, <1>4 DEF Progress, Doing
<1>5. CASE xactStep \in {2, 3, 5}
  BY <1>2, <1>5 DEF Progress, Sending
<1>6. CASE xactStep = 4
  BY <1>2, <1>6 DEF Progress, Sending, Doing
<1> QED
  BY <1>1, <1>3, <1>4, <1>5, <1>6

\* While an operation is due or at work the transaction is about the same register.
LEMMA SameTransaction ==
  ASSUME TypeOK, Turns, Edge, xactBusy
  PROVE  UNCHANGED xact /\ ~xactStart
BY SequencerWaits DEF Turns, Edge

\* The sequencer issues the next operation with the bus at rest.
LEMMA ReadyBus ==
  ASSUME TypeOK, Turns, Edge, Ready
  PROVE  AtRest /\ UNCHANGED bus /\ (nacked' <=> nacked)
<1>1. master = "idle" /\ ~i2cReq
  BY DEF Ready
<1>2. UNCHANGED bus
  BY <1>1 DEF Edge, Bus, Idle, Request, Clocking, OpDone, OpEnds, StartStop, Acknowledged,
              NotAcknowledged, EndRead, EndOp, Ops
<1>3. nacked' <=> nacked
  BY <1>2, SameTransaction DEF Edge, Ready, bus
<1> QED
  BY <1>1, <1>2, <1>3 DEF AtRest

LEMMA LeavingStep ==
  ASSUME TypeOK, Turns, Leaving, Progress, Edge
  PROVE  Leaving'
<1>1. CASE Wait
  <2>1. ~i2cReq'
    BY <1>1 DEF Wait
  <2>2. ASSUME ~xactBusy \/ xactStep = 0 \/ xactAbort
        PROVE  AtWork("stop")' \/ (AtRest' /\ frame' = "free")
    BY <2>1, <2>2, Resting, Working DEF Leaving, Edge
  <2>3. CASE xactStart
    <3>1. ~xactBusy /\ xactBusy' /\ xactStep' = 0 /\ ~xactErr' /\ ~xactAbort' /\ ~checkAck'
      BY <1>1, <2>3 DEF Turns, Wait, Proceed
    <3>2. ~nacked'
      BY <2>3 DEF Edge
    <3> QED
      BY <2>2, <3>1, <3>2 DEF Leaving
  <2>4. CASE ~xactStart
    <3>1. (xactBusy' <=> xactBusy) /\ xactStep' = xactStep /\ (xactErr' <=> xactErr)
          /\ (xactAbort' <=> xactAbort) /\ (checkAck' <=> checkAck)
      BY <1>1, <2>4 DEF Wait, Proceed
    <3>2. nacked => nacked'
      BY <2>4 DEF Edge
    <3>3. xactBusy /\ xactStep = 0 => ~nacked'
      <4> HAVE xactBusy /\ xactStep = 0
      <4>1. ackErr' <=> ackErr
        BY <2>1, Resting, Working DEF Leaving, Edge
      <4> QED
        BY <4>1 DEF Leaving, Edge
    <3>4. xactBusy => xact' = xact
      BY SameTransaction
    <3> QED
      BY <2>2, <3>1, <3>2, <3>3, <3>4 DEF Leaving
  <2> QED
    BY <2>3, <2>4
<1>2. ASSUME Ready
      PROVE  xactBusy /\ ~xactStart /\ xact' = xact /\ AtRest /\ UNCHANGED bus
             /\ (nacked' <=> nacked)
  BY <1>2, ReadyBus, SameTransaction DEF Ready
<1>3. CASE ReleaseBus
  <2>1. Ready /\ nacked'
    BY <1>2, <1>3, Verdict DEF ReleaseBus
  <2>2. AtWork("stop")' /\ xactBusy' /\ ~xactErr' /\ xactStep' = xactStep /\ xactAbort' /\ xactStep # 0
    BY <1>2, <1>3, <2>1 DEF ReleaseBus, Ready, Proceed, Leaving, AtWork, bus
  <2> QED
    BY <1>2, <2>1, <2>2 DEF Leaving
<1>4. CASE EndAborted
  <2>1. Ready /\ ~xactBusy' /\ xactStep' = 0 /\ ~xactAbort'
    BY <1>2, <1>4 DEF EndAborted, Proceed
  <2>2. AtRest' /\ frame' = "free"
    BY <1>2, <1>4 DEF EndAborted, Ready, Leaving, AtWork, AtRest, bus
  <2> QED
    BY <2>1, <2>2 DEF Leaving
<1>5. CASE Issue
  <2>1. Ready
    BY <1>5 DEF Issue
  <2>2. ~xactErr' /\ ~xactAbort'
    BY <1>5, Issued
  <2>3. CASE xactStep = (IF xact.kind = "write" THEN 4 ELSE 6)
    BY <1>2, <1>5, <2>1, <2>2, <2>3, Issued DEF Leaving, AtWork, bus
  <2>4. CASE xactStep # (IF xact.kind = "write" THEN 4 ELSE 6)
    <3>1. xactBusy' /\ xactStep' = xactStep + 1 /\ xactStep \in 0..6
      BY <1>5, <2>4, Issued DEF TypeOK
    <3> QED
      BY <1>2, <2>1, <2>2, <2>4, <3>1 DEF Leaving
  <2> QED
    BY <2>3, <2>4
<1> QED
  BY <1>1, <1>3, <1>4, <1>5 DEF Edge, Transaction

LEMMA DoingWaits ==
  ASSUME TypeOK, Edge, Wait, ~xactStart, NEW op, NEW before, NEW after,
         \/ op = "start" /\ after = "addr"
         \/ op = "read" /\ before = "read" /\ after = "sent",
         Doing(op, before, after)
  PROVE  Doing(op, before, after)'
<1>1. ~i2cReq' /\ (checkAck' <=> checkAck)
  BY DEF Wait, Proceed
<1>2. CASE AtRest /\ frame = after
  <2>1. AtRest' /\ frame' = after /\ ackErr' = ackErr
    BY <1>1, <1>2, Resting DEF Edge
  <2> QED
    BY <1>1, <2>1 DEF Doing, Edge
<1>3. CASE AtWork(op) /\ frame = before
  <2>1. /\ ackErr' <=> ackErr
        /\ \/ AtWork(op)' /\ frame' = before
           \/ AtRest' /\ frame' = after
    BY <1>1, <1>3, Working DEF Edge
  <2> QED
    BY <1>1, <2>1 DEF Doing, Edge
<1> QED
  BY <1>2, <1>3 DEF Doing

LEMMA SendingWaits ==
  ASSUME TypeOK, Edge, Wait, ~xactStart, NEW b, NEW before, NEW after,
         \/ before = "addr" /\ b = "addr_write" /\ after = "pointer"
         \/ before = "addr" /\ b = "addr_read" /\ after = "read"
         \/ before = "pointer" /\ after = "data"
         \/ before = "data" /\ after = "data",
         Sending(b, before, after)
  PROVE  Sending(b, before, after)'
<1>1. ~i2cReq' /\ (checkAck' <=> checkAck)
  BY DEF Wait, Proceed
<1>2. CASE AtRest
  <2>1. AtRest' /\ frame' = frame /\ ackErr' = ackErr
    BY <1>1, <1>2, Resting DEF Edge
  <2>2. nacked' <=> nacked
    BY <2>1 DEF Edge
  <2>3. ~AtWork("write")
    BY <1>2 DEF AtRest, AtWork
  <2> QED
    BY <1>1, <2>1, <2>2, <2>3 DEF Sending
<1>3. CASE AtWork("write") /\ Carries(b) /\ frame = before /\ ~nacked
  <2>1. CASE AtWork("write")' /\ shiftOut' = b /\ ~ackErr' /\ frame' = frame
    <3>1. Carries(b)' /\ ~nacked'
      BY <1>1, <1>3, <2>1 DEF Carries, Edge
    <3> QED
      BY <1>1, <1>3, <2>1, <3>1 DEF Sending
  <2>2. CASE ~i2cReq /\ shiftOut = b /\ Acknowledged
    <3>1. AtRest' /\ ~ackErr' /\ frame' = after
      BY <1>1, <1>3, <2>2 DEF Acknowledged, EndOp, AtRest
    <3> QED
      BY <1>1, <1>3, <3>1 DEF Sending, Edge
  <2>3. CASE ~i2cReq /\ shiftOut = b /\ NotAcknowledged
    <3>1. AtRest' /\ ackErr' /\ frame' = "off"
      BY <1>1, <1>3, <2>3 DEF NotAcknowledged, EndOp, AtRest
    <3>2. ~ackErr
      BY <1>3, <2>3 DEF Carries
    <3> QED
      BY <1>1, <1>3, <3>1, <3>2 DEF Sending, Edge
  <2> QED
    BY <1>1, <1>3, <2>1, <2>2, <2>3, Writing DEF Edge
<1> QED
  BY <1>2, <1>3 DEF Sending

LEMMA ProgressStep ==
  ASSUME TypeOK, Turns, Leaving, Progress, Edge
  PROVE  Progress'
<1> SUFFICES ASSUME xactBusy', ~xactAbort' PROVE Progress'
  BY DEF Progress
<1>1. CASE Wait /\ xactStart
  BY <1>1 DEF Wait, Proceed, Progress
<1>2. CASE Wait /\ ~xactStart
  <2>1. xactBusy /\ ~xactAbort /\ xactStep' = xactStep
    BY <1>2 DEF Wait, Proceed
  <2>2. xact' = xact
    BY <2>1, SameTransaction
  <2>3. PICK reg, data : reg = xact.reg /\ data = xact.data
    OBVIOUS
  <2>4. xactStep = 1 => Doing("start", "free", "addr")'
    BY <1>2, <2>1, DoingWaits DEF Progress
  <2>5. xactStep = 2 => Sending("addr_write", "addr", "pointer")'
    BY <1>2, <2>1, SendingWaits DEF Progress
  <2>6. xactStep = 3 => Sending(reg, "pointer", "data")'
    BY <1>2, <2>1, <2>3, SendingWaits DEF Progress
  <2>7. xactStep = 4 => IF xact.kind = "write" THEN Sending(data, "data", "data")'
                                               ELSE Doing("start", "data", "addr")'
    BY <1>2, <2>1, <2>3, SendingWaits, DoingWaits DEF Progress
  <2>8. xactStep = 5 => Sending("addr_read", "addr", "read")'
    BY <1>2, <2>1, SendingWaits DEF Progress
  <2>9. xactStep = 6 => Doing("read", "read", "sent")'
    BY <1>2, <2>1, DoingWaits DEF Progress
  <2> QED
    BY <2>1, <2>2, <2>3, <2>4, <2>5, <2>6, <2>7, <2>8, <2>9 DEF Progress
<1>3. CASE ReleaseBus \/ EndAborted
  BY <1>3, SameTransaction DEF ReleaseBus, EndAborted, Ready, Proceed
<1>4. CASE Issue
  <2>1. /\ xactBusy /\ ~xactAbort /\ ~(checkAck /\ ackErr) /\ AtRest
        /\ master' = "idle" /\ i2cReq' /\ frame' = frame
    BY <1>4, Issued, ReadyBus DEF Issue, bus
  <2>2. ~nacked /\ ~nacked'
    BY <1>4, <2>1, Verdict, ReadyBus DEF Issue
  <2>3. xact' = xact /\ xactStep' = xactStep + 1 /\ xactStep \in {0, 1, 2, 3, 4, 5}
        /\ (xact.kind = "write" => xactStep < 4)
    BY <1>4, <2>1, Issued, SameTransaction DEF TypeOK, Leaving
  <2>4. AtWork(i2cOp)'
    BY <2>1 DEF AtWork
  <2>5. Carries(i2cWrData)'
    BY <2>1 DEF Carries
  <2>6. checkAck' <=> i2cOp' = "write"
    BY <1>4, Issued
  <2>7. ~AtWork("start") /\ ~AtWork("write") /\ ~AtWork("read") /\ ~AtWork("stop")
    BY <2>1 DEF AtRest, AtWork
  <2> USE <1>4, <2>1, <2>2, <2>3, <2>4, <2>5, <2>6, <2>7, Issued DEF Progress
  <2>8. CASE xactStep = 0
    BY <2>8 DEF Leaving, Doing
  <2>9. CASE xactStep = 1
    BY <2>9 DEF Doing, Sending
  <2>10. CASE xactStep = 2
    BY <2>10 DEF Sending
  <2>11. CASE xactStep = 3
    BY <2>11 DEF Sending, Doing
  <2>12. CASE xactStep = 4
    BY <2>12 DEF Sending, Doing
  <2>13. CASE xactStep = 5
    BY <2>13 DEF Sending, Doing
  <2> QED
    BY <2>8, <2>9, <2>10, <2>11, <2>12, <2>13
<1> QED
  BY <1>1, <1>2, <1>3, <1>4 DEF Edge, Transaction

LEMMA TakenStep ==
  ASSUME TypeOK, Turns, Aim, Leaving, Progress, Taken, Edge
  PROVE  Taken'
<1> SUFFICES ASSUME xactBusy', ~xactAbort', ~nacked' PROVE Taken'
  BY DEF Taken
<1>1. CASE Wait /\ xactStart
  BY <1>1 DEF Wait, Proceed, Taken
<1>2. CASE Wait /\ ~xactStart
  <2>1. xactBusy /\ ~xactAbort /\ xactStep' = xactStep /\ ~i2cReq' /\ ~nacked
    BY <1>2 DEF Wait, Proceed, Edge
  <2>2. xact' = xact
    BY <2>1, SameTransaction
  <2>3. CASE AtRest
    <3>1. UNCHANGED <<rdData, pointer, file>>
      BY <2>1, <2>3, Resting DEF Edge
    <3> QED
      BY <2>1, <2>2, <2>3, <3>1 DEF Taken
  <2>4. CASE ~AtRest
    <3>1. xactStep \in {0, 1, 2, 3, 4, 5, 6} /\ (xact.kind = "write" => xactStep < 5)
      BY <2>1 DEF TypeOK, Leaving
    <3>2. CASE xactStep \in {0, 1, 2}
      BY <2>1, <3>2 DEF Taken
    <3>3. CASE xactStep = 3
      <4>1. AtWork("write") /\ Carries(xact.reg) /\ frame = "pointer"
        BY <2>1, <2>4, <3>3 DEF Progress, Sending
      <4>2. AtRest' => Acknowledged \/ NotAcknowledged
        BY <2>1, <4>1, Writing DEF Edge, AtWork, AtRest
      <4>3. ~NotAcknowledged \/ ~AtRest'
        BY <1>2, <2>1, <4>1 DEF NotAcknowledged, EndOp, AtWork, Carries, Edge
      <4>4. AtRest' => pointer' = xact.reg
        BY <4>1, <4>2, <4>3 DEF Acknowledged, EndOp, AtWork, Carries
      <4> QED
        BY <2>1, <2>2, <3>3, <4>4 DEF Taken
    <3>4. CASE xactStep = 4 /\ xact.kind = "write"
      <4>1. AtWork("write") /\ Carries(xact.data) /\ frame = "data" /\ pointer = xact.reg
        BY <2>1, <2>4, <3>4 DEF Progress, Sending, Taken
      <4>2. pointer' = pointer
        BY <2>1, <4>1, Writing DEF Edge, Acknowledged, NotAcknowledged
      <4>3. AtRest' => Acknowledged \/ NotAcknowledged
        BY <2>1, <4>1, Writing DEF Edge, AtWork, AtRest
      <4>4. ~NotAcknowledged \/ ~AtRest'
        BY <1>2, <2>1, <4>1 DEF NotAcknowledged, EndOp, AtWork, Carries, Edge
      <4>5. xact.reg \in Settable
        BY <2>1, <3>4, Tables DEF Turns, Aim, Waiting, Settable, TypeOK
      <4>6. AtRest' => file' = [file EXCEPT ![xact.reg] = xact.data]
        BY <4>1, <4>3, <4>4 DEF Acknowledged, EndOp, AtWork, Carries
      <4>7. AtRest' => file'[xact.reg] = xact.data
        BY <4>5, <4>6 DEF TypeOK
      <4> QED
        BY <2>1, <2>2, <3>4, <4>1, <4>2, <4>7 DEF Taken
    <3>5. CASE xactStep = 4 /\ xact.kind # "write"
      <4>1. AtWork("start") /\ pointer = xact.reg
        BY <2>1, <2>4, <3>5 DEF Progress, Doing, Taken
      <4>2. pointer' = pointer
        BY <2>1, <4>1, Working DEF Edge
      <4> QED
        BY <2>1, <2>2, <3>5, <4>1, <4>2 DEF Taken
    <3>6. CASE xactStep = 5
      <4>1. AtWork("write") /\ Carries("addr_read") /\ frame = "addr" /\ pointer = xact.reg
        BY <2>1, <2>4, <3>6 DEF Progress, Sending, Taken
      <4>2. pointer' = pointer
        BY <2>1, <4>1, Writing DEF Edge, Acknowledged, NotAcknowledged
      <4> QED
        BY <2>1, <2>2, <3>1, <3>6, <4>1, <4>2 DEF Taken
    <3>7. CASE xactStep = 6
      <4>1. AtWork("read") /\ frame = "read" /\ pointer = xact.reg
        BY <2>1, <2>4, <3>7 DEF Progress, Doing, Taken
      <4>2. pointer' = pointer /\ (AtRest' => rdData' = pointer)
        BY <2>1, <4>1, Working DEF Edge, AtWork, AtRest
      <4> QED
        BY <2>1, <2>2, <3>1, <3>7, <4>1, <4>2 DEF Taken
    <3> QED
      BY <3>1, <3>2, <3>3, <3>4, <3>5, <3>6, <3>7
  <2> QED
    BY <2>3, <2>4
<1>3. CASE ReleaseBus \/ EndAborted
  BY <1>3, SameTransaction DEF ReleaseBus, EndAborted, Ready, Proceed
<1>4. CASE Issue
  <2>1. xactBusy /\ ~xactAbort /\ AtRest /\ ~AtRest' /\ UNCHANGED <<pointer, file, rdData>>
    BY <1>4, Issued, ReadyBus DEF Issue, bus, AtRest
  <2>2. ~nacked /\ xact' = xact /\ xactStep' = xactStep + 1 /\ xactStep \in 0..6
    BY <1>4, <2>1, ReadyBus, Issued, SameTransaction DEF Issue, TypeOK
  <2> QED
    BY <2>1, <2>2 DEF Taken
<1> QED
  BY <1>1, <1>2, <1>3, <1>4 DEF Edge, Transaction

-----------------------------------------------------------------------------
(* What a transaction leaves.                                              *)

LEMMA OutcomeStep ==
  ASSUME TypeOK, Turns, Aim, Leaving, Progress, Taken, Outcome, Edge
  PROVE  Outcome'
<1>1. CASE Wait
  <2>1. ~xactDone' /\ ~i2cReq'
    BY <1>1 DEF Wait
  <2>2. ASSUME state' = "error_wait"
        PROVE  frame' = "free" /\ master' = "idle"
    <3>1. state = "error_wait" \/ (xactDone /\ xactErr)
      BY <2>2 DEF Edge, Sequencer, Delay, PorDone, Busy, Fail, NextConfig, Configured, Kicked,
         KickDone, DutyDone, PollDone, WriteSetpoint, NextPoll, Retry, Ended, Goto
    <3>2. frame = "free" /\ master = "idle" /\ ~i2cReq
      BY <3>1 DEF Outcome
    <3> QED
      BY <3>2 DEF Edge, Bus, Idle, Request, Clocking, OpDone, OpEnds, StartStop, Acknowledged,
                  NotAcknowledged, EndRead, EndOp, Ops, bus
  <2> QED
    BY <2>1, <2>2 DEF Outcome, ErrorsAreNacks
<1>2. ASSUME Ready
      PROVE  xact' = xact /\ UNCHANGED bus /\ (nacked' <=> nacked) /\ state' # "error_wait"
             /\ xactBusy /\ ~xactStart /\ AtRest /\ master = "idle" /\ ~i2cReq
             /\ state \in Waiting
  BY <1>2, ReadyBus, SameTransaction, SequencerWaits DEF Ready, Turns, Waiting, Edge
<1>3. CASE ReleaseBus
  BY <1>2, <1>3 DEF ReleaseBus, Outcome, ErrorsAreNacks
<1>4. CASE EndAborted
  <2>1. Ready /\ xactAbort /\ ~i2cReq' /\ xactErr'
    BY <1>2, <1>4 DEF EndAborted, Proceed
  <2>2. nacked' /\ frame' = "free" /\ master' = "idle"
    BY <1>2, <2>1 DEF Leaving, AtWork, bus
  <2> QED
    BY <1>2, <2>1, <2>2 DEF Outcome, ErrorsAreNacks
<1>5. CASE Issue
  <2>1. Ready /\ ~xactErr' /\ ~xactAbort /\ ~(checkAck /\ ackErr)
    BY <1>5, Issued DEF Issue
  <2>2. ~nacked /\ ~nacked'
    BY <1>2, <2>1, Verdict
  <2>3. xactDone' => xactStep = (IF xact.kind = "write" THEN 4 ELSE 6)
    BY <1>5, Issued
  <2>4. xact.kind \in {"write", "read"}
    BY <1>2, <2>1 DEF Aim, Waiting
  <2>5. xactDone' /\ xact.kind = "write" => file'[xact.reg] = xact.data
    BY <1>2, <2>1, <2>2, <2>3 DEF Taken, bus
  <2>6. xactDone' /\ xact.kind # "write" => xactRdata' = xact.reg
    BY <1>2, <1>5, <2>1, <2>2, <2>3, <2>4, Issued DEF Taken
  <2> QED
    BY <1>2, <2>1, <2>2, <2>5, <2>6 DEF Outcome, ErrorsAreNacks
<1> QED
  BY <1>1, <1>3, <1>4, <1>5 DEF Edge, Transaction

\* Only a write under way changes a register of the chip, and its own.
LEMMA FileStep ==
  ASSUME TypeOK, Turns, Aim, Leaving, Progress, Taken, Edge
  PROVE  \/ file' = file
         \/ /\ xactBusy /\ xact.kind = "write" /\ state \in {"config", "write_duty"}
            /\ xact.reg \in Settable
            /\ file' = [file EXCEPT ![xact.reg] = xact.data]
<1>1. CASE Acknowledged
  <2>1. CASE frame = "data"
    <3>1. xactBusy /\ ~xactAbort /\ ~nacked /\ xactStep = 4 /\ xact.kind = "write"
          /\ shiftOut = xact.data
      BY <1>1, <2>1, WritesStep DEF Acknowledged, EndOp
    <3>2. pointer = xact.reg
      BY <3>1 DEF Taken
    <3>3. state \in {"config", "write_duty"}
      BY <3>1 DEF Turns, Waiting, Aim
    <3>4. xact.reg \in Settable
      BY <3>3, Tables DEF Aim, Settable, TypeOK
    <3> QED
      BY <1>1, <2>1, <3>1, <3>2, <3>3, <3>4 DEF Acknowledged
  <2> QED
    BY <1>1, <2>1 DEF Acknowledged
<1> QED
  BY <1>1 DEF Edge, Bus, Idle, Request, Clocking, OpDone, OpEnds, StartStop,
              NotAcknowledged, EndRead, EndOp, bus

LEMMA SettingsStep ==
  ASSUME TypeOK, Turns, Aim, Leaving, Progress, Taken, Outcome, Settings, Edge
  PROVE  Settings'
<1>1. \A i \in 1..4 : i = 1 \/ i = 2 \/ i = 3 \/ i = 4
  OBVIOUS
<1>2. ASSUME state = "config", xactBusy,
             file' = [file EXCEPT ![xact.reg] = xact.data], xact.reg \in Settable
      PROVE  /\ \A r \in Settable : file[r] = "set" => file'[r] = "set"
             /\ cfgIndex # 4 => file'["config1"] = file["config1"]
  BY <1>1, <1>2, Tables DEF Aim, Settable, TypeOK
<1>3. ASSUME state = "write_duty"
      PROVE  \A r \in Settable \ {"dcy"} : file'[r] = file[r]
  BY <1>3, FileStep DEF Aim, TypeOK, Settable
<1>4. state = "config" => \A r \in Settable : file[r] = "set" => file'[r] = "set"
  BY <1>2, FileStep
<1>5. ConfigLast'
  <2>1. CASE file' = file
    BY <2>1 DEF Settings, ConfigLast
  <2>2. CASE state = "write_duty"
    BY <1>3, <2>2 DEF Settings, ConfigLast, Settable
  <2>3. CASE state = "config" /\ xactBusy /\ xact.reg \in Settable
             /\ file' = [file EXCEPT ![xact.reg] = xact.data]
    <3>1. CASE cfgIndex = 4
      <4>1. \A r \in {"config2", "config4", "fanchar"} : file[r] = "set"
        BY <2>3, <3>1, Tables DEF Settings
      <4> QED
        BY <1>4, <2>3, <4>1 DEF ConfigLast, Settable
    <3>2. CASE cfgIndex # 4
      BY <1>2, <2>3, <3>2 DEF Settings, ConfigLast, Settable
    <3> QED
      BY <3>1, <3>2
  <2> QED
    BY <2>1, <2>2, <2>3, FileStep
<1>6. DutyShown'
  <2> SUFFICES ASSUME state' \in {"poll", "poll_wait"} PROVE file'["dcy"] = dutyWritten'
    BY DEF DutyShown
  <2>1. CASE DutyDone
    <3>1. ~xactBusy /\ file["dcy"] = xact.data
      BY <2>1 DEF DutyDone, Ended, Outcome, Aim, Turns
    <3> QED
      BY <2>1, <3>1, FileStep DEF DutyDone, Programmed
  <2>2. CASE ~DutyDone
    <3>1. state \in {"poll", "poll_wait"} /\ dutyWritten' = dutyWritten
      BY <2>2 DEF Edge, Sequencer, Delay, PorDone, Busy, Fail, NextConfig, Configured, Kicked,
         KickDone, PollDone, WriteSetpoint, NextPoll, Retry, Ended, Goto, outputs
    <3> QED
      BY <3>1, FileStep DEF Settings, DutyShown
  <2> QED
    BY <2>1, <2>2
<1>7. ReadbacksMatch'
  <2>1. CASE PollDone
    <3>1. xactRdata = Polled[pollIndex]
      BY <2>1 DEF PollDone, Ended, Outcome, Aim
    <3> QED
      BY <2>1, <3>1 DEF PollDone, Settings, ReadbacksMatch, TypeOK
  <2>2. CASE ~PollDone
    <3>1. shown' = shown
      BY <2>2 DEF Edge, Sequencer, Delay, PorDone, Busy, Fail, NextConfig, Configured, Kicked,
         KickDone, DutyDone, WriteSetpoint, NextPoll, Retry, outputs
    <3> QED
      BY <3>1 DEF Settings, ReadbacksMatch
  <2> QED
    BY <2>1, <2>2
<1>8. ASSUME state' = "config", NEW j \in DOMAIN Config, j < cfgIndex'
      PROVE  file'[Config[j]] = "set"
  <2>1. Config[j] \in Settable
    BY <1>1, Tables DEF Settable
  <2>2. CASE NextConfig
    <3>1. ~xactBusy /\ file[Config[cfgIndex]] = "set" /\ state = "config" /\ cfgIndex' = cfgIndex + 1
      BY <2>2 DEF NextConfig, Ended, Outcome, Aim, Turns
    <3>2. j < cfgIndex \/ j = cfgIndex
      BY <1>8, <3>1, Tables DEF TypeOK
    <3> QED
      BY <3>1, <3>2, FileStep DEF Settings
  <2>3. CASE PorDone \/ Retry
    BY <1>8, <2>3, Tables DEF PorDone, Retry
  <2>4. CASE ~NextConfig /\ ~PorDone /\ ~Retry
    <3>1. state = "config" /\ cfgIndex' = cfgIndex
      BY <1>8, <2>4 DEF Edge, Sequencer, Delay, Busy, Fail, Configured, Kicked, KickDone,
         DutyDone, PollDone, WriteSetpoint, NextPoll, Ended, Goto, indices
    <3> QED
      BY <1>4, <1>8, <2>1, <3>1 DEF Settings
  <2> QED
    BY <2>2, <2>3, <2>4
<1> QED
  BY <1>5, <1>6, <1>7, <1>8 DEF Settings

-----------------------------------------------------------------------------
LEMMA InitInv == Init => IInv
<1> SUFFICES ASSUME Init PROVE IInv
  OBVIOUS
<1> USE DEF Init
<1>1. SequencerType
  <2>1. cfgIndex \in DOMAIN Config /\ pollIndex \in DOMAIN Polled
    BY Tables
  <2>2. shown \in [DOMAIN Polled -> Byte \cup {"zero", "released"}]
    OBVIOUS
  <2>3. xact \in [kind : {"idle", "write", "read"}, reg : Register, data : Data]
    BY Tables, StartTypes
  <2> QED
    BY <2>1, <2>2, <2>3 DEF SequencerType, States
<1>2. delay \in 0..DelayMax
  BY Delaying
<1>3. TransactionType
  <2>1. /\ xactBusy \in BOOLEAN /\ xactDone \in BOOLEAN /\ xactErr \in BOOLEAN
        /\ xactAbort \in BOOLEAN /\ checkAck \in BOOLEAN /\ i2cReq \in BOOLEAN
    OBVIOUS
  <2> QED
    BY <2>1 DEF TransactionType, Ops, Byte
<1>4. BusType
  <2>1. ackErr \in BOOLEAN /\ nacked \in BOOLEAN
    OBVIOUS
  <2>2. pointer \in Register
    BY Tables, StartTypes
  <2>3. master \in Ops \cup {"idle", "done"} /\ frame \in Frames
        /\ shiftOut \in Byte /\ rdData \in Byte \cup {"zero", "released"}
    BY DEF Ops, Byte, Frames
  <2>4. file \in [Settable -> Data \cup {"default"}]
    OBVIOUS
  <2> QED
    BY <2>1, <2>2, <2>3, <2>4 DEF BusType
<1>5. Delays
  BY FanControlConstants DEF Delays
<1>6. Turns /\ Aim
  BY DEF Turns, Aim, Waiting
<1>7. BusInv
  BY DEF BusInv, Leaving, Progress, Taken, AtRest
<1>8. Outcome
  BY DEF Outcome, ErrorsAreNacks
<1>9. Settings
  BY DEF Settings, ConfigLast, DutyShown, ReadbacksMatch, Settable
<1> QED
  BY <1>1, <1>2, <1>3, <1>4, <1>5, <1>6, <1>7, <1>8, <1>9, Types DEF IInv

LEMMA StepInv == IInv /\ [Edge]_vars => IInv'
<1>1. ASSUME IInv, Edge PROVE IInv'
  <2>1. TypeOK' /\ Turns'
    BY <1>1, TypeStep, TurnsStep DEF IInv, BusInv
  <2>2. Delays' /\ Aim'
    BY <1>1, DelaysStep, AimStep DEF IInv, Edge
  <2>3. BusInv'
    BY <1>1, LeavingStep, ProgressStep, TakenStep DEF IInv, BusInv
  <2>4. Outcome' /\ Settings'
    BY <1>1, OutcomeStep, SettingsStep DEF IInv, BusInv
  <2> QED
    BY <2>1, <2>2, <2>3, <2>4 DEF IInv
<1>2. ASSUME IInv, UNCHANGED vars PROVE IInv'
  BY <1>2 DEF IInv, BusInv, TypeOK, Delays, Turns, Aim, Leaving, Progress, Taken, Outcome,
     Settings, ConfigLast, DutyShown, ReadbacksMatch, ErrorsAreNacks, Doing, Sending, AtWork,
     AtRest, Carries, vars, sequencer, transaction, bus
<1> QED
  BY <1>1, <1>2

LEMMA Invariant == Spec => []IInv
BY InitInv, StepInv, PTL DEF Spec

\* A START finds the bus free or is the repeated one of a read, and the
\* back-off after an unacknowledged byte begins with the bus released.
LEMMA FrameInv == IInv => NeverMidFrame
<1> SUFFICES ASSUME IInv PROVE NeverMidFrame
  OBVIOUS
<1>1. ASSUME master = "start"
      PROVE  frame = "free" \/ (frame = "data" /\ xact.kind = "read" /\ xactStep = 4)
  <2>1. xactBusy /\ ~xactAbort /\ xactStep \in {1, 2, 3, 4, 5, 6}
    BY <1>1 DEF IInv, BusInv, Leaving, AtWork, AtRest, TypeOK
  <2>2. xactStep \notin {2, 3, 5, 6}
    BY <1>1, <2>1 DEF IInv, BusInv, Progress, Doing, Sending, AtWork, AtRest
  <2>3. xactStep = 1 => frame = "free"
    BY <1>1, <2>1 DEF IInv, BusInv, Progress, Doing, AtWork, AtRest
  <2>4. xactStep = 4 => frame = "data" /\ xact.kind # "write"
    BY <1>1, <2>1 DEF IInv, BusInv, Progress, Doing, Sending, AtWork, AtRest
  <2>5. xact.kind # "write" => xact.kind = "read"
    BY <2>1 DEF IInv, Turns, Aim, Waiting
  <2> QED
    BY <2>1, <2>2, <2>3, <2>4, <2>5
<1>2. state = "error_wait" => frame = "free" /\ master = "idle"
  BY DEF IInv, Outcome
<1> QED
  BY <1>1, <1>2 DEF NeverMidFrame

-----------------------------------------------------------------------------
\* Every signal and register keeps its range, for any delays; no delay counts
\* past the value that ends it.
THEOREM TypeCorrect == Spec => []TypeOK
<1>1. IInv => TypeOK
  BY DEF IInv
<1> QED
  BY <1>1, Invariant, PTL

\* The fan controller never leaves the shared bus in the middle of a frame,
\* whichever byte the chip does not acknowledge.
THEOREM BusReleased == Spec => []NeverMidFrame
BY FrameInv, Invariant, PTL

\* The sequencer and the transaction sequencer never miss each other's pulses.
THEOREM NoLostPulse == Spec => []Handshake
<1>1. IInv => Handshake
  BY DEF IInv, Turns, Handshake, Waiting
<1> QED
  BY <1>1, Invariant, PTL

\* A transaction ends in error exactly when one of its bytes was refused.
THEOREM ErrorsExact == Spec => []ErrorsAreNacks
<1>1. IInv => ErrorsAreNacks
  BY DEF IInv, Outcome
<1> QED
  BY <1>1, Invariant, PTL

\* The chip is told to start after the rest of its script, and duty_out is the
\* chip's, after any number of failures and retries.
THEOREM SettingsCorrect == Spec => [](ConfigLast /\ DutyShown)
<1>1. IInv => ConfigLast /\ DutyShown
  BY DEF IInv, Settings
<1> QED
  BY <1>1, Invariant, PTL

\* Each readback is the byte of its own register, whichever transactions failed
\* in between.
THEOREM ReadbacksCorrect == Spec => []ReadbacksMatch
<1>1. IInv => ReadbacksMatch
  BY DEF IInv, Settings
<1> QED
  BY <1>1, Invariant, PTL
=============================================================================
