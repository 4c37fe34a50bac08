----------------------------- MODULE FanControl -----------------------------
(***************************************************************************)
(* The fan controller of the FPGA design,                                  *)
(* source/fan_control/amc6821_fan_control.vhd, on its I2C master           *)
(* (i2c_master_pkg.vhd) and the AMC6821 chip (sim/amc6821_model.vhd).      *)
(*                                                                         *)
(* A step is a rising edge of the clock: the three clocked processes take  *)
(* it together, each reading what the others held before it.  An operation *)
(* of the master takes any number of edges; the chip sees it whole, at its *)
(* end, and may leave any byte unacknowledged.  A byte stands for its      *)
(* meaning: an address, a register, or the data of the configuration       *)
(* script ("set"), of a duty, or read back from the register it names.     *)
(***************************************************************************)
EXTENDS Naturals, Sequences

CONSTANTS
  Duty,         \* the values of duty_in
  Kick,         \* g_kick_duty
  PorCycles, KickCycles, PollCycles  \* g_por_cycles, g_kick_cycles, g_poll_cycles

Max(a, b) == IF a > b THEN a ELSE b
DelayMax == Max(PorCycles, Max(KickCycles, PollCycles))

\* Fault: the chip is started before the rest of the script.
ConfigFirst == <<"config1", "config2", "config4", "fanchar">>

Config == <<"config2", "config4", "fanchar", "config1">>   \* c_config
Polled == <<"devid", "status1", "tach_l", "tach_h">>       \* c_poll
Settable == {"config1", "config2", "config4", "fanchar", "dcy"}
Register == Settable \cup {Polled[i] : i \in DOMAIN Polled}
Data == Duty \cup {Kick, "set"}
Byte == {"addr_write", "addr_read"} \cup Register \cup Data

ASSUME FanControlConstants ==
  /\ PorCycles \in Nat /\ KickCycles \in Nat /\ PollCycles \in Nat
  /\ ({"released", "default"} \cup Register \cup {"addr_write", "addr_read"})
       \cap (Duty \cup {Kick}) = {}

VARIABLES
  \* the top-level sequencer
  state, delay, cfgIndex, pollIndex,
  dutyTarget, dutyWritten, kickDone, initDone, i2cError,
  shown,       \* device_id, status_out, tach_lo and tach_out: what was read
  xact,        \* xact, xact_reg and xact_wdata
  xactStart,
  \* the transaction sequencer
  xactBusy, xactDone, xactErr, xactAbort, checkAck, xactRdata, xactStep,
  i2cReq, i2cOp, i2cWrData,
  \* the I2C master
  master,      \* its state: idle, the operation it is at, or done
  shiftOut, rdData, ackErr,
  \* the chip
  frame,       \* where it is between a START and its STOP
  pointer, file,
  nacked       \* history: a byte of this transaction was not acknowledged

sequencer == <<state, delay, cfgIndex, pollIndex, dutyTarget, dutyWritten, kickDone,
               initDone, i2cError, shown, xact, xactStart>>
transaction == <<xactBusy, xactDone, xactErr, xactAbort, checkAck, xactRdata, xactStep,
                 i2cReq, i2cOp, i2cWrData>>
bus == <<master, shiftOut, rdData, ackErr, frame, pointer, file>>
vars == <<sequencer, transaction, bus, nacked>>

States == {"por_wait", "config", "kick_wait", "write_duty", "poll", "poll_wait", "error_wait"}
Ops == {"start", "write", "read", "stop"}
Frames == {"free", "addr", "off", "pointer", "data", "read", "sent"}

TypeOK ==
  /\ state \in States /\ delay \in 0..DelayMax
  /\ cfgIndex \in DOMAIN Config /\ pollIndex \in DOMAIN Polled
  /\ dutyTarget \in Duty /\ dutyWritten \in Data \cup {"zero"}
  /\ kickDone \in BOOLEAN /\ initDone \in BOOLEAN /\ i2cError \in BOOLEAN
  /\ shown \in [DOMAIN Polled -> Byte \cup {"zero", "released"}]
  /\ xact \in [kind : {"idle", "write", "read"}, reg : Register, data : Data]
  /\ xactStart \in BOOLEAN
  /\ xactBusy \in BOOLEAN /\ xactDone \in BOOLEAN /\ xactErr \in BOOLEAN
  /\ xactAbort \in BOOLEAN /\ checkAck \in BOOLEAN
  /\ xactRdata \in Byte \cup {"zero", "released"}
  /\ xactStep \in 0..6
  /\ i2cReq \in BOOLEAN /\ i2cOp \in Ops /\ i2cWrData \in Byte
  /\ master \in Ops \cup {"idle", "done"}
  /\ shiftOut \in Byte /\ rdData \in Byte \cup {"zero", "released"} /\ ackErr \in BOOLEAN
  /\ frame \in Frames /\ pointer \in Register
  /\ file \in [Settable -> Data \cup {"default"}]
  /\ nacked \in BOOLEAN

\* After the reset that follows the configuration of the FPGA; the chip runs
\* on its power-on defaults.
Init ==
  /\ state = "por_wait" /\ delay = 0 /\ cfgIndex = 1 /\ pollIndex = 1
  /\ dutyTarget \in Duty /\ dutyWritten = "zero"
  /\ kickDone = FALSE /\ initDone = FALSE /\ i2cError = FALSE
  /\ shown = [i \in DOMAIN Polled |-> "zero"]
  /\ xact = [kind |-> "idle", reg |-> Config[1], data |-> "set"] /\ xactStart = FALSE
  /\ xactBusy = FALSE /\ xactDone = FALSE /\ xactErr = FALSE
  /\ xactAbort = FALSE /\ checkAck = FALSE
  /\ xactRdata = "zero" /\ xactStep = 0
  /\ i2cReq = FALSE /\ i2cOp = "start" /\ i2cWrData = "addr_write"
  /\ master = "idle" /\ shiftOut = "addr_write" /\ rdData = "zero" /\ ackErr = FALSE
  /\ frame = "free" /\ pointer = Config[1]
  /\ file = [r \in Settable |-> "default"]
  /\ nacked = FALSE

-----------------------------------------------------------------------------
(* The transaction sequencer: a write or read of a register, expanded into *)
(* operations of the master.                                               *)

Start == [op |-> "start"]
Write(b) == [op |-> "write", byte |-> b]
ReadByte == [op |-> "read"]
Stop == [op |-> "stop"]

Script ==
  IF xact.kind = "write"
    THEN <<Start, Write("addr_write"), Write(xact.reg), Write(xact.data), Stop>>
    ELSE <<Start, Write("addr_write"), Write(xact.reg), Start, Write("addr_read"),
           ReadByte, Stop>>

\* The last operation is out or has ended, and a transaction is under way.
Ready == xactBusy /\ master = "idle" /\ ~i2cReq

\* A new transaction request always wins.
Proceed(busy, step, err, abort, check) ==
  IF xactStart
    THEN /\ xactBusy' = TRUE /\ xactStep' = 0 /\ xactErr' = FALSE
         /\ xactAbort' = FALSE /\ checkAck' = FALSE
    ELSE /\ xactBusy' = busy /\ xactStep' = step /\ xactErr' = err
         /\ xactAbort' = abort /\ checkAck' = check

Wait ==
  /\ ~Ready
  /\ i2cReq' = FALSE /\ xactDone' = FALSE
  /\ Proceed(xactBusy, xactStep, xactErr, xactAbort, checkAck)
  /\ UNCHANGED <<i2cOp, i2cWrData, xactRdata>>

\* Fault: an unacknowledged byte ends the transaction where it stands.
GiveUpMidFrame ==
  /\ Ready /\ ~xactAbort /\ checkAck /\ ackErr
  /\ i2cReq' = FALSE /\ xactDone' = TRUE
  /\ Proceed(FALSE, 0, TRUE, FALSE, FALSE)
  /\ UNCHANGED <<i2cOp, i2cWrData, xactRdata>>

\* The byte just written was not acknowledged: a STOP first ...
ReleaseBus ==
  /\ Ready /\ ~xactAbort /\ checkAck /\ ackErr
  /\ i2cReq' = TRUE /\ i2cOp' = "stop" /\ xactDone' = FALSE
  /\ Proceed(TRUE, xactStep, xactErr, TRUE, FALSE)
  /\ UNCHANGED <<i2cWrData, xactRdata>>

\* ... and with the STOP done the transaction ends, in error.
EndAborted ==
  /\ Ready /\ xactAbort
  /\ i2cReq' = FALSE /\ xactDone' = TRUE
  /\ Proceed(FALSE, 0, TRUE, FALSE, FALSE)
  /\ UNCHANGED <<i2cOp, i2cWrData, xactRdata>>

\* Fault: every operation is judged by its acknowledge.
JudgeAny(op) == TRUE

\* Only a write has an acknowledge worth judging.
Judged(op) == op = "write"

\* Fault: the byte is taken as the read operation is issued.
CaptureEarly == xactStep = 5

\* The read operation has ended when the STOP after it is issued.
Capture == xact.kind = "read" /\ xactStep = 6

\* The next operation; with the STOP the transaction is done.
Issue ==
  /\ Ready /\ ~xactAbort /\ ~(checkAck /\ ackErr)
  /\ LET next == Script[xactStep + 1]
         last == xactStep + 1 = Len(Script)
     IN  /\ i2cReq' = TRUE /\ i2cOp' = next.op
         /\ i2cWrData' = IF next.op = "write" THEN next.byte ELSE i2cWrData
         /\ xactDone' = last
         /\ xactRdata' = IF Capture THEN rdData ELSE xactRdata
         /\ Proceed(~last, IF last THEN 0 ELSE xactStep + 1, xactErr, FALSE, Judged(next.op))

Transaction == Wait \/ ReleaseBus \/ EndAborted \/ Issue

-----------------------------------------------------------------------------
(* The top-level sequencer.                                                *)

Goto(s, d) == state' = s /\ delay' = d

StartWrite(reg, data) ==
  xactStart' = TRUE /\ xact' = [kind |-> "write", reg |-> reg, data |-> data]

StartRead(reg) ==
  xactStart' = TRUE /\ xact' = [kind |-> "read", reg |-> reg, data |-> xact.data]

NoStart == xactStart' = FALSE /\ UNCHANGED xact

outputs == <<dutyWritten, kickDone, initDone, i2cError, shown>>
indices == <<cfgIndex, pollIndex>>

Over(cycles) == delay = cycles

\* A delay that is not over yet.
Delay(s, cycles) ==
  /\ state = s /\ ~Over(cycles)
  /\ Goto(s, delay + 1) /\ NoStart
  /\ UNCHANGED <<outputs, indices>>

\* The transaction this state waits for has not ended.
Busy ==
  /\ state \in {"config", "write_duty", "poll"} /\ ~xactDone
  /\ Goto(state, delay) /\ NoStart
  /\ UNCHANGED <<outputs, indices>>

\* It ended in error: back off.
Fail ==
  /\ state \in {"config", "write_duty", "poll"} /\ xactDone /\ xactErr
  /\ i2cError' = TRUE
  /\ Goto("error_wait", 0) /\ NoStart
  /\ UNCHANGED <<dutyWritten, kickDone, initDone, shown, indices>>

Ended(s) == state = s /\ xactDone /\ ~xactErr

PorDone ==
  /\ state = "por_wait" /\ Over(PorCycles)
  /\ Goto("config", 0) /\ cfgIndex' = 1
  /\ StartWrite(Config[1], "set")
  /\ UNCHANGED <<outputs, pollIndex>>

NextConfig ==
  /\ Ended("config") /\ cfgIndex < Len(Config)
  /\ cfgIndex' = cfgIndex + 1
  /\ StartWrite(Config[cfgIndex + 1], "set")
  /\ Goto(state, delay)
  /\ UNCHANGED <<outputs, pollIndex>>

\* The script is through: the kick - also after a retry - or the duty.
Configured ==
  /\ Ended("config") /\ cfgIndex = Len(Config)
  /\ initDone' = TRUE
  /\ kickDone' = (kickDone \/ KickCycles = 0)
  /\ StartWrite("dcy", IF KickCycles = 0 THEN dutyTarget ELSE Kick)
  /\ Goto("write_duty", delay)
  /\ UNCHANGED <<dutyWritten, i2cError, shown, indices>>

Kicked ==
  /\ Ended("write_duty") /\ ~kickDone
  /\ Goto("kick_wait", 0) /\ NoStart
  /\ UNCHANGED <<outputs, indices>>

KickDone ==
  /\ state = "kick_wait" /\ Over(KickCycles)
  /\ kickDone' = TRUE
  /\ Goto("write_duty", 0) /\ StartWrite("dcy", dutyTarget)
  /\ UNCHANGED <<dutyWritten, initDone, i2cError, shown, indices>>

Programmed == xact.data

DutyDone ==
  /\ Ended("write_duty") /\ kickDone
  /\ dutyWritten' = Programmed
  /\ pollIndex' = 1
  /\ Goto("poll", delay) /\ StartRead(Polled[1])
  /\ UNCHANGED <<cfgIndex, kickDone, initDone, i2cError, shown>>

PollDone ==
  /\ Ended("poll")
  /\ shown' = [shown EXCEPT ![pollIndex] = xactRdata]
  /\ IF pollIndex = Len(Polled)
       THEN Goto("poll_wait", 0) /\ NoStart /\ UNCHANGED pollIndex
       ELSE /\ pollIndex' = pollIndex + 1
            /\ StartRead(Polled[pollIndex + 1]) /\ Goto(state, delay)
  /\ UNCHANGED <<cfgIndex, dutyWritten, kickDone, initDone, i2cError>>

\* Fault: a setpoint that changed after a write is not noticed.
NoSetpoint == FALSE

NewSetpoint == dutyTarget # dutyWritten

\* A new setpoint pre-empts the wait between two polls.
WriteSetpoint ==
  /\ state = "poll_wait" /\ NewSetpoint
  /\ Goto("write_duty", 0) /\ StartWrite("dcy", dutyTarget)
  /\ UNCHANGED <<indices, outputs>>

NextPoll ==
  /\ state = "poll_wait" /\ ~NewSetpoint /\ Over(PollCycles)
  /\ Goto("poll", 0) /\ pollIndex' = 1 /\ StartRead(Polled[1])
  /\ UNCHANGED <<cfgIndex, outputs>>

\* From scratch.
Retry ==
  /\ state = "error_wait" /\ Over(PorCycles)
  /\ initDone' = FALSE /\ kickDone' = TRUE /\ cfgIndex' = 1
  /\ Goto("config", 0) /\ StartWrite(Config[1], "set")
  /\ UNCHANGED <<pollIndex, dutyWritten, i2cError, shown>>

\* duty_in may be anything at every edge.
Sequencer ==
  /\ dutyTarget' \in Duty
  /\ \/ Delay("por_wait", PorCycles) \/ PorDone
     \/ Busy \/ Fail \/ NextConfig \/ Configured
     \/ Kicked \/ Delay("kick_wait", KickCycles) \/ KickDone
     \/ DutyDone \/ PollDone
     \/ WriteSetpoint \/ NextPoll
     \/ ~NewSetpoint /\ Delay("poll_wait", PollCycles)
     \/ Delay("error_wait", PorCycles) \/ Retry

-----------------------------------------------------------------------------
(* The I2C master and the chip.                                            *)

Request ==
  /\ master = "idle" /\ i2cReq
  /\ master' = i2cOp /\ shiftOut' = i2cWrData
  /\ ackErr' = (ackErr /\ i2cOp # "write")
  /\ UNCHANGED <<rdData, frame, pointer, file>>

Idle == master = "idle" /\ ~i2cReq /\ UNCHANGED bus

Clocking == master \in Ops /\ UNCHANGED bus

OpDone == master = "done" /\ master' = "idle"
          /\ UNCHANGED <<shiftOut, rdData, ackErr, frame, pointer, file>>

EndOp(op) == master = op /\ master' = "done" /\ UNCHANGED shiftOut

StartStop ==
  /\ \/ EndOp("start") /\ frame' = "addr"
     \/ EndOp("stop") /\ frame' = "free"
  /\ UNCHANGED <<rdData, ackErr, pointer, file>>

\* The byte is acknowledged, and taken, by a chip that expects one.
Acknowledged ==
  /\ EndOp("write") /\ ackErr' = FALSE
  /\ \/ /\ frame = "addr" /\ UNCHANGED <<pointer, file>>
        /\ frame' = IF shiftOut = "addr_read" THEN "read" ELSE "pointer"
     \/ frame = "pointer" /\ frame' = "data" /\ pointer' = shiftOut /\ UNCHANGED file
     \/ /\ frame = "data" /\ UNCHANGED <<frame, pointer>>
        /\ file' = [file EXCEPT ![pointer] = shiftOut]
  /\ UNCHANGED rdData

NotAcknowledged ==
  /\ EndOp("write") /\ ackErr' = TRUE
  /\ frame' = IF frame = "free" THEN "free" ELSE "off"
  /\ UNCHANGED <<rdData, pointer, file>>

\* The chip sends the register the pointer names; else the line reads as ones.
EndRead ==
  /\ EndOp("read")
  /\ IF frame = "read" THEN rdData' = pointer /\ frame' = "sent"
                       ELSE rdData' = "released" /\ UNCHANGED frame
  /\ UNCHANGED <<ackErr, pointer, file>>

OpEnds == StartStop \/ Acknowledged \/ NotAcknowledged \/ EndRead

Bus == Idle \/ Request \/ Clocking \/ OpEnds \/ OpDone

Edge ==
  /\ Sequencer /\ Transaction /\ Bus
  /\ nacked' = (~xactStart /\ (nacked \/ (ackErr' /\ ~ackErr)))

Spec == Init /\ [][Edge]_vars

\* The clock runs, and each operation takes its bits' number of edges.
FairSpec == Spec /\ WF_vars(Edge) /\ WF_vars(Edge /\ OpEnds)

-----------------------------------------------------------------------------
(* Properties                                                              *)

\* The bus is left with a STOP before anything else begins: a START finds it
\* free or is the repeated one of a read, and the back-off after an
\* unacknowledged byte begins only when the STOP has ended ("never mid-frame,
\* which would wedge the shared bus").
NeverMidFrame ==
  /\ master = "start" => \/ frame = "free"
                         \/ frame = "data" /\ xact.kind = "read" /\ xactStep = 4
  /\ state = "error_wait" => frame = "free" /\ master = "idle"

\* The chip is told to start only with the rest of the script in place, whichever
\* writes failed before.  The duty is not in the script: it follows, though the
\* documents list it before Config1 too.
ConfigLast ==
  file["config1"] = "set" =>
    \A r \in {"config2", "config4", "fanchar"} : file[r] = "set"

\* duty_out is what the chip runs on, whenever the sequencer polls.
DutyShown == state \in {"poll", "poll_wait"} => file["dcy"] = dutyWritten

\* Each readback shows the byte of its own register, never the one of an
\* earlier transaction or of a chip that was not there.
ReadbacksMatch == \A i \in DOMAIN Polled : shown[i] \in {"zero", Polled[i]}

\* A transaction is asked for when none is under way, and the sequencer never
\* waits for one that is neither asked for, nor under way, nor done.
Handshake ==
  /\ xactStart => ~xactBusy
  /\ state \in {"config", "write_duty", "poll"} => xactStart \/ xactBusy \/ xactDone

\* A transaction ends in error exactly when a byte of it was not acknowledged:
\* a stale ack_err does not abort a retry, and no failure is missed.
ErrorsAreNacks == xactDone => (xactErr <=> nacked)

\* Once duty_in and the bus are steady, the chip runs on duty_in.
FanFollows ==
  \A d \in Duty :
    <>[](dutyTarget = d) /\ <>[]~ackErr => <>[](file["dcy"] = d)
=============================================================================
