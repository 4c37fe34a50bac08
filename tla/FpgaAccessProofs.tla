-------------------------- MODULE FpgaAccessProofs --------------------------
(***************************************************************************)
(* Proofs about FpgaAccess, for any set of handler threads and registers,  *)
(* any lease, pause and load times:                                        *)
(*   - every state has its type;                                           *)
(*   - while no client uses the explicit pause and resume, no request of a *)
(*     client reaches the fabric during a load, with leases expiring at    *)
(*     any moment (HandlersKeepQuiet);                                     *)
(*   - without leases either, no thread of the process does (KeepsQuiet),  *)
(*     every load ends with the traffic resumed (TrafficResumes), and no   *)
(*     load loses a write (AckedKept);                                     *)
(*   - no load expires a lease, unless its walk over the leases is broken  *)
(*     off, which the fan's alone cannot cause (LeaseRunsUnpaused); and,   *)
(*     while no core is loaded, a silent client raises the fan             *)
(*     (SilenceRaisesFan).                                                 *)
(*                                                                         *)
(* The first two are not inductive: what keeps a request out is the pause  *)
(* without limit, which is there because its only writer is the holder of  *)
(* core_lock, which is the only thread that can configure the fabric.      *)
(* LoadInv states that chain.                                              *)
(***************************************************************************)
EXTENDS FpgaAccess, TLAPS

LEMMA PokedType ==
  ASSUME TypeOK, NEW r \in Reg, NEW v \in Val
  PROVE  Poked(r, v) \in Registers
BY DEF Poked, TypeOK, Registers

LEMMA GotoType ==
  ASSUME TypeOK, NEW t \in Thread, NEW l \in PC, Goto(t, l)
  PROVE  pc' \in [Thread -> PC]
BY DEF Goto, TypeOK

LEMMA UseType ==
  ASSUME TypeOK, Use
  PROVE  work' \in 0..MaxWork
BY ConstantsOK DEF Use, TypeOK

LEMMA InitType == Init => TypeOK
<1> SUFFICES ASSUME Init PROVE TypeOK
  OBVIOUS
<1>1. pc \in [Thread -> PC]
  BY DEF Init, PC
<1>2. dog \in [pc : DogPC, expired : SUBSET Reg, reg : Reg]
  BY ConstantsOK DEF Init, DogPC
<1>3. left \in [Reg -> Int] /\ promise \in [Reg -> BOOLEAN] /\ age \in [Reg -> 0..Lease]
  BY ConstantsOK DEF Init
<1>4. regs \in Registers /\ saved \in Registers /\ acked \in Registers
  BY ConstantsOK DEF Init, Registers
<1>5. pause \in 0..(MaxPause + 1) /\ held \in 0..MaxLoad /\ work \in 0..MaxWork
  BY ConstantsOK DEF Init
<1> QED
  BY <1>1, <1>2, <1>3, <1>4, <1>5 DEF Init, TypeOK

\* The requests of the clients keep the types.
LEMMA ClientType == TypeOK /\ Client => TypeOK'
<1> SUFFICES ASSUME TypeOK, Client PROVE TypeOK'
  OBVIOUS
<1>1. CASE Read
  BY <1>1 DEF TypeOK, Read, Touch, core, leases, Registers
<1>2. ASSUME NEW r \in Reg, NEW v \in Val, NEW l \in BOOLEAN, Write(r, v, l)
      PROVE  TypeOK'
  <2>1. regs' \in Registers /\ acked' \in Registers
    BY <1>2, PokedType DEF Write, TypeOK, Registers
  <2>2. left' \in [Reg -> Int] /\ leased' \subseteq Reg
    BY <1>2, ConstantsOK DEF Write, TypeOK
  <2>3. promise' \in [Reg -> BOOLEAN]
    BY <1>2 DEF Write, TypeOK
  <2>4. age' \in [Reg -> 0..Lease]
    BY <1>2, ConstantsOK DEF Write, TypeOK
  <2>5. touched' \subseteq {"handler", "loader", "watchdog"}
    BY <1>2 DEF Write, Touch, TypeOK
  <2> QED
    BY <1>2, <2>1, <2>2, <2>3, <2>4, <2>5 DEF Write, TypeOK, core
<1>3. ASSUME NEW r \in Reg, Release(r) PROVE TypeOK'
  BY <1>3, ConstantsOK DEF Release, TypeOK, core, Registers
<1>4. ASSUME NEW t \in Thread, NEW op \in {"pause", "resume"}, AskPause(t, op)
      PROVE  TypeOK'
  <2>1. pc' \in [Thread -> PC] /\ work' \in 0..MaxWork
    BY <1>4, GotoType, UseType DEF AskPause, PC
  <2> QED
    BY <1>4, <2>1 DEF AskPause, TypeOK, leases
<1>5. ASSUME NEW t \in Thread, NEW op \in {"reload", "install"}, Begin(t, op)
      PROVE  TypeOK'
  <2>1. pc' \in [Thread -> PC] /\ work' \in 0..MaxWork
    BY <1>5, GotoType, UseType DEF Begin, PC, LoadPC
  <2> QED
    BY <1>5, <2>1 DEF Begin, TypeOK, leases
<1> QED
  BY <1>1, <1>2, <1>3, <1>4, <1>5, ConstantsOK DEF Client

\* So do the steps of the handler threads.
LEMMA HandlerType == TypeOK /\ Handler => TypeOK'
<1> SUFFICES ASSUME TypeOK, NEW t \in Thread, SetPause(t) \/ CoreStep(t)
             PROVE  TypeOK'
  BY DEF Handler
<1>1. CASE SetPause(t)
  BY <1>1, ConstantsOK DEF SetPause, Goto, TypeOK, PC, leases
<1>2. CASE Enter(t)
  <2>1. pc' \in [Thread -> PC]
    BY <1>2, GotoType DEF Enter, PC, LoadPC
  <2>2. saved' \in Registers /\ touched' \subseteq {"handler", "loader", "watchdog"}
    BY <1>2 DEF Enter, Touch, TypeOK
  <2>3. pause' \in 0..(MaxPause + 1) /\ held' \in 0..MaxLoad
    BY <1>2, ConstantsOK DEF Enter, Forever
  <2> QED
    BY <1>2, <2>1, <2>2, <2>3 DEF Enter, TypeOK, leases
<1>3. CASE StartLoad(t)
  BY <1>3 DEF StartLoad, Goto, TypeOK, PC, LoadPC, leases
<1>4. CASE EndLoad(t)
  <2> PICK out \in Outcomes \ {"refused"} :
        /\ fabric' = CASE out = "good"  -> "up"
                       [] out = "wrong" -> "wrong"
                       [] out = "error" -> "failed"
                       [] out = "stuck" -> "configuring"
        /\ regs' = IF out \in {"good", "wrong"} THEN Reset ELSE regs
        /\ acked' = IF out = "wrong" THEN Reset ELSE acked
        /\ ok' = (out = "good")
        /\ todo' = IF out = "good" THEN SavedReg ELSE {}
        /\ Goto(t, CASE out = "good"  -> "restore"
                     [] out = "stuck" -> "stuck"
                     [] OTHER         -> "finally")
    BY <1>4 DEF EndLoad
  <2>1. out \in {"good", "wrong", "error", "stuck"}
    BY ConstantsOK DEF AllOutcomes
  <2> QED
    BY <1>4, <2>1, ConstantsOK DEF EndLoad, Goto, SavedReg, TypeOK, PC, LoadPC, Registers, leases
<1>5. ASSUME NEW r \in Reg, Restore(t, r) PROVE TypeOK'
  <2>1. saved[r] \in Val
    BY DEF TypeOK, Registers
  <2>2. regs' \in Registers /\ acked' \in Registers
    BY <1>5, <2>1, PokedType DEF Restore, TypeOK, Registers
  <2> QED
    BY <1>5, <2>2 DEF Restore, Touch, Goto, TypeOK, PC, LoadPC, leases
<1>6. CASE Finally(t)
  BY <1>6 DEF Finally, Goto, TypeOK, PC, LoadPC, leases
<1>7. ASSUME NEW r \in Reg, Extend(t, r) PROVE TypeOK'
  BY <1>7, ConstantsOK DEF Extend, Extended, TypeOK
<1>8. CASE LeaveLoad(t)
  <2>1. /\ pc' \in [Thread -> PC]
        /\ coreLock' \in Thread \cup {None}
        /\ job' \in {"none", "reload", "install", "rollback"}
    BY <1>8, GotoType DEF LeaveLoad, Done, TypeOK, PC, LoadPC
  <2>2. pause' \in 0..(MaxPause + 1) /\ held' \in 0..MaxLoad
    BY <1>8, ConstantsOK DEF LeaveLoad
  <2> QED
    BY <1>8, <2>1, <2>2 DEF LeaveLoad, TypeOK, leases
<1>9. CASE AbortWalk(t)
  BY <1>9, ConstantsOK DEF AbortWalk, Done, Goto, TypeOK, PC, leases
<1> QED
  BY <1>1, <1>2, <1>3, <1>4, <1>5, <1>6, <1>7, <1>8, <1>9 DEF CoreStep

\* And the steps of the watchdog, of time, and the death of the process.
LEMMA OtherType == TypeOK /\ (WatchdogStep \/ Tick \/ Kill \/ UNCHANGED vars) => TypeOK'
<1> SUFFICES ASSUME TypeOK, WatchdogStep \/ Tick \/ Kill \/ UNCHANGED vars
             PROVE  TypeOK'
  OBVIOUS
<1>1. CASE Wake
  BY <1>1 DEF Wake, TypeOK, DogPC, core, leases
<1>2. ASSUME NEW r \in Reg, Look(r) PROVE TypeOK'
  BY <1>2 DEF Look, TypeOK, DogPC, core, leases
<1>3. CASE Pop
  BY <1>3 DEF Pop, DogGoto, TypeOK, DogPC, core
<1>4. CASE Raise
  <2>1. regs' \in Registers
    BY <1>4, PokedType, ConstantsOK DEF Raise, TypeOK
  <2>2. acked' \in Registers
    BY <1>4, ConstantsOK DEF Raise, TypeOK, Registers
  <2> QED
    BY <1>4, <2>1, <2>2, ConstantsOK DEF Raise, Touch, TypeOK, DogPC, core, leases
<1>5. CASE Tick
  <2>1. pause' \in 0..(MaxPause + 1) /\ held' \in 0..MaxLoad
    BY <1>5, ConstantsOK DEF Tick, TypeOK
  <2>2. left' \in [Reg -> Int] /\ age' \in [Reg -> 0..Lease]
    BY <1>5, ConstantsOK DEF Tick, TypeOK
  <2> QED
    BY <1>5, <2>1, <2>2 DEF Tick, TypeOK
<1>6. CASE Kill
  <2>1. regs' \in Registers /\ fabric' \in {"up", "configuring", "wrong", "failed"}
    BY <1>6, ConstantsOK DEF Kill, TypeOK, Registers
  <2>2. work' \in 0..MaxWork
    BY <1>6, UseType DEF Kill
  <2>3. pc' \in [Thread -> PC]
    BY <1>6 DEF Kill, PC
  <2>4. dog' \in [pc : DogPC, expired : SUBSET Reg, reg : Reg]
    BY <1>6, ConstantsOK DEF Kill, DogPC
  <2>5. left' \in [Reg -> Int] /\ promise' \in [Reg -> BOOLEAN] /\ age' \in [Reg -> 0..Lease]
    BY <1>6, ConstantsOK DEF Kill
  <2>6. pause' \in 0..(MaxPause + 1) /\ held' \in 0..MaxLoad /\ saved' \in Registers
    BY <1>6, ConstantsOK DEF Kill, Registers
  <2> QED
    BY <1>6, <2>1, <2>2, <2>3, <2>4, <2>5, <2>6 DEF Kill, TypeOK
<1>7. CASE UNCHANGED vars
  BY <1>7 DEF vars, core, leases, TypeOK
<1> QED
  BY <1>1, <1>2, <1>3, <1>4, <1>5, <1>6, <1>7 DEF WatchdogStep

LEMMA NextType == TypeOK /\ [Next]_vars => TypeOK'
BY ClientType, HandlerType, OtherType DEF Next

\* Every state has its type.
THEOREM TypeCorrect == Spec => []TypeOK
<1> QED
  BY NextType, InitType, PTL DEF Spec

-----------------------------------------------------------------------------
\* The threads between the first critical section of _load and the end of
\* its finally block.
Holding == {"load", "configuring", "stuck", "restore", "finally", "extend"}

\* No client uses the explicit pause and resume.
NoPauseOps == "pause" \notin Ops /\ "resume" \notin Ops

\* Only the holder of core_lock is in a core operation, it has the traffic
\* paused without limit while it is in _load, and only it configures.
LoadInv ==
  /\ \A t \in Thread : pc[t] \in LoadPC => coreLock = t
  /\ \A t \in Thread : pc[t] \in Holding => pause = Forever
  /\ \A t \in Thread : pc[t] \notin {"pause", "resume"}
  /\ fabric = "configuring" =>
       \E t \in Thread : pc[t] \in {"configuring", "stuck"}
  /\ "handler" \notin touched

LEMMA InitLoad == Init => LoadInv
BY DEF Init, LoadInv, LoadPC, Holding

\* The requests of the clients.
LEMMA ClientLoad == NoPauseOps /\ TypeOK /\ LoadInv /\ Client => LoadInv'
<1> SUFFICES ASSUME NoPauseOps, TypeOK, LoadInv, Client PROVE LoadInv'
  OBVIOUS
<1>1. ~Paused => fabric # "configuring"
  BY ConstantsOK DEF LoadInv, Holding, Paused, Forever
<1>2. CASE Read
  BY <1>1, <1>2 DEF Read, Touch, LoadInv, core
<1>3. ASSUME NEW r \in Reg, NEW v \in Val, NEW l \in BOOLEAN, Write(r, v, l)
      PROVE  LoadInv'
  BY <1>1, <1>3 DEF Write, Touch, LoadInv, core
<1>4. ASSUME NEW r \in Reg, Release(r) PROVE LoadInv'
  BY <1>4 DEF Release, LoadInv, core
<1>5. ASSUME NEW t \in Thread, NEW op \in {"pause", "resume"}, AskPause(t, op)
      PROVE  LoadInv'
  BY <1>5 DEF AskPause, NoPauseOps
<1>6. ASSUME NEW t \in Thread, NEW op \in {"reload", "install"}, Begin(t, op)
      PROVE  LoadInv'
  <2>1. pc[t] = "idle" /\ coreLock = None /\ pc' = [pc EXCEPT ![t] = "enter"] /\ coreLock' = t
    BY <1>6 DEF Begin, Goto
  <2>2. \A u \in Thread : pc[u] \notin LoadPC
    BY <2>1, ConstantsOK DEF LoadInv
  <2> QED
    BY <1>6, <2>1, <2>2 DEF Begin, LoadInv, LoadPC, Holding, TypeOK
<1> QED
  BY <1>2, <1>3, <1>4, <1>5, <1>6, ConstantsOK DEF Client

\* A step of the thread t that holds core_lock changes no other thread's
\* program counter, and finds every other thread outside the operation.
LEMMA CoreHolder ==
  ASSUME TypeOK, LoadInv, NEW t \in Thread, CoreStep(t)
  PROVE  /\ coreLock = t /\ pc[t] \in LoadPC
         /\ \A u \in Thread \ {t} : pc[u] \notin LoadPC
BY DEF CoreStep, Enter, StartLoad, EndLoad, Restore, Finally, Extend, LeaveLoad,
       AbortWalk, LoadInv, LoadPC

LEMMA HandlerLoad == NoPauseOps /\ TypeOK /\ LoadInv /\ Handler => LoadInv'
<1> SUFFICES ASSUME NoPauseOps, TypeOK, LoadInv, NEW t \in Thread,
                    SetPause(t) \/ CoreStep(t)
             PROVE  LoadInv'
  BY DEF Handler
<1>1. CASE SetPause(t)
  BY <1>1 DEF SetPause, LoadInv
<1>2. CASE CoreStep(t)
  <2>1. coreLock = t /\ pc[t] \in LoadPC /\ \A u \in Thread \ {t} : pc[u] \notin LoadPC
    BY <1>2, CoreHolder
  <2>2. CASE Enter(t)
    BY <2>1, <2>2 DEF Enter, Touch, Goto, LoadInv, LoadPC, Holding, TypeOK
  <2>3. CASE StartLoad(t)
    BY <2>1, <2>3 DEF StartLoad, Goto, LoadInv, LoadPC, Holding, TypeOK
  <2>4. CASE EndLoad(t)
    BY <2>1, <2>4, ConstantsOK DEF EndLoad, Goto, LoadInv, LoadPC, Holding, TypeOK, AllOutcomes
  <2>5. ASSUME NEW r \in Reg, Restore(t, r) PROVE LoadInv'
    BY <2>1, <2>5 DEF Restore, Touch, Goto, LoadInv, LoadPC, Holding, TypeOK
  <2>6. CASE Finally(t)
    BY <2>1, <2>6 DEF Finally, Goto, LoadInv, LoadPC, Holding, TypeOK
  <2>7. ASSUME NEW r \in Reg, Extend(t, r) PROVE LoadInv'
    BY <2>7 DEF Extend, LoadInv
  <2>8. CASE LeaveLoad(t)
    BY <2>1, <2>8 DEF LeaveLoad, Done, Goto, LoadInv, LoadPC, Holding, TypeOK
  <2>9. CASE AbortWalk(t)
    BY <2>1, <2>9 DEF AbortWalk, Done, Goto, LoadInv, LoadPC, Holding, TypeOK
  <2> QED
    BY <1>2, <2>2, <2>3, <2>4, <2>5, <2>6, <2>7, <2>8, <2>9 DEF CoreStep
<1> QED
  BY <1>1, <1>2

LEMMA OtherLoad ==
  TypeOK /\ LoadInv /\ (WatchdogStep \/ Tick \/ Kill \/ UNCHANGED vars) => LoadInv'
<1> SUFFICES ASSUME TypeOK, LoadInv, WatchdogStep \/ Tick \/ Kill \/ UNCHANGED vars
             PROVE  LoadInv'
  OBVIOUS
<1>1. CASE WatchdogStep
  BY <1>1 DEF WatchdogStep, Wake, Look, Pop, Raise, Touch, LoadInv, core
<1>2. CASE Tick
  <2>1. pause = Forever => pause' = Forever
    BY <1>2, ConstantsOK DEF Tick, Forever
  <2> QED
    BY <1>2, <2>1 DEF Tick, LoadInv
<1>3. CASE Kill
  <2>1. \A t \in Thread : pc'[t] = "idle"
    BY <1>3 DEF Kill
  <2>2. fabric' # "configuring"
    BY <1>3 DEF Kill
  <2> QED
    BY <1>3, <2>1, <2>2 DEF Kill, LoadInv, LoadPC, Holding
<1>4. CASE UNCHANGED vars
  BY <1>4 DEF vars, core, LoadInv
<1> QED
  BY <1>1, <1>2, <1>3, <1>4

\* While no client uses the explicit pause and resume, no request of a client
\* reaches the fabric while it is being configured: for any number of
\* threads, with leases expiring, failing, stuck and rolled-back loads and
\* the process dying at any moment.
THEOREM HandlersQuiet == ASSUME NoPauseOps PROVE Spec => []HandlersKeepQuiet
<1>1. TypeOK /\ LoadInv /\ [Next]_vars => LoadInv'
  BY NoPauseOps, ClientLoad, HandlerLoad, OtherLoad DEF Next
<1>2. LoadInv => HandlersKeepQuiet
  BY DEF LoadInv, HandlersKeepQuiet
<1> QED
  BY <1>1, <1>2, InitLoad, TypeCorrect, PTL DEF Spec

-----------------------------------------------------------------------------
\* Without leases the watchdog never wakes, no thread at all reaches the
\* fabric during a load, and every load ends with the traffic resumed.
LeaseFree ==
  /\ leased = {} /\ seen = {} /\ dog.pc = "sleep"
  /\ touched = {}
  /\ loading => coreLock # None

LEMMA InitLeaseFree == Init => LeaseFree
BY DEF Init, LeaseFree

LEMMA NextLeaseFree ==
  ASSUME NoPauseOps, LeaseReg = {}, TypeOK, LoadInv, LeaseFree, [Next]_vars
  PROVE  LeaseFree'
<1> USE DEF LeaseFree
<1>1. ~Paused => fabric # "configuring"
  BY ConstantsOK DEF LoadInv, Holding, Paused, Forever
<1>2. CASE Client
  <2>1. CASE Read
    BY <1>1, <2>1 DEF Read, Touch, core, leases
  <2>2. ASSUME NEW r \in Reg, NEW v \in Val, Write(r, v, FALSE) PROVE LeaseFree'
    BY <1>1, <2>2 DEF Write, Touch, core
  <2>3. ASSUME NEW t \in Thread, NEW op \in {"pause", "resume"}, AskPause(t, op)
        PROVE  LeaseFree'
    BY <2>3 DEF AskPause, NoPauseOps
  <2>4. ASSUME NEW t \in Thread, NEW op \in {"reload", "install"}, Begin(t, op)
        PROVE  LeaseFree'
    BY <2>4, ConstantsOK DEF Begin, leases
  <2> QED
    BY <1>2, <2>1, <2>2, <2>3, <2>4 DEF Client
<1>3. ASSUME NEW t \in Thread, CoreStep(t) PROVE LeaseFree'
  <2>1. coreLock = t /\ pc[t] \in LoadPC /\ \A u \in Thread \ {t} : pc[u] \notin LoadPC
    BY <1>3, CoreHolder
  <2>2. coreLock # None
    BY <2>1, ConstantsOK
  <2>3. pc[t] \in {"enter", "restore"} => fabric # "configuring"
    BY <2>1 DEF LoadInv, LoadPC
  <2>4. CASE Enter(t)
    BY <2>2, <2>3, <2>4 DEF Enter, Touch, leases
  <2>5. CASE StartLoad(t)
    BY <2>2, <2>5 DEF StartLoad, leases
  <2>6. CASE EndLoad(t)
    BY <2>2, <2>6 DEF EndLoad, leases
  <2>7. ASSUME NEW r \in Reg, Restore(t, r) PROVE LeaseFree'
    BY <2>2, <2>3, <2>7 DEF Restore, Touch, leases
  <2>8. CASE Finally(t)
    BY <2>2, <2>8 DEF Finally, leases
  <2>9. ASSUME NEW r \in Reg, Extend(t, r) PROVE LeaseFree'
    BY <2>2, <2>9 DEF Extend
  <2>10. CASE LeaveLoad(t)
    BY <2>10 DEF LeaveLoad, leases
  <2>11. CASE AbortWalk(t)
    BY <2>11 DEF AbortWalk
  <2> QED
    BY <1>3, <2>4, <2>5, <2>6, <2>7, <2>8, <2>9, <2>10, <2>11 DEF CoreStep
<1>4. ASSUME NEW t \in Thread, SetPause(t) PROVE LeaseFree'
  BY <1>4 DEF SetPause, LoadInv
<1>5. ~WatchdogStep
  BY DEF WatchdogStep, Wake, Look, Pop, Raise
<1>6. CASE Tick
  BY <1>6 DEF Tick
<1>7. CASE Kill
  BY <1>7 DEF Kill
<1>8. CASE UNCHANGED vars
  BY <1>8 DEF vars, core, leases
<1> QED
  BY <1>2, <1>3, <1>4, <1>5, <1>6, <1>7, <1>8 DEF Next, Handler

\* While no client uses pause and resume or takes a lease, no thread of the
\* process - request, loader or watchdog - reaches the fabric while it is
\* being configured.
THEOREM ProcessQuiet ==
  ASSUME NoPauseOps, LeaseReg = {} PROVE Spec => []KeepsQuiet
<1>1. TypeOK /\ LoadInv /\ LeaseFree /\ [Next]_vars => LoadInv' /\ LeaseFree'
  BY NoPauseOps, LeaseReg = {}, ClientLoad, HandlerLoad, OtherLoad, NextLeaseFree DEF Next
<1>2. LeaseFree => KeepsQuiet
  BY DEF LeaseFree, KeepsQuiet
<1> QED
  BY <1>1, <1>2, InitLoad, InitLeaseFree, TypeCorrect, PTL DEF Spec

\* Under the same conditions the traffic is resumed whenever no core
\* operation is under way, however the last one ended.
THEOREM ResumesAlways ==
  ASSUME NoPauseOps, LeaseReg = {} PROVE Spec => []TrafficResumes
<1>1. TypeOK /\ LoadInv /\ LeaseFree /\ [Next]_vars => LoadInv' /\ LeaseFree'
  BY NoPauseOps, LeaseReg = {}, ClientLoad, HandlerLoad, OtherLoad, NextLeaseFree DEF Next
<1>2. LeaseFree => TrafficResumes
  BY DEF LeaseFree, TrafficResumes
<1> QED
  BY <1>1, <1>2, InitLoad, InitLeaseFree, TypeCorrect, PTL DEF Spec

-----------------------------------------------------------------------------
\* A load loses no write.  The registers show the acknowledged values except
\* while they are written back; until then they are in saved, unless a
\* rollback writes back older ones, which then count as written.
AckedInv ==
  /\ (\A t \in Thread : pc[t] # "restore") => regs = acked
  /\ \A t \in Thread : pc[t] = "restore" =>
       /\ fabric = "up"
       /\ \A r \in Reg \ todo : regs[r] = acked[r]
       /\ job # "rollback" => \A r \in todo : saved[r] = acked[r]
  /\ \A t \in Thread : pc[t] \in {"load", "configuring"} /\ job # "rollback" =>
       saved = acked

\* A step of a core operation.
LEMMA CoreAcked ==
  ASSUME TypeOK, LoadInv, AckedInv, NEW t \in Thread, CoreStep(t)
  PROVE  AckedInv'
<1>1. coreLock = t /\ pc[t] \in LoadPC /\ \A u \in Thread \ {t} : pc[u] \notin LoadPC
  BY CoreHolder
<1>2. \A u \in Thread \ {t} : pc[u] \notin {"load", "configuring", "restore"}
  BY <1>1 DEF LoadPC
<1> HIDE DEF LoadPC
<1> USE <1>2 DEF AckedInv, Goto, TypeOK
<1>3. CASE Enter(t)
  BY <1>3 DEF Enter
<1>4. CASE StartLoad(t)
  BY <1>4 DEF StartLoad
<1>5. CASE EndLoad(t)
  <2> PICK out \in Outcomes \ {"refused"} :
        /\ fabric' = CASE out = "good"  -> "up"
                       [] out = "wrong" -> "wrong"
                       [] out = "error" -> "failed"
                       [] out = "stuck" -> "configuring"
        /\ regs' = IF out \in {"good", "wrong"} THEN Reset ELSE regs
        /\ acked' = IF out = "wrong" THEN Reset ELSE acked
        /\ ok' = (out = "good")
        /\ todo' = IF out = "good" THEN SavedReg ELSE {}
        /\ Goto(t, CASE out = "good"  -> "restore"
                     [] out = "stuck" -> "stuck"
                     [] OTHER         -> "finally")
    BY <1>5 DEF EndLoad
  <2>1. out \in {"good", "wrong", "error", "stuck"}
    BY ConstantsOK DEF AllOutcomes
  <2>2. pc[t] = "configuring" /\ UNCHANGED <<saved, job>>
    BY <1>5 DEF EndLoad
  <2>3. CASE out = "good"
    BY <2>2, <2>3 DEF SavedReg
  <2>4. CASE out # "good"
    BY <2>1, <2>2, <2>4
  <2> QED
    BY <2>3, <2>4
<1>6. ASSUME NEW r \in Reg, Restore(t, r) PROVE AckedInv'
  <2>1. pc[t] = "restore" /\ r \in todo /\ fabric = "up"
    BY <1>6 DEF Restore
  <2>2. regs' = [regs EXCEPT ![r] = saved[r]]
    BY <1>6, <2>1 DEF Restore, Poked
  <2>3. acked' \in Registers /\ acked'[r] = saved[r]
        /\ \A q \in Reg \ {r} : acked'[q] = acked[q]
    BY <1>6, <2>1 DEF Restore, Registers
  <2>4. \A q \in Reg \ todo' : regs'[q] = acked'[q]
    BY <1>6, <2>1, <2>2, <2>3 DEF Restore, Registers
  <2>5. CASE todo' = {}
    <3>1. regs' \in Registers
      BY <2>2 DEF Registers
    <3>2. \A q \in Reg : regs'[q] = acked'[q]
      BY <2>4, <2>5
    <3>3. regs' = acked'
      <4> HIDE DEF AckedInv, TypeOK
      <4> QED
        BY <2>3, <3>1, <3>2 DEF Registers
    <3> QED
      BY <1>6, <2>1, <2>5, <3>3 DEF Restore
  <2>6. CASE todo' # {}
    BY <1>6, <2>1, <2>3, <2>4, <2>6 DEF Restore
  <2> QED
    BY <2>5, <2>6
<1>7. CASE Finally(t)
  BY <1>7 DEF Finally
<1>8. ASSUME NEW r \in Reg, Extend(t, r) PROVE AckedInv'
  BY <1>8 DEF Extend
<1>9. CASE LeaveLoad(t)
  BY <1>9 DEF LeaveLoad, Done
<1>10. CASE AbortWalk(t)
  BY <1>10 DEF AbortWalk, Done
<1> QED
  BY <1>3, <1>4, <1>5, <1>6, <1>7, <1>8, <1>9, <1>10 DEF CoreStep

\* Every other step: a request is served only outside the operation, where
\* it changes both sides or none; the watchdog sleeps.
LEMMA OtherAcked ==
  ASSUME NoPauseOps, LeaseReg = {}, TypeOK, LoadInv, LeaseFree, AckedInv,
         Client \/ WatchdogStep \/ Tick \/ Kill \/ UNCHANGED vars
  PROVE  AckedInv'
<1> USE DEF AckedInv
<1>1. CASE Read
  BY <1>1 DEF Read, core
<1>2. ASSUME NEW r \in Reg, NEW v \in Val, Write(r, v, FALSE) PROVE AckedInv'
  <2>1. \A t \in Thread : pc[t] \notin Holding
    BY <1>2, ConstantsOK DEF Write, Paused, LoadInv, Forever
  <2>2. regs' = acked'
    <3>1. regs = acked
      BY <2>1 DEF Holding
    <3> HIDE DEF AckedInv
    <3> QED
      BY <1>2, <3>1 DEF Write, Poked
  <2> QED
    BY <1>2, <2>1, <2>2 DEF Write, core, Holding
<1>3. ASSUME NEW t \in Thread, NEW op \in {"pause", "resume"}, AskPause(t, op)
      PROVE  AckedInv'
  BY <1>3 DEF AskPause, NoPauseOps
<1>4. ASSUME NEW t \in Thread, NEW op \in {"reload", "install"}, Begin(t, op)
      PROVE  AckedInv'
  <2>1. \A u \in Thread : pc[u] \notin {"load", "configuring", "restore"}
    BY <1>4, ConstantsOK DEF Begin, LoadInv, LoadPC
  <2> QED
    BY <1>4, <2>1 DEF Begin, Goto, TypeOK
<1>5. CASE Client
  BY <1>1, <1>2, <1>3, <1>4, <1>5 DEF Client
<1>6. ~WatchdogStep
  BY DEF LeaseFree, WatchdogStep, Wake, Look, Pop, Raise
<1>7. CASE Tick
  BY <1>7 DEF Tick
<1>8. CASE Kill
  BY <1>8 DEF Kill
<1>9. CASE UNCHANGED vars
  BY <1>9 DEF vars, core
<1> QED
  BY <1>5, <1>6, <1>7, <1>8, <1>9

\* While no client uses pause and resume or takes a lease, every register
\* shows the last acknowledged write whenever the expected core runs and no
\* core operation is under way: through any number of reloads, installs,
\* rollbacks and deaths of the process, whichever way each of them went.
THEOREM WritesKept == ASSUME NoPauseOps, LeaseReg = {} PROVE Spec => []AckedKept
<1>1. Init => AckedInv
  BY DEF Init, AckedInv
<1>2. TypeOK /\ LoadInv /\ LeaseFree /\ [Next]_vars => LoadInv' /\ LeaseFree'
  BY NoPauseOps, LeaseReg = {}, ClientLoad, HandlerLoad, OtherLoad, NextLeaseFree DEF Next
<1>3. TypeOK /\ LoadInv /\ LeaseFree /\ AckedInv /\ [Next]_vars => AckedInv'
  <2> SUFFICES ASSUME TypeOK, LoadInv, LeaseFree, AckedInv, [Next]_vars
               PROVE  AckedInv'
    OBVIOUS
  <2>1. ASSUME NEW t \in Thread, SetPause(t) PROVE AckedInv'
    BY <2>1 DEF SetPause, LoadInv
  <2> QED
    BY <2>1, CoreAcked, OtherAcked, NoPauseOps, LeaseReg = {} DEF Next, Handler
<1>4. TypeOK /\ LoadInv /\ AckedInv => AckedKept
  <2> SUFFICES ASSUME TypeOK, LoadInv, AckedInv, coreLock = None PROVE regs = acked
    BY DEF AckedKept
  <2>1. \A t \in Thread : pc[t] \notin LoadPC
    BY ConstantsOK DEF LoadInv
  <2> QED
    BY <2>1 DEF AckedInv, LoadPC
<1> QED
  BY <1>1, <1>2, <1>3, <1>4, InitLoad, InitLeaseFree, TypeCorrect, PTL DEF Spec

-----------------------------------------------------------------------------
\* The dead-man switch, with no core loaded meanwhile: a load in the middle
\* of which the watchdog finds the lease expired raises a fan that the load
\* then puts back (AckedKept and KeepsQuiet assume no lease for that reason).
NoLoads == "reload" \notin Ops /\ "install" \notin Ops

SilenceInv ==
  /\ \A t \in Thread : pc[t] \in {"idle", "pause", "resume"}
  /\ fabric = "up"
  /\ promise[Fan] => \/ Fan \in leased
                     \/ dog.pc = "raise"
                     \/ regs[Fan] >= Safe

LEMMA NextSilence ==
  ASSUME NoLoads, TypeOK, SilenceInv, [Next]_vars PROVE SilenceInv'
<1> USE DEF SilenceInv
<1>1. CASE Read
  BY <1>1 DEF Read, core, leases
<1>2. ASSUME NEW r \in Reg, NEW v \in Val, NEW l \in BOOLEAN, Write(r, v, l)
      PROVE  SilenceInv'
  <2>1. UNCHANGED <<fabric, pc, dog>> /\ regs' = [regs EXCEPT ![r] = v]
    BY <1>2 DEF Write, core, Poked
  <2>2. promise' = [promise EXCEPT ![r] = l \/ r \in leased]
    BY <1>2 DEF Write
  <2>3. leased' = IF l THEN leased \cup {r} ELSE leased
    BY <1>2 DEF Write
  <2>4. CASE r = Fan
    BY <2>1, <2>2, <2>3, <2>4 DEF TypeOK
  <2>5. CASE r # Fan
    BY <2>1, <2>2, <2>3, <2>5, ConstantsOK DEF TypeOK, Registers
  <2> QED
    BY <2>4, <2>5
<1>3. ASSUME NEW r \in Reg, Release(r) PROVE SilenceInv'
  BY <1>3, ConstantsOK DEF Release, core, TypeOK
<1>4. ASSUME NEW t \in Thread, NEW op \in {"pause", "resume"}, AskPause(t, op)
      PROVE  SilenceInv'
  BY <1>4 DEF AskPause, Goto, leases, TypeOK
<1>5. ASSUME NEW t \in Thread, NEW op \in {"reload", "install"}, Begin(t, op)
      PROVE  SilenceInv'
  BY <1>5 DEF Begin, NoLoads
<1>6. ASSUME NEW t \in Thread, SetPause(t) PROVE SilenceInv'
  BY <1>6 DEF SetPause, Goto, leases, TypeOK
<1>7. ASSUME NEW t \in Thread PROVE ~CoreStep(t)
  BY DEF CoreStep, Enter, StartLoad, EndLoad, Finally, LeaveLoad, AbortWalk,
         Restore, Extend
<1>8. CASE Wake
  BY <1>8 DEF Wake, core, leases, TypeOK
<1>9. ASSUME NEW r \in Reg, Look(r) PROVE SilenceInv'
  BY <1>9 DEF Look, core, leases, TypeOK
<1>10. CASE Pop
  <2>1. dog' = [dog EXCEPT !.pc = IF dog.reg = Fan THEN "raise"
                                  ELSE IF dog.expired = {} THEN "sleep" ELSE "scan"]
        /\ dog.pc = "pop"
    BY <1>10 DEF Pop, DogGoto
  <2>2. dog.reg = Fan => dog'.pc = "raise"
    BY <2>1 DEF TypeOK
  <2>3. dog.reg # Fan /\ Fan \in leased => Fan \in leased'
    BY <1>10 DEF Pop
  <2> QED
    BY <1>10, <2>1, <2>2, <2>3 DEF Pop, core
<1>11. CASE Raise
  <2>1. regs'[Fan] >= Safe
    BY <1>11, ConstantsOK DEF Raise, Poked, TypeOK, Registers
  <2> QED
    BY <1>11, <2>1 DEF Raise, core, leases
<1>12. CASE Tick
  BY <1>12 DEF Tick
<1>13. CASE Kill
  <2>1. promise'[Fan] = FALSE /\ fabric' = "up"
    BY <1>13, ConstantsOK DEF Kill
  <2> QED
    BY <1>13, <2>1 DEF Kill
<1>14. CASE UNCHANGED vars
  BY <1>14 DEF vars, core, leases
<1> QED
  BY <1>1, <1>2, <1>3, <1>4, <1>5, <1>6, <1>7, <1>8, <1>9, <1>10, <1>11, <1>12,
     <1>13, <1>14, ConstantsOK DEF Next, Client, Handler, WatchdogStep

\* As long as no core is loaded, a leased write to the fan is never forgotten:
\* with any number of clients writing, releasing, pausing and resuming at any
\* moment, between any two steps of the watchdog, and the process dying.
THEOREM SilenceRaises == ASSUME NoLoads PROVE Spec => []SilenceRaisesFan
<1>1. Init => SilenceInv
  BY ConstantsOK DEF Init, SilenceInv
<1>2. TypeOK /\ SilenceInv /\ [Next]_vars => SilenceInv'
  BY NoLoads, NextSilence
<1>3. SilenceInv => SilenceRaisesFan
  BY DEF SilenceInv, SilenceRaisesFan
<1> QED
  BY <1>1, <1>2, <1>3, TypeCorrect, PTL DEF Spec

-----------------------------------------------------------------------------
\* A load expires no lease.  With extra time still to be given back, the
\* deadline of r is where the unpaused time since the write puts it.
Runs(r, extra) ==
  IF age[r] < Lease THEN left[r] + extra = Lease - age[r] ELSE left[r] + extra <= 0

\* A walk over the leases that a release, or the watchdog, cuts short leaves
\* none that it had still to extend.
NoBrokenWalk == \A t \in Thread : AbortWalk(t) => leased = {}

\* One leased register and no release: no walk is broken then.
OneLease == LeaseReg \subseteq {Fan} /\ "release" \notin Ops

LeaseInv ==
  /\ pause = IF loading THEN Forever ELSE 0
  /\ \A r \in leased : promise[r]
  /\ ~loading => \A r \in leased : Runs(r, 0)
  /\ loading /\ coreLock = None => leased = {}
  /\ \A t \in Thread : pc[t] \in Holding => loading
  /\ \A t \in Thread : pc[t] = "enter" /\ loading => leased = {}
  /\ \A t \in Thread : pc[t] \in {"load", "configuring", "restore", "finally"} =>
       \A r \in leased : Runs(r, held)
  /\ \A t \in Thread : pc[t] = "extend" =>
       /\ leased \subseteq seen
       /\ leased = seen => \A r \in leased : Runs(r, IF r \in todo THEN held ELSE 0)

LEMMA InitLease == Init => LeaseInv
BY DEF Init, LeaseInv, Holding

\* Without some of the leases the others are as they were.
LEMMA FewerLeases ==
  ASSUME TypeOK, LeaseInv, leased' \subseteq leased,
         \A r \in leased' : left'[r] = left[r] /\ age'[r] = age[r] /\ promise'[r] = promise[r],
         UNCHANGED <<pause, loading, core>>
  PROVE  LeaseInv'
<1>1. \A r \in leased' : \A e : Runs(r, e) => Runs(r, e)'
  BY DEF Runs
<1>2. ASSUME NEW t \in Thread, pc[t] = "extend", leased' = seen PROVE leased' = leased
  BY <1>2 DEF LeaseInv
<1> QED
  BY <1>1, <1>2 DEF LeaseInv, core, Runs

\* The requests of the clients: a write starts the lease's time anew, or
\* leaves it running; a release takes it away.
LEMMA ClientLease ==
  ASSUME NoPauseOps, TypeOK, LoadInv, LeaseInv, Client PROVE LeaseInv'
<1>1. CASE Read
  BY <1>1 DEF Read, core, leases, LeaseInv, Runs
<1>2. ASSUME NEW r \in Reg, NEW v \in Val, NEW l \in BOOLEAN, Write(r, v, l)
      PROVE  LeaseInv'
  <2>1. ~loading /\ UNCHANGED <<loading, pause, core>>
    BY <1>2, ConstantsOK DEF Write, Paused, LeaseInv, Forever
  <2>2. leased' \subseteq Reg /\ \A q \in leased' : promise'[q]
    BY <1>2 DEF Write, LeaseInv, TypeOK
  <2>3. ASSUME NEW q \in leased' PROVE Runs(q, 0)'
    <3>1. q \in Reg
      BY <2>2, <2>3, ConstantsOK
    <3>2. CASE q = r /\ l
      <4>1. left'[q] = Lease /\ age'[q] = 0
        BY <1>2, <3>1, <3>2 DEF Write, TypeOK
      <4> QED
        BY <4>1, ConstantsOK DEF Runs
    <3>3. CASE ~(q = r /\ l)
      <4>1. left'[q] = left[q] /\ age'[q] = age[q] /\ q \in leased
        BY <1>2, <2>3, <3>1, <3>3 DEF Write, TypeOK
      <4> QED
        BY <2>1, <4>1 DEF Runs, LeaseInv
    <3> QED
      BY <3>2, <3>3
  <2>4. \A t \in Thread : pc[t] \notin Holding
    BY <2>1 DEF LeaseInv
  <2> QED
    BY <2>1, <2>2, <2>3, <2>4 DEF LeaseInv, core, Holding
<1>3. ASSUME NEW r \in Reg, Release(r) PROVE LeaseInv'
  <2>1. \A q \in leased' : q \in Reg /\ q \in leased /\ q # r
    BY <1>3 DEF Release, TypeOK
  <2>2. \A q \in leased' : left'[q] = left[q] /\ age'[q] = age[q] /\ promise'[q] = promise[q]
    BY <1>3, <2>1 DEF Release, TypeOK
  <2> QED
    BY <1>3, <2>1, <2>2, FewerLeases DEF Release
<1>4. ASSUME NEW t \in Thread, NEW op \in {"pause", "resume"}, AskPause(t, op)
      PROVE  LeaseInv'
  BY <1>4 DEF AskPause, NoPauseOps
<1>5. ASSUME NEW t \in Thread, NEW op \in {"reload", "install"}, Begin(t, op)
      PROVE  LeaseInv'
  <2>1. pc' = [pc EXCEPT ![t] = "enter"] /\ coreLock' = t /\ coreLock = None
    BY <1>5 DEF Begin, Goto
  <2>2. \A u \in Thread : pc'[u] = "enter" \/ pc'[u] = pc[u]
    BY <2>1 DEF TypeOK
  <2>3. \A u \in Thread : pc[u] \notin LoadPC
    BY <2>1, ConstantsOK DEF LoadInv
  <2>4. coreLock' # None
    BY <2>1, ConstantsOK
  <2> QED
    BY <1>5, <2>1, <2>2, <2>3, <2>4 DEF Begin, leases, LeaseInv, LoadPC, Holding, Runs
<1> QED
  BY <1>1, <1>2, <1>3, <1>4, <1>5, ConstantsOK DEF Client

\* The steps of a core operation.
LEMMA CoreLease ==
  ASSUME TypeOK, LoadInv, LeaseInv, NoBrokenWalk, NEW t \in Thread, CoreStep(t)
  PROVE  LeaseInv'
<1>1. coreLock = t /\ pc[t] \in LoadPC /\ \A u \in Thread \ {t} : pc[u] \notin LoadPC
  BY CoreHolder
<1>2. \A u \in Thread \ {t} : pc[u] \notin Holding \cup {"enter", "extend"}
  BY <1>1 DEF LoadPC, Holding
<1>3. coreLock # None
  BY <1>1, ConstantsOK
<1>4. \A r \in Reg : left[r] \in Int /\ age[r] \in 0..Lease
  BY DEF TypeOK
<1>5. held \in Nat /\ leased \subseteq Reg
  BY ConstantsOK DEF TypeOK
<1> USE <1>2, <1>3, <1>4, <1>5 DEF LeaseInv, Runs, Holding, Goto
<1>6. CASE Enter(t)
  <2>1. \A r \in leased : left[r] + 0 = left[r]
    BY <1>4, <1>5
  <2> QED
    BY <1>6, <2>1 DEF Enter, leases, TypeOK
<1>7. CASE StartLoad(t)
  BY <1>7 DEF StartLoad, leases, TypeOK
<1>8. CASE EndLoad(t)
  <2>1. pc'[t] \in {"restore", "stuck", "finally"} /\ pc[t] = "configuring"
        /\ \A u \in Thread \ {t} : pc'[u] = pc[u]
    BY <1>8 DEF EndLoad, TypeOK
  <2> QED
    BY <1>8, <2>1 DEF EndLoad, leases
<1>9. ASSUME NEW r \in Reg, Restore(t, r) PROVE LeaseInv'
  BY <1>9 DEF Restore, leases, TypeOK
<1>10. CASE Finally(t)
  BY <1>10 DEF Finally, leases, TypeOK
<1>11. ASSUME NEW r \in Reg, Extend(t, r) PROVE LeaseInv'
  <2>1. pc[t] = "extend" /\ leased = seen /\ r \in todo
        /\ UNCHANGED <<leased, seen, age, held, pc, pause, loading, coreLock, promise>>
        /\ todo' = todo \ {r}
    BY <1>11 DEF Extend
  <2>2. left' = [left EXCEPT ![r] = left[r] + held]
    BY <1>11 DEF Extend, Extended
  <2>3. ASSUME NEW q \in leased PROVE Runs(q, IF q \in todo THEN held ELSE 0)'
    <3>1. q \in Reg /\ Runs(q, IF q \in todo THEN held ELSE 0)
      BY <2>1
    <3>2. CASE q = r
      <4>1. left'[q] = left[q] + held /\ left[q] \in Int /\ held \in Int /\ q \notin todo'
        BY <2>1, <2>2, <3>1, <3>2 DEF TypeOK
      <4> QED
        BY <2>1, <3>1, <3>2, <4>1
    <3>3. CASE q # r
      BY <2>1, <2>2, <3>1, <3>3 DEF TypeOK
    <3> QED
      BY <3>2, <3>3
  <2> QED
    BY <2>1, <2>3
<1>12. CASE LeaveLoad(t)
  <2>1. \A r \in leased : Runs(r, 0)
    BY <1>12 DEF LeaveLoad
  <2>2. pc'[t] \in {"idle", "enter"} /\ \A u \in Thread \ {t} : pc'[u] = pc[u]
    BY <1>12 DEF LeaveLoad, Done, TypeOK
  <2> QED
    BY <1>12, <2>1, <2>2 DEF LeaveLoad, leases
<1>13. CASE AbortWalk(t)
  <2>1. leased = {}
    BY <1>13 DEF NoBrokenWalk
  <2>2. pc'[t] = "idle" /\ \A u \in Thread \ {t} : pc'[u] = pc[u]
    BY <1>13 DEF AbortWalk, Done, TypeOK
  <2> QED
    BY <1>13, <2>1, <2>2 DEF AbortWalk, leases
<1> QED
  BY <1>6, <1>7, <1>8, <1>9, <1>10, <1>11, <1>12, <1>13 DEF CoreStep

\* Time: outside a load the deadline and the unpaused time move together,
\* during one the deadline and the time to be given back do.
LEMMA TickLease ==
  ASSUME TypeOK, LoadInv, LeaseInv, Tick PROVE LeaseInv'
<1>1. \A r \in Reg : left[r] \in Int /\ age[r] \in 0..Lease
  BY DEF TypeOK
<1>2. held \in 0..MaxLoad /\ leased \subseteq Reg /\ MaxLoad \in Nat /\ Lease \in Nat \ {0}
  BY ConstantsOK DEF TypeOK
<1>3. UNCHANGED <<loading, coreLock, pc, todo, seen, leased, promise>>
  BY DEF Tick
<1>4. pause' = IF loading' THEN Forever ELSE 0
  BY ConstantsOK DEF Tick, LeaseInv, Forever
<1>5. \A t \in Thread : pc[t] # "extend"
  BY DEF Tick, LockFree
<1>6. ASSUME ~loading, NEW r \in leased PROVE Runs(r, 0)'
  <2>1. Runs(r, 0) /\ promise[r] /\ ~Paused
    BY <1>6 DEF LeaseInv, Paused
  <2>2. age'[r] = (IF age[r] < Lease THEN age[r] + 1 ELSE age[r])
    BY <1>2, <2>1 DEF Tick
  <2>3. left'[r] = (IF left[r] > -MaxLoad THEN left[r] - 1 ELSE left[r])
    BY <1>2, <1>6 DEF Tick
  <2> QED
    BY <1>1, <1>2, <2>1, <2>2, <2>3 DEF Runs
<1>7. ASSUME NEW t \in Thread, pc[t] \in {"load", "configuring", "restore", "finally"},
             NEW r \in leased
      PROVE  Runs(r, held)'
  <2>1. coreLock = t /\ coreLock # None /\ loading
    BY <1>7, ConstantsOK DEF LoadInv, LoadPC, LeaseInv, Holding
  <2>2. held < MaxLoad
    BY <1>7, <2>1 DEF Tick
  <2>3. held' = held + 1
    BY <2>1, <2>2 DEF Tick
  <2>4. Paused
    BY <2>1, ConstantsOK DEF LeaseInv, Paused, Forever
  <2>5. age'[r] = age[r]
    BY <1>2, <2>4 DEF Tick
  <2>6. left'[r] = (IF left[r] > -MaxLoad THEN left[r] - 1 ELSE left[r])
    BY <1>2 DEF Tick
  <2>7. Runs(r, held)
    BY <1>7 DEF LeaseInv
  <2> QED
    BY <1>1, <1>2, <2>2, <2>3, <2>5, <2>6, <2>7 DEF Runs
<1> QED
  BY <1>3, <1>4, <1>5, <1>6, <1>7 DEF LeaseInv

\* The watchdog only drops leases; a new process has none.
LEMMA OtherLease ==
  ASSUME TypeOK, LeaseInv, WatchdogStep \/ Kill \/ UNCHANGED vars
  PROVE  LeaseInv'
<1>1. CASE Wake
  BY <1>1 DEF Wake, LeaseInv, Runs, core, leases
<1>2. ASSUME NEW r \in Reg, Look(r) PROVE LeaseInv'
  BY <1>2 DEF Look, LeaseInv, Runs, core, leases
<1>3. CASE Pop
  <2>1. leased' \subseteq leased /\ \A r \in leased' : left'[r] = left[r]
    BY <1>3 DEF Pop, TypeOK
  <2> QED
    BY <1>3, <2>1, FewerLeases DEF Pop
<1>4. CASE Raise
  BY <1>4 DEF Raise, LeaseInv, Runs, core, leases
<1>5. CASE Kill
  <2>1. leased' = {} /\ pause' = 0 /\ ~loading'
        /\ \A t \in Thread : pc'[t] = "idle"
    BY <1>5 DEF Kill
  <2> QED
    BY <2>1 DEF LeaseInv, Holding
<1>6. CASE UNCHANGED vars
  BY <1>6 DEF vars, core, leases, LeaseInv, Runs
<1> QED
  BY <1>1, <1>2, <1>3, <1>4, <1>5, <1>6 DEF WatchdogStep

\* Every step, but for the end of a broken walk.
LEMMA LeaseStep ==
  ASSUME NoPauseOps, TypeOK, LoadInv, LeaseInv, [Next]_vars, [NoBrokenWalk]_vars
  PROVE  LeaseInv'
<1>1. ASSUME NEW t \in Thread, SetPause(t) PROVE LeaseInv'
  BY <1>1 DEF SetPause, LoadInv
<1>2. CASE UNCHANGED vars
  BY <1>2, OtherLease
<1>3. CASE NoBrokenWalk /\ Next
  BY <1>1, <1>3, ClientLease, CoreLease, TickLease, OtherLease DEF Next, Handler
<1> QED
  BY <1>2, <1>3

\* A lease runs out exactly when the traffic has been unpaused for its length
\* since the write, with loads of any length and any outcome in between,
\* writes that renew the lease or not, releases, and the watchdog at any step,
\* for any registers that have one - as long as no load is broken off while it
\* walks over the leases (fpga_access.py:893-898).
THEOREM LeasesRunUnpaused ==
  ASSUME NoPauseOps PROVE Spec /\ [][NoBrokenWalk]_vars => []LeaseRunsUnpaused
<1>1. TypeOK /\ LoadInv /\ [Next]_vars => LoadInv'
  BY NoPauseOps, ClientLoad, HandlerLoad, OtherLoad DEF Next
<1>2. TypeOK /\ LoadInv /\ LeaseInv /\ [Next]_vars /\ [NoBrokenWalk]_vars => LeaseInv'
  BY NoPauseOps, LeaseStep
<1>3. TypeOK /\ LeaseInv => LeaseRunsUnpaused
  <2> SUFFICES ASSUME TypeOK, LeaseInv, ~loading, NEW r \in leased
               PROVE  left[r] <= 0 <=> age[r] = Lease
    BY DEF LeaseRunsUnpaused
  <2>1. Runs(r, 0) /\ left[r] \in Int /\ age[r] \in 0..Lease
    BY DEF LeaseInv, TypeOK
  <2> QED
    BY <2>1, ConstantsOK DEF Runs
<1> QED
  BY <1>1, <1>2, <1>3, InitLoad, InitLease, TypeCorrect, PTL DEF Spec

\* With one lease it is the one the walk has found, or it is gone.
LEMMA OneLeaseStep ==
  ASSUME OneLease, TypeOK, LoadInv, LeaseInv, leased \subseteq {Fan}, seen \subseteq {Fan},
         [Next]_vars
  PROVE  /\ leased' \subseteq {Fan} /\ seen' \subseteq {Fan}
         /\ NoBrokenWalk
<1>1. NoBrokenWalk
  BY DEF NoBrokenWalk, AbortWalk, LeaseInv
<1>2. ASSUME Client PROVE leased' \subseteq {Fan} /\ seen' = seen
  BY <1>2 DEF Client, Read, Write, Release, AskPause, Begin, OneLease, core, leases
<1>3. ASSUME NEW t \in Thread, SetPause(t) \/ CoreStep(t)
      PROVE  leased' = leased /\ seen' \subseteq {Fan}
  BY <1>3 DEF SetPause, CoreStep, Enter, StartLoad, EndLoad, Finally, LeaveLoad, AbortWalk,
              Restore, Extend, leases
<1>4. ASSUME WatchdogStep \/ Tick \/ Kill \/ UNCHANGED vars
      PROVE  leased' \subseteq leased /\ seen' \subseteq seen
  BY <1>4 DEF WatchdogStep, Wake, Look, Pop, Raise, Tick, Kill, vars, core, leases
<1> QED
  BY <1>1, <1>2, <1>3, <1>4 DEF Next, Handler

\* The same for the clients there are, where only the fan has a lease and
\* nobody releases it: no walk is broken off then that had a lease to extend.
THEOREM FanLeaseRunsUnpaused ==
  ASSUME NoPauseOps, OneLease PROVE Spec => []LeaseRunsUnpaused
<1> DEFINE FanOnly == leased \subseteq {Fan} /\ seen \subseteq {Fan}
           All == TypeOK /\ LoadInv /\ LeaseInv /\ FanOnly
<1>1. Init => All
  BY InitLoad, InitLease, InitType DEF Init
<1>2. All /\ [Next]_vars => All' /\ [NoBrokenWalk]_vars
  <2> SUFFICES ASSUME All, [Next]_vars PROVE All' /\ [NoBrokenWalk]_vars
    OBVIOUS
  <2>1. FanOnly' /\ NoBrokenWalk
    BY OneLeaseStep, OneLease
  <2>2. TypeOK'
    BY NextType
  <2>3. LoadInv'
    BY NoPauseOps, ClientLoad, HandlerLoad, OtherLoad DEF Next
  <2>4. LeaseInv'
    BY <2>1, NoPauseOps, LeaseStep
  <2> QED
    BY <2>1, <2>2, <2>3, <2>4
<1> HIDE DEF All
<1>3. Spec => [][NoBrokenWalk]_vars
  BY <1>1, <1>2, PTL DEF Spec
<1> QED
  BY <1>3, LeasesRunUnpaused, NoPauseOps, PTL
=============================================================================
