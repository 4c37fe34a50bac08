--------------------------- MODULE RsuUpdateProofs ---------------------------
(***************************************************************************)
(* Proofs about RsuUpdate, for any builds and any number of updates, core  *)
(* operations and faults.                                                  *)
(***************************************************************************)
EXTENDS RsuUpdate, TLAPS

\* The order of install_rsu, a step at a time.
LEMMA PlanSteps ==
  /\ Len(Plan) = 12
  /\ Plan[1] = <<"erase", "app">>   /\ Plan[2] = <<"erase", "ssbl">>
  /\ Plan[3] = <<"write", "ssbl">>  /\ Plan[4] = <<"erase", "qspi">>
  /\ Plan[5] = <<"write", "qspi">>  /\ Plan[6] = <<"write", "uboot">>
  /\ Plan[7] = <<"write", "card">>  /\ Plan[8] = <<"write", "man">>
  /\ Plan[9] = <<"write", "core">>  /\ Plan[10] = <<"write", "json">>
  /\ Plan[11] = <<"write", "app">>  /\ Plan[12] = <<"verify", "app">>
BY DEF Plan

\* Every file an update touches is one of P1's.
LEMMA PlanFiles ==
  ASSUME NEW i \in 1..12
  PROVE  Plan[i][2] \in Name
<1>1. i = 1 \/ i = 2 \/ i = 3 \/ i = 4 \/ i = 5 \/ i = 6 \/ i = 7 \/ i = 8 \/ i = 9 \/ i = 10
      \/ i = 11 \/ i = 12
  BY SMT
<1> QED BY <1>1, PlanSteps DEF Name, Flash

-----------------------------------------------------------------------------
(* Types, in groups of variables.                                          *)

FileType == file \in [Name -> Content] /\ prev \in [core : Content, man : Content]
FlagType ==
  /\ pending \in BOOLEAN /\ failed \in BOOLEAN /\ rebooting \in BOOLEAN
  /\ access \in BOOLEAN
NameType ==
  /\ image \in {"P1", "factory", "down"}
  /\ target \in {"auto", "P1", "factory"}
  /\ op \in {"idle", "update", "load", "reload", "hung"}
  /\ confirm \in {"none", "waiting", "confirmed", "failed", "factory"}
RunType == run \in [app : Build, uboot : Content, core : Content]
StepType == step \in 1..13 /\ new \in Build
HostType ==
  host \in [pc : {"idle", "upload", "follow"}, build : Build, down : BOOLEAN,
            booted : BOOLEAN, told : {"none", "confirmed", "fell back"}]
WorkType ==
  /\ work \in [updates : 0..MaxUpdates, cores : 0..MaxCores, faults : 0..MaxFaults]
  /\ proven \subseteq Build

LEMMA Groups ==
  TypeOK <=> /\ FileType /\ FlagType /\ NameType /\ RunType /\ StepType
             /\ HostType /\ WorkType
<1>1. Len(Plan) + 1 = 13
  BY PlanSteps
<1> HIDE DEF Plan
<1> QED BY <1>1, Zenon DEF TypeOK, FileType, FlagType, NameType, RunType, StepType, HostType,
                           WorkType

LEMMA UseKeeps ==
  ASSUME WorkType, NEW k \in {"updates", "cores", "faults"}, Use(k), proven' = proven
  PROVE  WorkType'
BY RsuConstants DEF WorkType, Use

LEMMA FileKept ==
  ASSUME TypeOK, [Next]_vars
  PROVE  FileType'
<1> USE DEF FileType
<1> SUFFICES ASSUME FileType, StepType, RunType, Next PROVE FileType'
  BY Groups DEF vars, slotFiles
<1>1. CASE Start
  BY <1>1 DEF Start, FirstCore, Content, Name, Flash, slotFiles
<1>2. CASE Update
  <2>1. ASSUME NEW b \in Build, Upload(b) PROVE FileType'
    BY <2>1 DEF Upload, slotFiles
  <2>2. CASE Touch
    BY <2>2 DEF Touch, Content
  <2>3. CASE Done
    BY <2>3 DEF Done, Content, StepType
  <2>4. CASE Fail \/ Finish
    BY <2>4 DEF Fail, Finish, slotFiles
  <2> QED BY <1>2, <2>1, <2>2, <2>3, <2>4 DEF Update
<1>3. CASE CoreOp
  <2>1. ASSUME NEW c \in Build, InstallCore(c) PROVE FileType'
    BY <2>1 DEF InstallCore, Content, Name
  <2>2. CASE Reload \/ Hang
    BY <2>2 DEF Reload, Hang, slotFiles
  <2>3. CASE Loaded
    BY <2>3 DEF Loaded, Fits, Content
  <2>4. CASE NotLoaded
    BY <2>4 DEF NotLoaded, slotFiles, Content
  <2> QED BY <1>3, <2>1, <2>2, <2>3, <2>4 DEF CoreOp
<1>4. CASE Board \/ Poll \/ Timeout
  BY <1>4 DEF Board, Reboot, PowerCut, AccessDies, Boot, Confirm, GiveUp, Watchdog,
              Poll, Timeout, slotFiles
<1> QED BY <1>1, <1>2, <1>3, <1>4 DEF Next

LEMMA FlagsKept ==
  ASSUME TypeOK, [Next]_vars
  PROVE  FlagType'
<1> USE DEF FlagType
<1> SUFFICES ASSUME FlagType, Next PROVE FlagType'
  BY Groups DEF vars, slotFiles, boardVars
<1>1. CASE Start
  BY <1>1 DEF Start, slotFiles, boardVars
<1>2. CASE Update
  BY <1>2 DEF Update, Upload, Touch, Done, Fail, Finish, slotFiles, boardVars
<1>3. CASE CoreOp
  BY <1>3 DEF CoreOp, InstallCore, Reload, Loaded, NotLoaded, Hang, slotFiles, boardVars
<1>4. CASE Board \/ Poll \/ Timeout
  BY <1>4 DEF Board, Reboot, PowerCut, AccessDies, Boot, Confirm, GiveUp, Watchdog,
              Down, Poll, Timeout, slotFiles, boardVars
<1> QED BY <1>1, <1>2, <1>3, <1>4 DEF Next

LEMMA NamesKept ==
  ASSUME TypeOK, [Next]_vars
  PROVE  NameType'
<1> USE DEF NameType
<1> SUFFICES ASSUME NameType, Next PROVE NameType'
  BY Groups DEF vars, boardVars
<1>1. CASE Start
  BY <1>1 DEF Start, boardVars
<1>2. CASE Update
  BY <1>2 DEF Update, Upload, Touch, Done, Fail, Finish, boardVars
<1>3. CASE CoreOp
  BY <1>3 DEF CoreOp, InstallCore, Reload, Loaded, NotLoaded, Hang, boardVars
<1>4. CASE Board \/ Poll \/ Timeout
  BY <1>4 DEF Board, Reboot, PowerCut, AccessDies, Boot, Confirm, GiveUp, Watchdog,
              Down, Poll, Timeout, boardVars
<1> QED BY <1>1, <1>2, <1>3, <1>4 DEF Next

LEMMA RunKept ==
  ASSUME TypeOK, [Next]_vars
  PROVE  RunType'
<1> USE DEF RunType
<1> SUFFICES ASSUME RunType, FileType, Next PROVE RunType'
  BY Groups DEF vars, boardVars
<1>1. CASE Start \/ Update
  BY <1>1 DEF Start, Update, Upload, Touch, Done, Fail, Finish, boardVars
<1>2. CASE CoreOp
  BY <1>2 DEF CoreOp, InstallCore, Reload, Loaded, NotLoaded, Hang, boardVars, FileType,
              Content, Fits, Name
<1>3. CASE Boot
  BY <1>3, RsuConstants DEF Boot, FileType, Content, Bootable, Name, Flash
<1>4. CASE (Board /\ ~Boot) \/ Poll \/ Timeout
  BY <1>4 DEF Board, Reboot, PowerCut, AccessDies, Confirm, GiveUp, Watchdog,
              Down, Poll, Timeout, boardVars
<1> QED BY <1>1, <1>2, <1>3, <1>4 DEF Next, Board

LEMMA StepKept ==
  ASSUME TypeOK, [Next]_vars
  PROVE  StepType'
<1> USE DEF StepType
<1> SUFFICES ASSUME StepType, Next PROVE StepType'
  BY Groups DEF vars
<1>1. CASE Start \/ CoreOp
  BY <1>1 DEF Start, CoreOp, InstallCore, Reload, Loaded, NotLoaded, Hang
<1>2. CASE Update
  BY <1>2, PlanSteps DEF Update, Upload, Touch, Done, Fail, Finish
<1>3. CASE Board \/ Poll \/ Timeout
  BY <1>3 DEF Board, Reboot, PowerCut, AccessDies, Boot, Confirm, GiveUp, Watchdog,
              Down, Poll, Timeout
<1> QED BY <1>1, <1>2, <1>3 DEF Next

LEMMA HostKept ==
  ASSUME TypeOK, [Next]_vars
  PROVE  HostType'
<1> USE DEF HostType
<1> SUFFICES ASSUME HostType, Next PROVE HostType'
  BY Groups DEF vars
<1>1. CASE Start \/ CoreOp
  BY <1>1 DEF Start, CoreOp, InstallCore, Reload, Loaded, NotLoaded, Hang
<1>2. CASE Update
  <2>1. ASSUME NEW b \in Build, Upload(b) PROVE HostType'
    BY <2>1 DEF Upload
  <2>2. CASE Touch \/ Done \/ Fail \/ Finish
    BY <2>2 DEF Touch, Done, Fail, Finish
  <2> QED BY <1>2, <2>1, <2>2 DEF Update
<1>3. CASE Board
  BY <1>3 DEF Board, Reboot, PowerCut, AccessDies, Boot, Confirm, GiveUp, Watchdog, Down
<1>4. CASE Poll \/ Timeout
  BY <1>4 DEF Poll, Timeout, Tells
<1> QED BY <1>1, <1>2, <1>3, <1>4 DEF Next

LEMMA WorkKept ==
  ASSUME TypeOK, [Next]_vars
  PROVE  WorkType'
<1> SUFFICES ASSUME WorkType, RunType, Next PROVE WorkType'
  BY Groups DEF vars, WorkType
<1>1. CASE Start \/ Update \/ CoreOp
  BY <1>1, UseKeeps DEF Start, Update, Upload, Touch, Done, Fail, Finish, CoreOp, InstallCore,
                        Reload, Loaded, NotLoaded, Hang, WorkType
<1>2. CASE Board \/ Poll \/ Timeout
  BY <1>2, UseKeeps DEF Board, Reboot, PowerCut, AccessDies, Boot, Confirm, GiveUp, Watchdog,
                        Down, Poll, Timeout, WorkType, RunType
<1> QED BY <1>1, <1>2 DEF Next

LEMMA InitType == Init => TypeOK
<1> SUFFICES ASSUME Init PROVE TypeOK
  OBVIOUS
<1>1. PICK b \in Sound \ {Factory}, kept \in SUBSET {{"uboot", "card"}, {"man", "core"}} :
        /\ file = [n \in Name |-> IF n \in Flash \cup UNION kept THEN b ELSE Absent]
        /\ run = [app |-> b, uboot |-> b, core |-> b]
        /\ new = b
        /\ host = [pc |-> "idle", build |-> b, down |-> FALSE, booted |-> FALSE,
                   told |-> "none"]
  BY DEF Init
<1>2. b \in Build
  BY RsuConstants
<1>3. FileType /\ RunType /\ HostType
  BY <1>1, <1>2 DEF Init, FileType, RunType, HostType, Content
<1>4. FlagType /\ NameType
  BY DEF Init, FlagType, NameType
<1>5. StepType /\ WorkType
  BY <1>1, <1>2, RsuConstants DEF Init, StepType, WorkType
<1> QED BY <1>3, <1>4, <1>5, Groups

\* Every variable keeps its type.
THEOREM TypeCorrect == Spec => []TypeOK
<1>1. ASSUME TypeOK, [Next]_vars PROVE TypeOK'
  <2>1. FileType' /\ FlagType' /\ NameType' /\ RunType' /\ StepType' /\ HostType' /\ WorkType'
    BY <1>1, FileKept, FlagsKept, NamesKept, RunKept, StepKept, HostKept, WorkKept
  <2> QED BY <2>1, Groups, PTL
<1> QED BY InitType, <1>1, PTL DEF Spec

-----------------------------------------------------------------------------
(* What P1 would boot.                                                     *)

\* An update under way: P1 does not boot between its erase and its write, and
\* everything written so far is the bundle's.
Progress ==
  op = "update" =>
    /\ access
    /\ step \in 2..11 => ~Bootable
    /\ step > 3 => file["ssbl"] = new
    /\ step > 5 => file["qspi"] = new
    /\ step > 6 => file["uboot"] = new
    /\ step > 7 => file["card"] = new
    /\ step > 8 => file["man"] = new

\* A core install under way: the marker is there, and what is loaded is what
\* the manifest is of; no marker is left once the running P1 was started, and a
\* board that is down serves nothing.
Marked ==
  /\ op = "load" => pending /\ access /\ image = "P1" /\ file["core"] = file["man"]
                    /\ file["man"] \in Build
  /\ access /\ image = "P1" /\ op # "load" => ~pending
  /\ image = "down" => ~access

\* While another image runs than the one in the slot, and their cores do not
\* fit each other, the manifests are of cores that fit the slot's: a core that
\* passes the check cannot be loaded, and does not come to the card.
Owned ==
  image = "P1" /\ Bootable /\ ~Fits(run.app, file["app"]) =>
    /\ file["man"] \in Build => Fits(file["man"], file["app"])
    /\ pending /\ prev.man \in Build => Fits(prev.man, file["app"])

IInv == TypeOK /\ BootableIsWhole /\ Progress /\ Marked /\ Owned

Kept == BootableIsWhole' /\ Progress' /\ Marked' /\ Owned'

LEMMA InitInv == Init => IInv
<1> SUFFICES ASSUME Init PROVE IInv
  OBVIOUS
<1>1. PICK b \in Sound \ {Factory}, kept \in SUBSET {{"uboot", "card"}, {"man", "core"}} :
        /\ file = [n \in Name |-> IF n \in Flash \cup UNION kept THEN b ELSE Absent]
        /\ run = [app |-> b, uboot |-> b, core |-> b]
  BY DEF Init
<1>2. b \in Build
  BY RsuConstants
<1>3. /\ file["app"] = b /\ file["ssbl"] = b /\ file["qspi"] = b
      /\ file["uboot"] \in {b, Absent} /\ file["card"] \in {b, Absent}
  BY <1>1 DEF Name, Flash
<1>4. BootableIsWhole /\ Owned
  BY <1>1, <1>2, <1>3 DEF BootableIsWhole, Owned, Bootable, Fits
<1>5. Progress /\ Marked
  BY DEF Init, Progress, Marked
<1> QED BY <1>4, <1>5, InitType DEF IInv

LEMMA StartKeeps ==
  ASSUME IInv, Start
  PROVE  Kept
<1> USE DEF IInv, Start, boardVars
<1>1. FileType /\ FlagType
  BY Groups
<1>2. /\ file'["app"] = file["app"] /\ file'["ssbl"] = file["ssbl"]
      /\ file'["qspi"] = file["qspi"] /\ file'["uboot"] = file["uboot"]
      /\ file'["card"] = file["card"]
      /\ file'["man"] = file["man"] \/ (pending /\ image = "P1" /\ file'["man"] = prev.man)
  BY <1>1 DEF FileType, slotFiles, Name, Flash
<1>3. BootableIsWhole'
  BY <1>2 DEF BootableIsWhole, Bootable, Fits
<1>4. op # "update" /\ op # "load"
  BY DEF Progress, Marked
<1>5. Progress' /\ Marked'
  BY <1>4 DEF Progress, Marked
<1>6. Owned'
  BY <1>2 DEF Owned, Bootable, Fits
<1> QED BY <1>3, <1>5, <1>6 DEF Kept

LEMMA UploadKeeps ==
  ASSUME IInv, NEW b \in Build, Upload(b)
  PROVE  Kept
BY DEF IInv, Upload, slotFiles, boardVars, Kept, BootableIsWhole, Bootable, Progress,
       Marked, Owned, Fits

LEMMA TouchKeeps ==
  ASSUME IInv, Touch
  PROVE  Kept
<1> USE DEF IInv, Touch, boardVars
<1>1. FileType /\ StepType
  BY Groups
<1>2. step \in 1..5 \cup {11}
  BY <1>1, PlanSteps DEF StepType, Flash
<1>3. ~Bootable'
  BY <1>1, <1>2, PlanSteps, RsuConstants DEF Progress, Bootable, FileType, Name, Flash, StepType
<1>4. /\ step > 3 => file'["ssbl"] = new
      /\ step > 5 => file'["qspi"] = new
      /\ step > 6 => file'["uboot"] = new
      /\ step > 7 => file'["card"] = new
      /\ step > 8 => file'["man"] = new
  BY <1>1, <1>2, PlanSteps DEF Progress, FileType, Name, Flash
<1>5. BootableIsWhole' /\ Owned'
  BY <1>3 DEF BootableIsWhole, Owned
<1>6. Progress'
  BY <1>3, <1>4 DEF Progress
<1>7. Marked'
  BY DEF Marked
<1> QED BY <1>5, <1>6, <1>7 DEF Kept

LEMMA DoneKeeps ==
  ASSUME IInv, Done
  PROVE  Kept
<1> USE DEF IInv, Done, boardVars
<1>1. FileType /\ StepType /\ new \in Build
  BY Groups DEF StepType
<1>2. step \in 1..12
  BY <1>1, PlanSteps DEF StepType
<1>3. step = 1 \/ step = 2 \/ step = 3 \/ step = 4 \/ step = 5 \/ step = 6 \/ step = 7 \/ step = 8
      \/ step = 9 \/ step = 10 \/ step = 11 \/ step = 12
  BY <1>2
<1>4. step \in 1..10 => ~Bootable'
  BY <1>1, <1>3, PlanSteps, RsuConstants DEF Progress, Bootable, FileType, Name, Flash
<1>5. /\ step > 2 => file'["ssbl"] = new
      /\ step > 4 => file'["qspi"] = new
      /\ step > 5 => file'["uboot"] = new
      /\ step > 6 => file'["card"] = new
      /\ step > 7 => file'["man"] = new
  BY <1>1, <1>3, PlanSteps DEF Progress, FileType, Name, Flash
<1>6. step = 11 => file'["app"] = new
  BY <1>1, PlanSteps DEF FileType, Name, Flash
<1>7. step = 12 => file' = file
  BY PlanSteps
<1>8. Progress'
  BY <1>2, <1>4, <1>5 DEF Progress
<1>9. BootableIsWhole' /\ Owned'
  <2>1. CASE step \in 1..10
    BY <2>1, <1>4 DEF BootableIsWhole, Owned
  <2>2. CASE step = 11
    <3>1. BootableIsWhole'
      BY <2>2, <1>1, <1>5, <1>6 DEF BootableIsWhole, Fits
    <3>2. ~pending \/ image # "P1"
      BY DEF Progress, Marked
    <3>3. Owned'
      BY <2>2, <1>1, <1>5, <1>6, <3>2 DEF Owned, Fits
    <3> QED BY <3>1, <3>3
  <2>3. CASE step = 12
    BY <2>3, <1>7 DEF BootableIsWhole, Owned, Bootable, Fits
  <2> QED BY <1>2, <2>1, <2>2, <2>3
<1>10. Marked'
  BY DEF Marked
<1> QED BY <1>8, <1>9, <1>10 DEF Kept

LEMMA UpdateEndKeeps ==
  ASSUME IInv, Fail \/ Finish
  PROVE  Kept
BY DEF IInv, Fail, Finish, slotFiles, boardVars, Kept, BootableIsWhole, Bootable, Progress,
       Marked, Owned, Fits

LEMMA InstallCoreKeeps ==
  ASSUME IInv, NEW c \in Build, InstallCore(c)
  PROVE  Kept
<1> USE DEF IInv, InstallCore, boardVars
<1>1. FileType
  BY Groups
<1>2. /\ file'["app"] = file["app"] /\ file'["ssbl"] = file["ssbl"]
      /\ file'["qspi"] = file["qspi"] /\ file'["uboot"] = file["uboot"]
      /\ file'["card"] = file["card"] /\ file'["man"] = c /\ file'["core"] = c
      /\ prev'.man = file["man"]
  BY <1>1 DEF FileType, Name, Flash
<1>3. BootableIsWhole'
  BY <1>2 DEF BootableIsWhole, Bootable, Fits
<1>4. Progress' /\ Marked'
  BY <1>2 DEF Progress, Marked
<1>5. Owned'
  BY <1>2 DEF Owned, Bootable, Fits
<1> QED BY <1>3, <1>4, <1>5 DEF Kept

LEMMA ReloadKeeps ==
  ASSUME IInv, Reload \/ Hang
  PROVE  Kept
BY DEF IInv, Reload, Hang, slotFiles, boardVars, Kept, BootableIsWhole, Bootable, Progress,
       Marked, Owned, Fits

\* A core that was loaded fits what runs and has a manifest that fits the slot:
\* so what runs and the slot have the same periphery.
LEMMA LoadedKeeps ==
  ASSUME IInv, Loaded
  PROVE  Kept
<1> USE DEF IInv, Loaded
<1>1. FileType /\ RunType
  BY Groups
<1>2. CASE op = "reload"
  BY <1>1, <1>2 DEF Kept, BootableIsWhole, Bootable, Progress, Marked, Owned, Fits, RunType
<1>3. CASE op = "load"
  <2>1. /\ file'["app"] = file["app"] /\ file'["ssbl"] = file["ssbl"]
        /\ file'["qspi"] = file["qspi"] /\ file'["uboot"] = file["uboot"]
        /\ file'["card"] = file["core"] /\ file'["man"] = file["man"]
        /\ run'.app = run.app
    BY <1>1, <1>3 DEF FileType, RunType, Name, Flash
  <2>2. Bootable => Fits(file["core"], file["app"])
    BY <1>1, <1>3 DEF Marked, Owned, Fits, RunType
  <2>3. BootableIsWhole'
    BY <2>1, <2>2 DEF BootableIsWhole, Bootable, Fits
  <2>4. Progress' /\ Marked'
    BY <1>3 DEF Progress, Marked
  <2>5. Owned'
    BY <1>3, <2>1 DEF Owned, Bootable, Fits
  <2> QED BY <2>3, <2>4, <2>5 DEF Kept
<1> QED BY <1>2, <1>3

LEMMA NotLoadedKeeps ==
  ASSUME IInv, NotLoaded
  PROVE  Kept
<1> USE DEF IInv, NotLoaded
<1>1. FileType /\ RunType
  BY Groups
<1>2. /\ file'["app"] = file["app"] /\ file'["ssbl"] = file["ssbl"]
      /\ file'["qspi"] = file["qspi"] /\ file'["uboot"] = file["uboot"]
      /\ file'["card"] = file["card"] /\ run'.app = run.app
      /\ file'["man"] = IF op = "load" THEN prev.man ELSE file["man"]
  BY <1>1 DEF FileType, RunType, Name, Flash, slotFiles
<1>3. BootableIsWhole'
  BY <1>2 DEF BootableIsWhole, Bootable, Fits
<1>4. Progress' /\ Marked'
  BY DEF Progress, Marked, slotFiles
<1>5. Owned'
  BY <1>2 DEF Owned, Marked, Bootable, Fits, slotFiles
<1> QED BY <1>3, <1>4, <1>5 DEF Kept

LEMMA BootKeeps ==
  ASSUME IInv, Boot
  PROVE  Kept
<1> USE DEF IInv, Boot, slotFiles
<1>1. image' = "P1" => run'.app = file["app"]
  OBVIOUS
<1>2. Owned'
  BY <1>1 DEF Owned, Bootable, Fits
<1>3. op # "load" /\ op # "update" /\ ~access
  BY DEF Marked, Progress
<1>4. BootableIsWhole'
  BY DEF BootableIsWhole, Bootable, Fits
<1>5. Progress' /\ Marked'
  BY <1>3 DEF Progress, Marked
<1> QED BY <1>2, <1>4, <1>5 DEF Kept

LEMMA BoardKeeps ==
  ASSUME IInv, Board, ~Boot
  PROVE  Kept
BY DEF IInv, Board, Reboot, PowerCut, AccessDies, Confirm, GiveUp, Watchdog, Down, slotFiles,
       Kept, BootableIsWhole, Bootable, Progress, Marked, Owned, Fits

LEMMA StepInv ==
  ASSUME IInv, [Next]_vars
  PROVE  IInv'
<1>1. TypeOK'
  <2>1. FileType' /\ FlagType' /\ NameType' /\ RunType' /\ StepType' /\ HostType' /\ WorkType'
    BY FileKept, FlagsKept, NamesKept, RunKept, StepKept, HostKept, WorkKept DEF IInv
  <2> QED BY <2>1, Groups, PTL
<1>2. Kept
  <2>1. CASE UNCHANGED vars
    BY <2>1 DEF vars, slotFiles, boardVars, IInv, Kept, BootableIsWhole, Bootable,
                Progress, Marked, Owned, Fits
  <2>2. CASE Start
    BY <2>2, StartKeeps
  <2>3. CASE Update
    BY <2>3, UploadKeeps, TouchKeeps, DoneKeeps, UpdateEndKeeps DEF Update
  <2>4. CASE CoreOp
    BY <2>4, InstallCoreKeeps, ReloadKeeps, LoadedKeeps, NotLoadedKeeps DEF CoreOp
  <2>5. CASE Board
    BY <2>5, BootKeeps, BoardKeeps
  <2>6. CASE Poll \/ Timeout
    BY <2>6 DEF Poll, Timeout, slotFiles, boardVars, IInv, Kept, BootableIsWhole,
                Bootable, Progress, Marked, Owned, Fits
  <2> QED BY <2>1, <2>2, <2>3, <2>4, <2>5, <2>6 DEF Next
<1> QED BY <1>1, <1>2 DEF IInv, Kept

\* Whenever the SDM would boot P1, its image, U-Boot and cores are of one build.
THEOREM BootsWhole == Spec => []BootableIsWhole
<1>1. IInv => BootableIsWhole
  BY DEF IInv
<1> QED BY InitInv, StepInv, <1>1, PTL DEF Spec

-----------------------------------------------------------------------------
(* The update implements AtomicSlot.                                       *)

\* What the board runs was loaded whole, and its core still fits it, if it runs.
RunWhole == run.uboot = run.app /\ (run.core = Absent \/ Fits(run.core, run.app))

\* The steps that leave the slot as it is and the image that runs.
Stutters == file'["app"] = file["app"] /\ run'.app = run.app /\ RunWhole'

LEMMA StuttersMap ==
  ASSUME RunWhole, Stutters
  PROVE  UNCHANGED <<slotAbstract, runAbstract>>
BY DEF RunWhole, Stutters, slotAbstract, runAbstract, Bootable, Fits

LEMMA StartStutters ==
  ASSUME TypeOK, RunWhole, Start
  PROVE  Stutters
<1>1. FileType
  BY Groups
<1> QED BY <1>1 DEF Start, FileType, Stutters, RunWhole, Fits, slotFiles, boardVars, Name, Flash

LEMMA CoreStutters ==
  ASSUME TypeOK, RunWhole, CoreOp
  PROVE  Stutters
<1>1. FileType /\ RunType
  BY Groups
<1>2. ASSUME NEW c \in Build, InstallCore(c) PROVE Stutters
  BY <1>1, <1>2 DEF InstallCore, FileType, Stutters, RunWhole, Fits, boardVars, Name, Flash
<1>3. CASE Reload \/ Hang
  BY <1>3 DEF Reload, Hang, Stutters, RunWhole, Fits, slotFiles, boardVars
<1>4. CASE Loaded
  BY <1>1, <1>4 DEF Loaded, FileType, RunType, Stutters, RunWhole, Fits, Name, Flash
<1>5. CASE NotLoaded
  BY <1>1, <1>5 DEF NotLoaded, FileType, RunType, Stutters, RunWhole, Fits, Name, Flash, slotFiles
<1> QED BY <1>2, <1>3, <1>4, <1>5 DEF CoreOp

LEMMA OtherStutters ==
  ASSUME RunWhole,
         \/ \E b \in Build \ {Factory} : Upload(b)
         \/ Fail \/ Finish
         \/ Board /\ ~Boot
         \/ Poll \/ Timeout
         \/ UNCHANGED vars
  PROVE  Stutters
BY DEF Upload, Fail, Finish, Board, Reboot, PowerCut, AccessDies, Confirm, GiveUp, Watchdog,
       Down, Poll, Timeout, vars, slotFiles, boardVars, Stutters, RunWhole, Fits

LEMMA TouchMaps ==
  ASSUME TypeOK, RunWhole, Touch
  PROVE  RunWhole' /\ (Stutters \/ Atomic!Erase)
<1>1. FileType /\ StepType
  BY Groups
<1>2. step \in 1..12
  BY <1>1, PlanSteps DEF Touch, StepType
<1>3. Plan[step][2] \in Name
  BY <1>2, PlanFiles
<1>4. RunWhole' /\ run' = run
  BY DEF Touch, boardVars, RunWhole, Fits
<1>5. CASE Plan[step][2] = "app"
  <2>1. file'["app"] = Torn
    BY <1>1, <1>5 DEF Touch, FileType, Name, Flash
  <2>2. slotAbstract' = Absent
    BY <2>1, RsuConstants DEF slotAbstract, Bootable
  <2>3. runAbstract' = runAbstract
    BY <1>4 DEF runAbstract, Fits
  <2> QED BY <1>4, <2>2, <2>3 DEF Atomic!Erase
<1>6. CASE Plan[step][2] # "app"
  BY <1>1, <1>3, <1>4, <1>6 DEF Touch, FileType, Stutters, Name, Flash
<1> QED BY <1>4, <1>5, <1>6

LEMMA DoneMaps ==
  ASSUME IInv, RunWhole, Done
  PROVE  RunWhole' /\ (Stutters \/ Atomic!Write)
<1>1. FileType /\ StepType /\ new \in Build
  BY Groups DEF IInv, StepType
<1>2. step \in 1..12
  BY <1>1, PlanSteps DEF Done, StepType
<1>3. RunWhole' /\ run' = run
  BY DEF Done, boardVars, RunWhole, Fits
<1>4. CASE step = 11
  <2>1. file["app"] = Torn /\ file'["app"] = new
    BY <1>1, <1>4, PlanSteps DEF Done, FileType, Name, Flash
  <2>2. slotAbstract = Absent /\ slotAbstract' = new
    BY <1>1, <2>1, RsuConstants DEF slotAbstract, Bootable
  <2>3. runAbstract' = runAbstract
    BY <1>3 DEF runAbstract, Fits
  <2> QED BY <1>1, <1>3, <2>2, <2>3 DEF Atomic!Write
<1>5. CASE step # 11
  <2>1. step = 1 \/ step = 2 \/ step = 3 \/ step = 4 \/ step = 5 \/ step = 6 \/ step = 7
        \/ step = 8 \/ step = 9 \/ step = 10 \/ step = 12
    BY <1>2, <1>5
  <2>2. file'["app"] = file["app"]
    BY <1>1, <2>1, PlanSteps DEF Done, FileType, Name, Flash
  <2> QED BY <1>3, <2>2 DEF Stutters
<1> QED BY <1>3, <1>4, <1>5

LEMMA BootMaps ==
  ASSUME IInv, Boot
  PROVE  RunWhole' /\ Atomic!Boot
<1>1. file' = file
  BY DEF Boot, slotFiles
<1>2. slotAbstract' = slotAbstract
  BY <1>1 DEF slotAbstract, Bootable
<1>3. CASE Bootable /\ target # "factory"
  <2>1. RunWhole' /\ run'.app = file["app"]
    BY <1>3, RsuConstants DEF Boot, IInv, BootableIsWhole, Bootable, RunWhole, Fits
  <2>2. runAbstract' = slotAbstract /\ slotAbstract # Absent
    BY <1>3, <2>1, RsuConstants DEF runAbstract, RunWhole, slotAbstract, Bootable
  <2> QED BY <1>2, <2>1, <2>2 DEF Atomic!Boot
<1>4. CASE ~(Bootable /\ target # "factory")
  <2>1. RunWhole' /\ run'.app = Factory
    BY <1>4, RsuConstants DEF Boot, RunWhole, Fits
  <2>2. runAbstract' = Factory /\ Factory # Absent
    BY <2>1, RsuConstants DEF runAbstract, RunWhole
  <2> QED BY <1>2, <2>1, <2>2 DEF Atomic!Boot
<1> QED BY <1>3, <1>4

\* An update changes the slot from one build to none that boots and on to the
\* new one, and nothing is ever loaded that is not whole.
THEOREM AtomicUpdate == Spec => ImplementsAtomicSlot
<1>1. Init => RunWhole /\ Atomic!Init
  <2> SUFFICES ASSUME Init PROVE RunWhole /\ Atomic!Init
    OBVIOUS
  <2>1. PICK b \in Sound \ {Factory}, kept \in SUBSET {{"uboot", "card"}, {"man", "core"}} :
          /\ file = [n \in Name |-> IF n \in Flash \cup UNION kept THEN b ELSE Absent]
          /\ run = [app |-> b, uboot |-> b, core |-> b]
    BY DEF Init
  <2>2. b \in Build /\ file["app"] = b
    BY <2>1, RsuConstants DEF Name, Flash
  <2> QED BY <2>1, <2>2 DEF RunWhole, Fits, Atomic!Init, slotAbstract, runAbstract, Bootable
<1>2. ASSUME IInv, RunWhole, [Next]_vars
      PROVE  RunWhole' /\ [Atomic!Next]_<<slotAbstract, runAbstract>>
  <2>1. CASE Stutters
    BY <1>2, <2>1, StuttersMap DEF Stutters
  <2>2. CASE Touch
    BY <1>2, <2>2, <2>1, TouchMaps DEF IInv, Atomic!Next
  <2>3. CASE Done
    BY <1>2, <2>3, <2>1, DoneMaps DEF Atomic!Next
  <2>4. CASE Boot
    BY <1>2, <2>4, BootMaps DEF Atomic!Next
  <2>5. CASE Start
    BY <1>2, <2>5, <2>1, StartStutters DEF IInv
  <2>6. CASE CoreOp
    BY <1>2, <2>6, <2>1, CoreStutters DEF IInv
  <2> QED
    BY <1>2, <2>1, <2>2, <2>3, <2>4, <2>5, <2>6, OtherStutters DEF Next, Update
<1> QED BY InitInv, StepInv, <1>1, <1>2, PTL DEF Spec, ImplementsAtomicSlot, Atomic!Spec

-----------------------------------------------------------------------------
(* What deploy_rsu.py tells.                                               *)

\* From the upload on, what is written, then what is in the slot and, after
\* the boot that deploy_rsu.py waits for, what runs from the slot is the build
\* of its bundle: there is no other upload meanwhile.
Followed ==
  /\ op = "update" <=> host.pc = "upload"
  /\ host.pc = "upload" => new = host.build /\ ~host.booted
  /\ op = "update" /\ step > 11 => file["app"] = new
  /\ host.pc # "idle" => host.told = "none"
  /\ host.pc = "follow" => file["app"] = host.build
  /\ host.pc = "follow" /\ host.booted /\ image = "P1" => run.app = host.build
  /\ confirm = "confirmed" => run.app \in Sound \cap proven

ToldInv == Followed /\ ToldConfirmed

LEMMA InitTold == Init => ToldInv
BY DEF Init, ToldInv, Followed, ToldConfirmed

LEMMA UpdateTold ==
  ASSUME IInv, ToldInv, Update
  PROVE  ToldInv'
<1>1. FileType /\ StepType /\ HostType
  BY Groups DEF IInv
<1> USE DEF ToldInv, Followed, ToldConfirmed
<1>2. ASSUME NEW b \in Build, Upload(b) PROVE ToldInv'
  <2>1. op' = "update" /\ step' = 1 /\ new' = b /\ UNCHANGED <<run, confirm, proven>>
    BY <1>2 DEF Upload, boardVars
  <2>2. /\ host'.pc = "upload" /\ host'.build = b /\ ~host'.booted
        /\ host'.told = "none"
    BY <1>2 DEF Upload
  <2> QED
    BY <2>1, <2>2
<1>3. CASE Touch
  <2>1. step \in 1..12
    BY <1>1, <1>3, PlanSteps DEF Touch, StepType
  <2>2. step # 12
    BY <1>3, PlanSteps DEF Touch
  <2>3. op = "update" /\ host.pc = "upload" /\ ~(step > 11)
    BY <1>3, <2>1, <2>2 DEF Touch
  <2>4. UNCHANGED <<op, host, new, step, image, run, confirm, proven>>
    BY <1>3 DEF Touch, boardVars
  <2> QED
    BY <2>3, <2>4
<1>4. CASE Done
  <2>1. step \in 1..12
    BY <1>1, <1>4, PlanSteps DEF Done, StepType
  <2>2. step = 11 => file'["app"] = new
    BY <1>1, <1>4, PlanSteps DEF Done, FileType, Name, Flash
  <2>3. step = 12 => file' = file
    BY <1>4, PlanSteps DEF Done
  <2> QED
    BY <1>1, <1>4, <2>1, <2>2, <2>3 DEF Done, boardVars
<1>5. CASE Fail
  BY <1>1, <1>5 DEF Fail, HostType, slotFiles, boardVars
<1>6. CASE Finish
  <2>1. file["app"] = host.build
    BY <1>6, PlanSteps DEF Finish
  <2> QED
    BY <1>1, <1>6, <2>1 DEF Finish, HostType, slotFiles
<1> QED
  BY <1>2, <1>3, <1>4, <1>5, <1>6 DEF Update

LEMMA BoardTold ==
  ASSUME IInv, ToldInv, Start \/ CoreOp \/ Board
  PROVE  ToldInv'
<1>1. FileType /\ RunType /\ HostType /\ WorkType
  BY Groups DEF IInv
<1> USE DEF ToldInv, Followed, ToldConfirmed
<1>2. CASE Start
  <2>1. file'["app"] = file["app"] /\ op # "update"
    BY <1>1, <1>2 DEF Start, FileType, slotFiles, Name, Flash, IInv, Progress
  <2> QED
    BY <1>2, <2>1 DEF Start, boardVars
<1>3. CASE CoreOp
  <2>1. file'["app"] = file["app"] /\ run'.app = run.app
    BY <1>1, <1>3 DEF CoreOp, InstallCore, Reload, Loaded, NotLoaded, Hang, FileType,
                      RunType, slotFiles, boardVars, Name, Flash
  <2>2. op # "update" /\ op' # "update"
    BY <1>3 DEF CoreOp, InstallCore, Reload, Loaded, NotLoaded, Hang
  <2>3. UNCHANGED <<host, image, confirm, proven>>
    BY <1>3 DEF CoreOp, InstallCore, Reload, Loaded, NotLoaded, Hang, boardVars
  <2> QED
    BY <2>1, <2>2, <2>3
<1>4. CASE Boot
  <2>1. op # "update" /\ UNCHANGED <<op, step, new, file, proven>>
    BY <1>4 DEF Boot, IInv, Progress, Marked, slotFiles
  <2>2. image' = "P1" => run'.app = file["app"]
    BY <1>4 DEF Boot
  <2>3. confirm' # "confirmed"
    BY <1>4 DEF Boot
  <2>4. /\ host'.pc = host.pc /\ host'.told = host.told /\ host'.build = host.build
        /\ host'.booted = (host.booted \/ host.pc = "follow")
    BY <1>1, <1>4 DEF Boot, HostType
  <2> QED
    BY <2>1, <2>2, <2>3, <2>4
<1>5. CASE Confirm
  BY <1>5 DEF Confirm, Healthy, slotFiles, RunType
<1>6. CASE GiveUp
  BY <1>6 DEF GiveUp, slotFiles
<1>7. CASE Reboot \/ PowerCut \/ AccessDies \/ Watchdog
  <2>1. /\ host'.pc = IF host.pc = "upload" THEN "idle" ELSE host.pc
        /\ host'.told = host.told /\ host'.build = host.build
        /\ host'.booted = host.booted
    BY <1>1, <1>7 DEF Reboot, PowerCut, AccessDies, Watchdog, Down, HostType
  <2>2. op' = "idle" /\ UNCHANGED <<file, run, proven>>
    BY <1>7 DEF Reboot, PowerCut, AccessDies, Watchdog, Down, slotFiles
  <2>3. (image' = "P1" => image = "P1") /\ (confirm' = "confirmed" => confirm = "confirmed")
    BY <1>7 DEF Reboot, PowerCut, AccessDies, Watchdog, Down
  <2> QED
    BY <2>1, <2>2, <2>3
<1> QED
  BY <1>2, <1>3, <1>4, <1>5, <1>6, <1>7 DEF Board

LEMMA HostTold ==
  ASSUME IInv, ToldInv, Poll \/ Timeout \/ UNCHANGED vars
  PROVE  ToldInv'
<1>1. HostType
  BY Groups DEF IInv
<1> USE DEF ToldInv, Followed, ToldConfirmed
<1>2. CASE Poll
  <2>1. UNCHANGED <<file, image, run, confirm, op, step, new, proven>>
    BY <1>2 DEF Poll, slotFiles, boardVars
  <2>2. /\ host.pc = "follow" /\ host'.pc \in {"follow", "idle"}
        /\ host'.build = host.build /\ host'.booted = host.booted
        /\ host'.pc = "follow" => host'.told = host.told
        /\ host'.told = host.told \/ host'.told = Tells
    BY <1>1, <1>2 DEF Poll, HostType
  <2>3. host.booted /\ Tells = "confirmed" => host.build \in Sound \cap proven
    BY <2>2 DEF Tells
  <2> QED
    BY <2>1, <2>2, <2>3
<1>3. CASE Timeout
  BY <1>1, <1>3 DEF Timeout, HostType, slotFiles, boardVars
<1>4. CASE UNCHANGED vars
  BY <1>4 DEF vars, slotFiles, boardVars
<1> QED
  BY <1>2, <1>3, <1>4

\* When deploy_rsu.py tells that an update is confirmed, and the board has
\* booted since, the build comes up healthy and rsu-confirm has confirmed it
\* in P1: with core installs, power cuts, a watchdog reset or the death of the
\* serving process at any moment between the upload and the last answer.
THEOREM ToldIsConfirmed == Spec => []ToldConfirmed
<1>1. IInv /\ ToldInv /\ [Next]_vars => ToldInv'
  BY UpdateTold, BoardTold, HostTold DEF Next
<1>2. ToldInv => ToldConfirmed
  BY DEF ToldInv
<1> QED
  BY InitInv, StepInv, InitTold, <1>1, <1>2, PTL DEF Spec
=============================================================================
