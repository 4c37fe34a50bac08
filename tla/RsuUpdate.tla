----------------------------- MODULE RsuUpdate ------------------------------
(***************************************************************************)
(* Remote system update: install_rsu of fpga_access.py, which writes a     *)
(* whole new image to flash slot P1, the boot that follows, rsu-confirm.sh *)
(* with the HPS watchdog, and deploy_rsu.py, which follows it all from the *)
(* host.  The core operations of the running image (CoreInstall has their  *)
(* steps) share core_lock and the directory /lib/firmware/rsu/P1 with it.  *)
(*                                                                         *)
(* file holds all that P1's boot and its core operations use; a value is   *)
(* the build the content comes from.  The flash and the SDM are external:  *)
(* librsu takes an image out of the boot table before it erases it and     *)
(* enters it once it is written, so a Torn image is not booted.            *)
(***************************************************************************)
EXTENDS Naturals, Sequences

CONSTANTS
  Build,       \* builds: an image with its U-Boot and its core
  Factory,     \* the one in the factory image
  Sound,       \* those that come up healthy
  Periphery,   \* what a core has to fit: the pins, HPS and DDR of a build
  MaxUpdates, MaxCores, MaxFaults,  \* bounds
  Absent, Torn

ASSUME RsuConstants ==
  /\ Factory \in Build /\ Sound \subseteq Build /\ Periphery \in [Build -> Nat]
  /\ Absent \notin Build /\ Torn \notin Build /\ Absent # Torn
  /\ MaxUpdates \in Nat /\ MaxCores \in Nat /\ MaxFaults \in Nat

VARIABLES
  file,        \* P1's files
  pending,     \* rsu/P1/de25_nano.core.pending exists
  prev,        \* the .prev core and manifest
  image,       \* the image that runs: "P1", "factory", or "down"
  run,         \* the builds of its parts, as loaded
  failed,      \* the SDM's record: P1 is the failed image
  target,      \* what the SDM loads at the next boot
  rebooting,   \* the timer of install_rsu is running
  access,      \* fpga_access.py serves
  op, step, new, \* what holds core_lock, install_rsu's step, its bundle
  confirm,     \* /run/rsu-confirm
  host,        \* deploy_rsu.py
  work,        \* operations and faults left to the bounds
  proven       \* history: the builds confirmed in P1

slotFiles == <<file, pending, prev>>
boardVars == <<image, run, failed, target, rebooting, confirm>>
vars == <<slotFiles, boardVars, access, op, step, new, host, work, proven>>

\* In flash: the image, its U-Boot, its core (app, ssbl, qspi).  On the card:
\* u-boot_P1.itb, de25_nano_P1.core.rbf (uboot, card).  In rsu/P1: the core's
\* manifest, the core, rsu.json (man, core, json).
Flash == {"app", "ssbl", "qspi"}
Name == Flash \cup {"uboot", "card", "man", "core", "json"}
Content == Build \cup {Absent, Torn}

\* Fault: the image is written before what belongs to it.
PlanImageFirst ==
  << <<"erase", "app">>, <<"erase", "ssbl">>, <<"write", "ssbl">>,
     <<"erase", "qspi">>, <<"write", "qspi">>, <<"write", "app">>,
     <<"write", "uboot">>, <<"write", "card">>,
     <<"write", "man">>, <<"write", "core">>, <<"write", "json">>,
     <<"verify", "app">> >>

\* The order of install_rsu.
Plan ==
  << <<"erase", "app">>, <<"erase", "ssbl">>, <<"write", "ssbl">>,
     <<"erase", "qspi">>, <<"write", "qspi">>,
     <<"write", "uboot">>, <<"write", "card">>,
     <<"write", "man">>, <<"write", "core">>, <<"write", "json">>,
     <<"write", "app">>, <<"verify", "app">> >>

Fits(c, b) == c \in Build /\ Periphery[c] = Periphery[b]

Bootable == file["app"] \in Build

TypeOK ==
  /\ file \in [Name -> Content]
  /\ pending \in BOOLEAN
  /\ prev \in [core : Content, man : Content]
  /\ image \in {"P1", "factory", "down"}
  /\ run \in [app : Build, uboot : Content, core : Content]
  /\ failed \in BOOLEAN /\ rebooting \in BOOLEAN /\ access \in BOOLEAN
  /\ target \in {"auto", "P1", "factory"}
  /\ op \in {"idle", "update", "load", "reload", "hung"}
  /\ step \in 1..Len(Plan) + 1 /\ new \in Build
  /\ confirm \in {"none", "waiting", "confirmed", "failed", "factory"}
  /\ host \in [pc : {"idle", "upload", "follow"}, build : Build, down : BOOLEAN,
               booted : BOOLEAN, told : {"none", "confirmed", "fell back"}]
  /\ work \in [updates : 0..MaxUpdates, cores : 0..MaxCores, faults : 0..MaxFaults]
  /\ proven \subseteq Build

\* A board as programmed over JTAG (make_jic.sh): P1 whole in flash, its copies
\* on the card or not, its core and manifest in /lib/firmware (the flat files of
\* before RSU, which setup_slot_firmware moves) or not.
Init ==
  /\ \E b \in Sound \ {Factory}, kept \in SUBSET {{"uboot", "card"}, {"man", "core"}} :
       /\ file = [n \in Name |-> IF n \in Flash \cup UNION kept THEN b ELSE Absent]
       /\ run = [app |-> b, uboot |-> b, core |-> b]
       /\ new = b
       /\ host = [pc |-> "idle", build |-> b, down |-> FALSE, booted |-> FALSE,
                  told |-> "none"]
  /\ pending = FALSE /\ prev = [core |-> Absent, man |-> Absent]
  /\ image = "P1" /\ failed = FALSE /\ target = "auto" /\ rebooting = FALSE
  /\ access = FALSE /\ op = "idle" /\ step = 1 /\ confirm = "waiting"
  /\ work = [updates |-> MaxUpdates, cores |-> MaxCores, faults |-> MaxFaults]
  /\ proven = {}

Use(k) == work[k] > 0 /\ work' = [work EXCEPT ![k] = @ - 1]

-----------------------------------------------------------------------------
(* The start of fpga_access.py: setup_slot_firmware, then _recover_install *)
(* in the running image's directory.                                       *)

\* The first start of an image takes the core U-Boot loaded, without a manifest.
FirstCore ==
  IF file["core"] # Absent THEN file["core"]
  ELSE IF file["card"] # Absent THEN file["card"] ELSE file["qspi"]

Start ==
  /\ image # "down" /\ ~access /\ op # "hung"
  /\ access' = TRUE
  /\ IF image = "P1"
       THEN /\ LET back == pending /\ prev.core # Absent IN
               /\ file' = [file EXCEPT !["core"] = IF back THEN prev.core ELSE FirstCore,
                                       !["man"] = IF back THEN prev.man ELSE @]
               /\ prev' = IF back THEN [core |-> Absent, man |-> Absent] ELSE prev
            /\ pending' = FALSE
       ELSE UNCHANGED slotFiles
  /\ UNCHANGED <<boardVars, op, step, new, host, work, proven>>

-----------------------------------------------------------------------------
(* install_rsu, under core_lock.                                           *)

\* A bundle that is not what its manifest says, or does not fit, is refused
\* and changes nothing.
Upload(b) ==
  /\ host.pc = "idle" /\ access /\ op = "idle" /\ ~rebooting
  /\ Use("updates")
  /\ op' = "update" /\ step' = 1 /\ new' = b
  /\ host' = [pc |-> "upload", build |-> b, down |-> FALSE, booted |-> FALSE,
              told |-> "none"]
  /\ UNCHANGED <<slotFiles, boardVars, access, proven>>

\* rsu_client works on the flash: what it erases or writes is neither the old
\* nor the new content meanwhile.
Touch ==
  /\ op = "update" /\ step <= Len(Plan)
  /\ Plan[step][1] # "verify" /\ Plan[step][2] \in Flash
  /\ file[Plan[step][2]] # Torn
  /\ file' = [file EXCEPT ![Plan[step][2]] = Torn]
  /\ UNCHANGED <<pending, prev, boardVars, access, op, step, new, host, work,
                 proven>>

\* A step done; a file of the card or of /lib/firmware is replaced in one.
Done ==
  /\ op = "update" /\ step <= Len(Plan)
  /\ LET what == Plan[step][1]
         f == Plan[step][2] IN
       /\ f \in Flash /\ what # "verify" => file[f] = Torn
       /\ file' = IF what = "write" THEN [file EXCEPT ![f] = new] ELSE file
  /\ step' = step + 1
  /\ UNCHANGED <<pending, prev, boardVars, access, op, new, host, work, proven>>

\* Fault: an update whose step failed goes on to the reboot.
FailIgnored ==
  /\ op = "update" /\ step <= Len(Plan)
  /\ Use("faults")
  /\ step' = step + 1
  /\ UNCHANGED <<slotFiles, boardVars, access, op, new, host, proven>>

\* rsu_client, the mount of the card or a write fails: the update ends here.
Fail ==
  /\ op = "update" /\ step <= Len(Plan)
  /\ Use("faults")
  /\ op' = "idle" /\ step' = 1 /\ host' = [host EXCEPT !.pc = "idle"]
  /\ UNCHANGED <<slotFiles, boardVars, access, new, proven>>

\* Written and verified: the reply; with "reboot" P1 is what the SDM is to
\* load, and a timer reboots after the reply.
Finish ==
  /\ op = "update" /\ step = Len(Plan) + 1
  /\ op' = "idle" /\ step' = 1
  /\ \/ /\ target' = "P1" /\ rebooting' = TRUE
        /\ host' = [host EXCEPT !.pc = "follow"]
     \/ /\ host' = [host EXCEPT !.pc = "idle"]
        /\ UNCHANGED <<target, rebooting>>
  /\ UNCHANGED <<slotFiles, image, run, failed, confirm, access, new, work,
                 proven>>

Update == (\E b \in Build \ {Factory} : Upload(b)) \/ Touch \/ Done \/ Fail \/ Finish

-----------------------------------------------------------------------------
(* Core operations of P1 while it runs (install_core, reload).             *)

\* Refused unless the core's periphery is the installed manifest's.
InstallCore(c) ==
  /\ image = "P1" /\ access /\ op = "idle"
  /\ file["man"] \in Build /\ Fits(c, file["man"])
  /\ Use("cores")
  /\ prev' = [core |-> file["core"], man |-> file["man"]]
  /\ pending' = TRUE
  /\ file' = [file EXCEPT !["man"] = c, !["core"] = c]
  /\ op' = "load"
  /\ UNCHANGED <<boardVars, access, step, new, host, proven>>

Reload ==
  /\ image = "P1" /\ access /\ op = "idle"
  /\ Use("cores")
  /\ op' = "reload"
  /\ UNCHANGED <<slotFiles, boardVars, access, step, new, host, proven>>

\* The core runs: an installed one is copied to the card.
Loaded ==
  /\ op \in {"load", "reload"} /\ Fits(file["core"], run.app)
  /\ op' = "idle"
  /\ run' = [run EXCEPT !.core = file["core"]]
  /\ IF op = "load"
       THEN file' = [file EXCEPT !["card"] = file["core"]] /\ pending' = FALSE
       ELSE UNCHANGED <<file, pending>>
  /\ UNCHANGED <<prev, image, failed, target, rebooting, confirm, access, step,
                 new, host, work, proven>>

\* It does not run: an install puts the previous one back and loads it.
NotLoaded ==
  /\ op \in {"load", "reload"}
  /\ op' = "idle"
  /\ IF op = "load"
       THEN /\ file' = [file EXCEPT !["core"] = prev.core, !["man"] = prev.man]
            /\ prev' = [core |-> Absent, man |-> Absent]
            /\ pending' = FALSE
       ELSE UNCHANGED slotFiles
  /\ run' = [run EXCEPT !.core = IF op = "load" /\ Fits(prev.core, run.app)
                                   THEN prev.core ELSE Absent]
  /\ UNCHANGED <<image, failed, target, rebooting, confirm, access, step, new,
                 host, work, proven>>

\* It hangs the board.
Hang ==
  /\ op \in {"load", "reload"}
  /\ Use("faults")
  /\ op' = "hung" /\ access' = FALSE /\ rebooting' = FALSE
  /\ UNCHANGED <<slotFiles, image, run, failed, target, confirm, step, new, host,
                 proven>>

CoreOp == (\E c \in Build : InstallCore(c)) \/ Reload \/ Loaded \/ NotLoaded \/ Hang

-----------------------------------------------------------------------------
(* The board: the SDM, the HPS watchdog and rsu-confirm.                   *)

\* The board stops; its processes go with it, and a connection to them.
Down(next) ==
  /\ image' = "down" /\ target' = next /\ rebooting' = FALSE
  /\ access' = FALSE /\ op' = "idle" /\ step' = 1 /\ confirm' = "none"
  /\ host' = IF host.pc = "upload" THEN [host EXCEPT !.pc = "idle"] ELSE host

Reboot ==
  /\ image # "down" /\ rebooting
  /\ Down(target)
  /\ UNCHANGED <<slotFiles, run, failed, new, work, proven>>

PowerCut ==
  /\ image # "down" /\ Use("faults")
  /\ Down("auto") /\ failed' = FALSE
  /\ UNCHANGED <<slotFiles, run, new, proven>>

\* fpga_access.py dies; the supervisor starts it again.  Its timer dies too.
AccessDies ==
  /\ access /\ Use("faults")
  /\ access' = FALSE /\ op' = "idle" /\ step' = 1 /\ rebooting' = FALSE
  /\ host' = IF host.pc = "upload" THEN [host EXCEPT !.pc = "idle"] ELSE host
  /\ UNCHANGED <<slotFiles, image, run, failed, target, confirm, new, proven>>

\* P1 if it is bootable and was not the one that failed; U-Boot and the core
\* from the card, else from the image's own flash partitions.
Boot ==
  /\ image = "down"
  /\ IF Bootable /\ target # "factory"
       THEN /\ image' = "P1" /\ confirm' = "waiting"
            /\ run' = [app   |-> file["app"],
                       uboot |-> IF file["uboot"] # Absent THEN file["uboot"] ELSE file["ssbl"],
                       core  |-> IF file["card"] # Absent THEN file["card"] ELSE file["qspi"]]
       ELSE /\ image' = "factory" /\ confirm' = "factory"
            /\ run' = [app |-> Factory, uboot |-> Factory, core |-> Factory]
  /\ target' = "auto"
  /\ host' = [host EXCEPT !.booted = @ \/ host.pc = "follow"]
  /\ UNCHANGED <<slotFiles, failed, rebooting, access, op, step, new, work,
                 proven>>

\* Fault: the web server's answer is enough.
HealthyAlways == access

\* The GUI answers with the board id, read through the core.
Healthy == access /\ run.app \in Sound /\ run.core # Absent /\ op \notin {"load", "reload"}

Confirm ==
  /\ confirm = "waiting" /\ Healthy
  /\ confirm' = "confirmed" /\ proven' = proven \cup {run.app}
  /\ UNCHANGED <<slotFiles, image, run, failed, target, rebooting, access, op,
                 step, new, host, work>>

\* Fault: an image that is not healthy by the deadline is petted on.
GiveUpPets == confirm = "waiting" /\ ~Healthy /\ UNCHANGED vars

\* Not healthy by the deadline: no more petting.
GiveUp ==
  /\ confirm = "waiting" /\ ~Healthy
  /\ confirm' = "failed"
  /\ UNCHANGED <<slotFiles, image, run, failed, target, rebooting, access, op,
                 step, new, host, work, proven>>

\* The watchdog expires: the SDM records P1 as failed and loads the next image.
Watchdog ==
  /\ image = "P1" /\ (confirm = "failed" \/ op = "hung")
  /\ Down("factory") /\ failed' = TRUE
  /\ UNCHANGED <<slotFiles, run, new, work, proven>>

Board == Reboot \/ PowerCut \/ AccessDies \/ Boot \/ Confirm \/ GiveUp \/ Watchdog

-----------------------------------------------------------------------------
(* deploy_rsu.py after an update was written: a status every 5 s.          *)

Tells ==
  IF image = "P1" /\ confirm = "confirmed" /\ run.core = host.build THEN "confirmed"
  ELSE IF image = "factory" /\ failed THEN "fell back" ELSE "none"

\* Only an answer after one that failed is from the new boot.
Poll ==
  /\ host.pc = "follow"
  /\ host' = IF ~access THEN [host EXCEPT !.down = TRUE]
             ELSE IF host.down /\ Tells # "none"
             THEN [host EXCEPT !.told = Tells, !.pc = "idle"] ELSE host
  /\ UNCHANGED <<slotFiles, boardVars, access, op, step, new, work, proven>>

\* No confirmation in time: it says so.
Timeout ==
  /\ host.pc = "follow"
  /\ host' = [host EXCEPT !.pc = "idle"]
  /\ UNCHANGED <<slotFiles, boardVars, access, op, step, new, work, proven>>

Next == Start \/ Update \/ CoreOp \/ Board \/ Poll \/ Timeout

Spec == Init /\ [][Next]_vars

\* Processes run, loads and reboots end, and time passes; nobody has to ask
\* for an update or a core.
Fairness ==
  /\ WF_vars(Start) /\ WF_vars(Touch \/ Done \/ Finish) /\ WF_vars(Loaded \/ NotLoaded)
  /\ WF_vars(Reboot) /\ WF_vars(Boot) /\ WF_vars(Confirm \/ GiveUp) /\ WF_vars(Watchdog)

FairSpec == Spec /\ Fairness

-----------------------------------------------------------------------------
(* Properties                                                              *)

\* Whenever the SDM would boot P1 - after a power cut or a failure between
\* any two steps of an update or of a core install - what it boots is of one
\* build: the U-Boot of the card and of the flash are the image's, and both
\* copies of its core fit it ("the order keeps a power cut harmless",
\* fpga_access.py's docstring).
BootableIsWhole ==
  Bootable =>
    /\ file["ssbl"] = file["app"] /\ file["qspi"] = file["app"]
    /\ file["uboot"] \in {file["app"], Absent}
    /\ file["card"] = Absent \/ Fits(file["card"], file["app"])

\* Of a board that has booted since the update, deploy_rsu.py tells that a build
\* is confirmed only if that build's image comes up healthy and rsu-confirm has
\* confirmed it in P1 - not another image with the build's core.
ToldConfirmed ==
  host.booted /\ host.told = "confirmed" => host.build \in Sound \cap proven

\* An image in P1 that cannot come up healthy does not stay: the factory image
\* runs in the end, or another update's image, also when the power is cut.
UnhealthyFallsBack ==
  (image = "P1" /\ run.app \notin Sound) ~>
    (image = "factory" \/ (image = "P1" /\ run.app \in Sound))

\* The update is atomic: P1 holds a build or nothing that boots, and what is
\* loaded is loaded whole.
slotAbstract == IF Bootable THEN file["app"] ELSE Absent
runAbstract ==
  IF run.uboot = run.app /\ (run.core = Absent \/ Fits(run.core, run.app))
    THEN run.app ELSE Torn
Atomic == INSTANCE AtomicSlot WITH slot <- slotAbstract, running <- runAbstract,
                                   Empty <- Absent
ImplementsAtomicSlot == Atomic!Spec
=============================================================================
