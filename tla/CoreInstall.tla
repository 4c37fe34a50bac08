----------------------------- MODULE CoreInstall -----------------------------
(***************************************************************************)
(* The files of an FPGA core install (fpga_access.py): install_core, the   *)
(* rollback of a core that does not run, reload, and _recover_install at   *)
(* the next start, with the process killed or the power cut between any    *)
(* two steps.  A version stands for a core and its manifest: check_bundle  *)
(* has compared them before the first step.                                *)
(*                                                                         *)
(* write_file (path.new, fsync, rename) and os.replace are atomic and last *)
(* over a power cut.  shutil.copyfile is neither: it truncates first, and  *)
(* what it wrote is not on the disk until the kernel flushes it.           *)
(***************************************************************************)
EXTENDS Naturals

CONSTANTS
  Core,       \* versions of the FPGA core
  Good,       \* those that load and pass their checks
  Flushed,    \* whether the kernel has flushed a copied file before any power cut
  MaxInstalls, MaxCrashes,  \* bounds
  Absent,     \* no such file
  Torn        \* a truncated or incomplete file

ASSUME CoreInstallConstants ==
  /\ Good \subseteq Core /\ Good # {}
  /\ Absent \notin Core /\ Torn \notin Core /\ Absent # Torn
  /\ Flushed \in BOOLEAN
  /\ MaxInstalls \in Nat /\ MaxCrashes \in Nat

VARIABLES
  core, man,          \* de25_nano.core.rbf and de25_nano.core.json
  corePrev, manPrev,  \* the same with .prev
  pending,            \* whether de25_nano.core.pending exists
  card,               \* the copy U-Boot loads at power-on
  running,            \* the core in the fabric, Absent if none works
  pc, new,            \* the step of the core operation; the bundle's version
  unsynced,           \* whether core.prev is not on the disk yet
  installs, crashes   \* what is left of the bounds

files == <<core, man, corePrev, manPrev, pending, card>>
vars == <<files, running, pc, new, unsynced, installs, crashes>>

File == Core \cup {Absent, Torn}
InstallPC == {"copy", "copied", "copyman", "pending", "man", "core", "load"}
EndPC == {"ok", "card", "back", "backman", "backload", "clear"}
StartPC == {"start", "startman", "startclear"}

TypeOK ==
  /\ core \in File /\ man \in File /\ corePrev \in File /\ manPrev \in File
  /\ card \in File /\ running \in Core \cup {Absent}
  /\ pending \in BOOLEAN /\ unsynced \in BOOLEAN
  /\ new \in Core
  /\ pc \in {"idle", "hung"} \cup InstallPC \cup EndPC \cup StartPC
  /\ installs \in 0..MaxInstalls /\ crashes \in 0..MaxCrashes

\* A board in service: a good core runs, from the card, with its manifest or
\* (the first boot of an image, setup_slot_firmware) without one.
Init ==
  /\ core \in Good /\ man \in {core, Absent}
  /\ corePrev = Absent /\ manPrev = Absent /\ pending = FALSE
  /\ card = core /\ running = core
  /\ pc = "idle" /\ new = core /\ unsynced = FALSE
  /\ installs = MaxInstalls /\ crashes = MaxCrashes

Step(from, to) == pc = from /\ pc' = to

-----------------------------------------------------------------------------
(* install_core.  A bundle that is refused changes nothing.                *)

Install(v) ==
  /\ Step("idle", "copy")
  /\ installs > 0 /\ installs' = installs - 1
  /\ new' = v
  /\ UNCHANGED <<files, running, unsynced, crashes>>

TruncatePrev ==
  /\ Step("copy", "copied")
  /\ corePrev' = Torn
  /\ UNCHANGED <<core, man, manPrev, pending, card, running, new, unsynced,
                 installs, crashes>>

CopyPrev ==
  /\ Step("copied", "copyman")
  /\ corePrev' = core /\ unsynced' = ~Flushed
  /\ UNCHANGED <<core, man, manPrev, pending, card, running, new, installs,
                 crashes>>

\* Kept, or the older one removed when the installed core has none.
CopyMan ==
  /\ Step("copyman", "pending")
  /\ manPrev' = man
  /\ UNCHANGED <<core, man, corePrev, pending, card, running, new, unsynced,
                 installs, crashes>>

\* Fault: the new core is written before the pending mark.
WritePendingLate ==
  /\ \/ Step("pending", "core") /\ core' = new /\ UNCHANGED <<pending, man>>
     \/ Step("core", "man") /\ pending' = TRUE /\ UNCHANGED <<core, man>>
     \/ Step("man", "load") /\ man' = new /\ UNCHANGED <<core, pending>>
  /\ UNCHANGED <<corePrev, manPrev, card, running, new, unsynced, installs,
                 crashes>>

\* The pending mark, the new manifest, the new core, in this order.
WriteNew ==
  /\ \/ Step("pending", "man") /\ pending' = TRUE /\ UNCHANGED <<core, man>>
     \/ Step("man", "core") /\ man' = new /\ UNCHANGED <<core, pending>>
     \/ Step("core", "load") /\ core' = new /\ UNCHANGED <<man, pending>>
  /\ UNCHANGED <<corePrev, manPrev, card, running, new, unsynced, installs,
                 crashes>>

\* What _load of version v may come to: true when it raised nothing.
Loads(v, fine) ==
  \/ fine /\ v \in Good /\ running' = v
  \/ ~fine /\ running' = Absent

\* Fault: the ids are not checked after the load, so any core will do.
LoadUnchecked ==
  /\ Step("load", "ok") /\ running' = core
  /\ UNCHANGED <<files, new, unsynced, installs, crashes>>

\* A bad core can also take the whole board down with it.
LoadNew ==
  /\ \/ Step("load", "ok") /\ Loads(core, TRUE)
     \/ Step("load", "back") /\ Loads(core, FALSE)
     \/ Step("load", "hung") /\ core \notin Good /\ running' = Absent
  /\ UNCHANGED <<files, new, unsynced, installs, crashes>>

\* It runs: no longer pending, then the card's copy (which may fail).
Commit ==
  /\ Step("ok", "card")
  /\ pending' = FALSE
  /\ UNCHANGED <<core, man, corePrev, manPrev, card, running, new, unsynced,
                 installs, crashes>>

WriteCard ==
  /\ Step("card", "idle")
  /\ \/ card' = core /\ unsynced' = FALSE      \* os.sync()
     \/ UNCHANGED <<card, unsynced>>
  /\ UNCHANGED <<core, man, corePrev, manPrev, pending, running, new, installs,
                 crashes>>

\* It does not: the previous core back, its manifest, and load it.
MoveCoreBack ==
  /\ core' = corePrev /\ corePrev' = Absent /\ unsynced' = FALSE
  /\ UNCHANGED <<man, manPrev, pending, card, running, new, installs, crashes>>

\* Fault: the new manifest stays when the core before had none.
MoveManIfKept ==
  /\ man' = (IF manPrev = Absent THEN man ELSE manPrev) /\ manPrev' = Absent
  /\ UNCHANGED <<core, corePrev, pending, card, running, new, unsynced,
                 installs, crashes>>

MoveManBack ==
  /\ man' = manPrev /\ manPrev' = Absent
  /\ UNCHANGED <<core, corePrev, pending, card, running, new, unsynced,
                 installs, crashes>>

RollBack ==
  \/ Step("back", "backman") /\ MoveCoreBack
  \/ Step("backman", "backload") /\ MoveManBack
  \/ /\ Step("backload", "clear")
     /\ \E fine \in BOOLEAN : Loads(core, fine)
     /\ UNCHANGED <<files, new, unsynced, installs, crashes>>

ClearPending(from) ==
  /\ Step(from, "idle")
  /\ pending' = FALSE
  /\ UNCHANGED <<core, man, corePrev, manPrev, card, running, new, unsynced,
                 installs, crashes>>

-----------------------------------------------------------------------------
\* reload: the installed core again, its build id held against its manifest.
Reload ==
  /\ pc = "idle" /\ UNCHANGED pc
  /\ \E fine \in BOOLEAN : Loads(core, fine) /\ (fine => man \in {core, Absent})
  /\ UNCHANGED <<files, new, unsynced, installs, crashes>>

(* _recover_install, when the process starts.                              *)
Recover ==
  \/ /\ Step("start", "idle") /\ ~pending
     /\ UNCHANGED <<files, running, new, unsynced, installs, crashes>>
  \/ Step("start", "startman") /\ pending /\ corePrev # Absent /\ MoveCoreBack
  \/ /\ Step("start", "startclear") /\ pending /\ corePrev = Absent
     /\ UNCHANGED <<files, running, new, unsynced, installs, crashes>>
  \/ Step("startman", "startclear") /\ MoveManBack

Crash == crashes > 0 /\ crashes' = crashes - 1 /\ pc' = "start"

\* The process is killed and started again.  A load the kernel has begun
\* ends first; the files stay.
Kill ==
  /\ pc # "hung" /\ Crash
  /\ \/ UNCHANGED running
     \/ pc \in {"load", "backload"} /\ \E fine \in BOOLEAN : Loads(core, fine)
  /\ UNCHANGED <<files, new, unsynced, installs>>

\* The power is cut: U-Boot loads the card's core.
PowerCut ==
  /\ Crash
  /\ running' = IF card \in Good THEN card ELSE Absent
  /\ corePrev' \in IF unsynced THEN {corePrev, Torn} ELSE {corePrev}
  /\ unsynced' = FALSE
  /\ UNCHANGED <<core, man, manPrev, pending, card, new, installs>>

Next ==
  \/ \E v \in Core : Install(v)
  \/ TruncatePrev \/ CopyPrev \/ CopyMan \/ WriteNew \/ LoadNew
  \/ Commit \/ WriteCard \/ RollBack
  \/ ClearPending("clear") \/ ClearPending("startclear")
  \/ Reload \/ Recover \/ Kill \/ PowerCut

Spec == Init /\ [][Next]_vars

-----------------------------------------------------------------------------
(* Properties                                                              *)

\* The core that is installed: while an install is pending it is the one
\* that was kept.  Removing the pending mark is the commit point.
Installed == IF pending /\ corePrev # Absent THEN corePrev ELSE core

A == INSTANCE AtomicCore WITH installed <- Installed, booted <- card

\* An install, with its rollback and its recovery after a crash at any step,
\* replaces the installed core in one step by one that has run, or not at all.
ImplementsAtomicCore == A!Spec

\* Whenever no install is under way, the installed core is one that runs: a
\* core that was never seen to run does not stay after a crash or a hang.
NoUntestedInstalled == pc = "idle" => core \in Good

\* What U-Boot loads at the next power-on has run before, so a power cut at
\* any step of an install leaves a board that comes up.
CardGood == card \in Good

\* The manifest beside the installed core is that core's (or there is none),
\* to which reload compares the build id in the fabric.  A crash between the
\* two renames of a rollback or a recovery breaks this.
PairMatches == pc = "idle" => man \in {core, Absent}

\* So it is as long as nothing crashed, whichever cores were installed and
\* rolled back, and with whichever files an earlier install left behind.
PairKept == crashes = MaxCrashes => PairMatches

=============================================================================
