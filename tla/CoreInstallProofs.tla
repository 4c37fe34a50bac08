-------------------------- MODULE CoreInstallProofs --------------------------
(***************************************************************************)
(* Proofs about CoreInstall, for any set of cores and any number of        *)
(* installs, kills and power cuts, on a file system that has flushed the   *)
(* kept core before the power goes (Flushed): an install is atomic         *)
(* (AtomicCore), and an untested core is never left installed or put on    *)
(* the card.                                                               *)
(*                                                                         *)
(* The argument is that Installed - the kept core while the pending mark   *)
(* is there, the core file otherwise - is a good core in every state.      *)
(* IInv adds which of the two files that is at each step.                  *)
(*                                                                         *)
(* Without a crash, and on any file system, the manifest beside the core   *)
(* is that core's: PairInv follows the installed, the kept and the new     *)
(* pair through the steps of an install.                                   *)
(***************************************************************************)
EXTENDS CoreInstall, TLAPS

IInv ==
  /\ TypeOK /\ ~unsynced
  /\ Installed \in Good /\ card \in Good
  /\ pc \in {"man", "core", "load", "ok", "back", "hung"} =>
       pending /\ corePrev # Absent
  /\ pc \in {"backman", "backload", "clear", "startman", "startclear"} =>
       pending /\ corePrev = Absent
  /\ pc \in {"idle", "copy", "copied", "copyman", "pending", "card"} => ~pending
  /\ pc \in {"copyman", "pending"} => corePrev = core
  /\ pc = "ok" => core \in Good

LEMMA InitType == Init => TypeOK
<1> SUFFICES ASSUME Init PROVE TypeOK
  OBVIOUS
<1>1. pc \in {"idle", "hung"} \cup InstallPC \cup EndPC \cup StartPC
  BY DEF Init
<1>2. installs \in 0..MaxInstalls /\ crashes \in 0..MaxCrashes
  BY CoreInstallConstants DEF Init
<1>3. core \in File /\ man \in File /\ corePrev \in File /\ manPrev \in File
  BY CoreInstallConstants DEF Init, File
<1>4. card \in File /\ running \in Core \cup {Absent} /\ new \in Core
  BY CoreInstallConstants DEF Init, File
<1>5. pending \in BOOLEAN /\ unsynced \in BOOLEAN
  BY DEF Init
<1> QED
  BY <1>1, <1>2, <1>3, <1>4, <1>5 DEF TypeOK

LEMMA NextType == TypeOK /\ [Next]_vars => TypeOK'
<1> SUFFICES ASSUME TypeOK, [Next]_vars PROVE TypeOK'
  OBVIOUS
<1> USE CoreInstallConstants
    DEF TypeOK, File, InstallPC, EndPC, StartPC, files, Step
<1>1. ASSUME NEW v \in Core, Install(v) PROVE TypeOK'
  BY <1>1 DEF Install
<1>2. CASE TruncatePrev
  BY <1>2 DEF TruncatePrev
<1>3. CASE CopyPrev
  BY <1>3 DEF CopyPrev
<1>4. CASE CopyMan
  BY <1>4 DEF CopyMan
<1>5. CASE WriteNew
  <2>1. CASE Step("pending", "man") /\ pending' = TRUE /\ UNCHANGED <<core, man>>
    BY <1>5, <2>1 DEF WriteNew
  <2>2. CASE Step("man", "core") /\ man' = new /\ UNCHANGED <<core, pending>>
    BY <1>5, <2>2 DEF WriteNew
  <2>3. CASE Step("core", "load") /\ core' = new /\ UNCHANGED <<man, pending>>
    BY <1>5, <2>3 DEF WriteNew
  <2> QED
    BY <1>5, <2>1, <2>2, <2>3 DEF WriteNew
<1>6. CASE LoadNew
  BY <1>6 DEF LoadNew, Loads
<1>7. CASE Commit
  BY <1>7 DEF Commit
<1>8. CASE WriteCard
  BY <1>8 DEF WriteCard
<1>9. CASE RollBack
  <2>1. CASE Step("back", "backman") /\ MoveCoreBack
    BY <2>1 DEF MoveCoreBack
  <2>2. CASE Step("backman", "backload") /\ MoveManBack
    BY <2>2 DEF MoveManBack
  <2> QED
    BY <1>9, <2>1, <2>2 DEF RollBack, Loads
<1>10. ASSUME NEW from, ClearPending(from) PROVE TypeOK'
  BY <1>10 DEF ClearPending
<1>11. CASE Reload
  BY <1>11 DEF Reload, Loads
<1>12. CASE Recover
  <2>1. CASE Step("start", "startman") /\ MoveCoreBack
    BY <2>1 DEF MoveCoreBack
  <2>2. CASE Step("startman", "startclear") /\ MoveManBack
    BY <2>2 DEF MoveManBack
  <2> QED
    BY <1>12, <2>1, <2>2 DEF Recover
<1>13. CASE Kill
  BY <1>13 DEF Kill, Crash, Loads
<1>14. CASE PowerCut
  <2>1. running' \in Core \cup {Absent}
    <3>1. CASE card \in Good
      BY <1>14, <3>1 DEF PowerCut
    <3>2. CASE card \notin Good
      BY <1>14, <3>2 DEF PowerCut
    <3> QED
      BY <3>1, <3>2
  <2>2. corePrev' \in File
    <3>1. CASE unsynced
      BY <1>14, <3>1 DEF PowerCut
    <3>2. CASE ~unsynced
      BY <1>14, <3>2 DEF PowerCut
    <3> QED
      BY <3>1, <3>2
  <2>3. crashes' \in 0..MaxCrashes /\ pc' = "start" /\ unsynced' = FALSE
    BY <1>14 DEF PowerCut, Crash
  <2>4. UNCHANGED <<core, man, manPrev, pending, card, new, installs>>
    BY <1>14 DEF PowerCut
  <2> QED
    BY <2>1, <2>2, <2>3, <2>4
<1>15. CASE UNCHANGED vars
  BY <1>15 DEF vars
<1> QED
  BY <1>1, <1>2, <1>3, <1>4, <1>5, <1>6, <1>7, <1>8, <1>9, <1>10, <1>11, <1>12,
     <1>13, <1>14, <1>15 DEF Next

\* Every state has its type, whatever the file system does to a copied file.
THEOREM TypeCorrect == Spec => []TypeOK
BY InitType, NextType, PTL DEF Spec

LEMMA InitIInv == Init => IInv
<1> SUFFICES ASSUME Init PROVE IInv
  OBVIOUS
<1>1. TypeOK
  BY InitType
<1>2. pc = "idle" /\ ~pending /\ ~unsynced /\ core \in Good /\ card \in Good
  BY DEF Init
<1> QED
  BY <1>1, <1>2 DEF IInv, Installed

\* What does not touch the core files and the mark leaves Installed alone.
LEMMA SameInstalled ==
  ASSUME UNCHANGED <<core, corePrev, pending>> PROVE UNCHANGED Installed
BY DEF Installed

\* Moving the kept core back, while pending, does not change what is installed.
LEMMA MoveBackInstalled ==
  ASSUME MoveCoreBack, pending, corePrev # Absent
  PROVE  UNCHANGED Installed /\ pending' /\ corePrev' = Absent
BY DEF MoveCoreBack, Installed

LEMMA NextIInv == ASSUME Flushed PROVE IInv /\ [Next]_vars => IInv'
<1> SUFFICES ASSUME IInv, [Next]_vars PROVE IInv'
  OBVIOUS
<1>0. TypeOK'
  BY NextType DEF IInv
<1> USE CoreInstallConstants, <1>0, Flushed DEF IInv, files, Step
<1>1. ASSUME NEW v \in Core, Install(v) PROVE IInv'
  BY <1>1, SameInstalled DEF Install
<1>2. CASE TruncatePrev
  BY <1>2 DEF TruncatePrev, Installed
<1>3. CASE CopyPrev
  BY <1>3 DEF CopyPrev, Installed
<1>4. CASE CopyMan
  BY <1>4, SameInstalled DEF CopyMan
<1>5. CASE WriteNew
  BY <1>5 DEF WriteNew, Installed
<1>6. CASE LoadNew
  BY <1>6, SameInstalled DEF LoadNew, Loads
<1>7. CASE Commit
  BY <1>7 DEF Commit, Installed
<1>8. CASE WriteCard
  <2>1. UNCHANGED Installed /\ ~unsynced' /\ ~pending' /\ pc' = "idle"
    BY <1>8, SameInstalled DEF WriteCard
  <2>2. Installed = core
    BY <1>8 DEF WriteCard, Installed
  <2>3. card' \in Good
    BY <1>8, <2>2 DEF WriteCard
  <2> QED
    BY <2>1, <2>3
<1>9. CASE RollBack
  <2>1. CASE Step("back", "backman") /\ MoveCoreBack
    <3>1. UNCHANGED Installed /\ pending' /\ corePrev' = Absent
      BY <2>1, MoveBackInstalled
    <3> QED
      BY <2>1, <3>1 DEF MoveCoreBack
  <2>2. CASE Step("backman", "backload") /\ MoveManBack
    BY <2>2, SameInstalled DEF MoveManBack
  <2>3. CASE Step("backload", "clear") /\ UNCHANGED <<files, new, unsynced, installs, crashes>>
    BY <2>3, SameInstalled
  <2> QED
    BY <1>9, <2>1, <2>2, <2>3 DEF RollBack
<1>10. ASSUME NEW from \in {"clear", "startclear"}, ClearPending(from) PROVE IInv'
  <2>1. Installed = core /\ Installed' = core
    BY <1>10 DEF ClearPending, Installed
  <2> QED
    BY <1>10, <2>1 DEF ClearPending
<1>11. CASE Reload
  BY <1>11, SameInstalled DEF Reload
<1>12. CASE Recover
  <2>1. CASE Step("start", "startman") /\ pending /\ corePrev # Absent /\ MoveCoreBack
    <3>1. UNCHANGED Installed /\ pending' /\ corePrev' = Absent
      BY <2>1, MoveBackInstalled
    <3> QED
      BY <2>1, <3>1 DEF MoveCoreBack
  <2>2. CASE Step("startman", "startclear") /\ MoveManBack
    BY <2>2, SameInstalled DEF MoveManBack
  <2>3. CASE /\ Step("start", "idle") /\ ~pending
             /\ UNCHANGED <<files, running, new, unsynced, installs, crashes>>
    BY <2>3, SameInstalled
  <2>4. CASE /\ Step("start", "startclear") /\ pending /\ corePrev = Absent
             /\ UNCHANGED <<files, running, new, unsynced, installs, crashes>>
    BY <2>4, SameInstalled
  <2> QED
    BY <1>12, <2>1, <2>2, <2>3, <2>4 DEF Recover
<1>13. CASE Kill
  BY <1>13, SameInstalled DEF Kill, Crash
<1>14. CASE PowerCut
  <2>1. corePrev' = corePrev
    BY <1>14 DEF PowerCut
  <2> QED
    BY <1>14, <2>1, SameInstalled DEF PowerCut, Crash
<1>15. CASE UNCHANGED vars
  BY <1>15, SameInstalled DEF vars
<1> QED
  BY <1>1, <1>2, <1>3, <1>4, <1>5, <1>6, <1>7, <1>8, <1>9, <1>10, <1>11, <1>12,
     <1>13, <1>14, <1>15 DEF Next

\* Every step of an install is a step of the atomic one, or changes nothing
\* that it sees: the only steps that count are the removal of the pending
\* mark after a good load, and the card's copy.
LEMMA StepRefines ==
  ASSUME Flushed, IInv, [Next]_vars
  PROVE  [A!Next]_<<Installed, card>>
<1> USE CoreInstallConstants DEF IInv, Installed, files, Step
<1>1. CASE Commit
  <2>1. Installed' \in Good /\ UNCHANGED card
    BY <1>1 DEF Commit
  <2> QED
    BY <2>1 DEF A!Next, A!Replace
<1>2. CASE WriteCard
  <2>1. UNCHANGED Installed /\ (card' = Installed \/ UNCHANGED card)
    BY <1>2 DEF WriteCard
  <2> QED
    BY <2>1 DEF A!Next, A!Copy
<1>3. ASSUME NEW v \in Core, Install(v) PROVE UNCHANGED <<Installed, card>>
  BY <1>3 DEF Install
<1>4. CASE TruncatePrev \/ CopyPrev \/ CopyMan
  BY <1>4 DEF TruncatePrev, CopyPrev, CopyMan
<1>5. CASE WriteNew
  BY <1>5 DEF WriteNew
<1>6. CASE LoadNew \/ Reload
  <2>1. UNCHANGED <<core, corePrev, pending, card>>
    BY <1>6 DEF LoadNew, Reload
  <2> QED
    BY <2>1, SameInstalled
<1>7. CASE RollBack
  BY <1>7 DEF RollBack, MoveCoreBack, MoveManBack
<1>8. CASE ClearPending("clear") \/ ClearPending("startclear")
  BY <1>8 DEF ClearPending
<1>9. CASE Recover
  BY <1>9 DEF Recover, MoveCoreBack, MoveManBack
<1>10. CASE Kill \/ PowerCut
  BY <1>10 DEF Kill, PowerCut
<1>11. CASE UNCHANGED vars
  BY <1>11 DEF vars
<1> QED
  BY <1>1, <1>2, <1>3, <1>4, <1>5, <1>6, <1>7, <1>8, <1>9, <1>10, <1>11 DEF Next

LEMMA InductiveIInv == ASSUME Flushed PROVE Spec => []IInv
<1>1. IInv /\ [Next]_vars => IInv'
  BY Flushed, NextIInv
<1> QED
  BY <1>1, InitIInv, PTL DEF Spec

\* An install, its rollback and its recovery implement the atomic install,
\* with a crash at any step.
THEOREM InstallIsAtomic == ASSUME Flushed PROVE Spec => ImplementsAtomicCore
<1>1. Init => A!Init
  BY DEF Init, A!Init, Installed
<1>2. IInv /\ [Next]_vars => [A!Next]_<<Installed, card>>
  BY Flushed, StepRefines
<1> QED
  BY <1>1, <1>2, InductiveIInv, Flushed, PTL DEF Spec, ImplementsAtomicCore, A!Spec

\* No crash leaves an untested core installed.
THEOREM UntestedNeverStays == ASSUME Flushed PROVE Spec => []NoUntestedInstalled
<1>1. IInv => NoUntestedInstalled
  BY DEF IInv, Installed, NoUntestedInstalled
<1> QED
  BY <1>1, InductiveIInv, Flushed, PTL

\* Every power-on finds a core on the card that has run before.
THEOREM CardAlwaysGood == ASSUME Flushed PROVE Spec => []CardGood
<1>1. IInv => CardGood
  BY DEF IInv, CardGood
<1> QED
  BY <1>1, InductiveIInv, Flushed, PTL

-----------------------------------------------------------------------------
(* The manifest beside the core, as long as nothing crashed: here the file *)
(* system does not matter, and Flushed is not assumed.                     *)

\* Which manifest goes with which core at each step of an install that runs
\* through: the installed pair, the kept pair, and in between the new one.
Paired ==
  /\ pc \notin StartPC
  /\ pc \in {"idle", "copy", "copied", "copyman", "pending", "load", "ok", "card",
             "backload", "clear"} => man \in {core, Absent}
  /\ pc \in {"copyman", "pending"} => corePrev = core
  /\ pc \in {"pending", "man", "core", "load", "back"} =>
       manPrev \in {corePrev, Absent}
  /\ pc = "core" => man = new
  /\ pc = "backman" => manPrev \in {core, Absent}

PairInv == crashes = MaxCrashes => Paired

LEMMA NextPairInv == TypeOK /\ PairInv /\ [Next]_vars => PairInv'
<1> SUFFICES ASSUME TypeOK, PairInv, [Next]_vars, crashes' = MaxCrashes PROVE Paired'
  BY DEF PairInv
<1> USE DEF Paired, StartPC, files, Step
<1>1. CASE Kill \/ PowerCut
  <2>1. crashes' = crashes - 1 /\ crashes \in 0..MaxCrashes
    BY <1>1 DEF Kill, PowerCut, Crash, TypeOK
  <2> QED
    BY <2>1, CoreInstallConstants
<1>2. ~(Kill \/ PowerCut) => UNCHANGED crashes
  BY DEF Next, Install, TruncatePrev, CopyPrev, CopyMan, WriteNew, LoadNew, Commit,
         WriteCard, RollBack, MoveCoreBack, MoveManBack, ClearPending, Reload,
         Recover, vars
<1>3. CASE UNCHANGED crashes
  <2>0. Paired
    BY <1>3 DEF PairInv
  <2>1. ASSUME NEW v \in Core, Install(v) PROVE Paired'
    BY <2>0, <2>1 DEF Install
  <2>2. CASE TruncatePrev \/ CopyPrev \/ CopyMan
    BY <2>0, <2>2 DEF TruncatePrev, CopyPrev, CopyMan
  <2>3. CASE WriteNew
    BY <2>0, <2>3 DEF WriteNew
  <2>4. CASE LoadNew \/ Reload
    BY <2>0, <2>4 DEF LoadNew, Reload
  <2>5. CASE Commit \/ WriteCard
    BY <2>0, <2>5 DEF Commit, WriteCard
  <2>6. CASE RollBack
    BY <2>0, <2>6 DEF RollBack, MoveCoreBack, MoveManBack
  <2>7. CASE ClearPending("clear") \/ ClearPending("startclear")
    BY <2>0, <2>7 DEF ClearPending
  <2>8. ~Recover
    BY <2>0 DEF Recover
  <2>9. CASE UNCHANGED vars
    BY <2>0, <2>9 DEF vars
  <2> QED
    BY <1>1, <2>1, <2>2, <2>3, <2>4, <2>5, <2>6, <2>7, <2>8, <2>9 DEF Next
<1> QED
  BY <1>1, <1>2, <1>3

\* The manifest beside the installed core is that core's, or there is none,
\* whenever no install is under way and nothing has crashed: after any number
\* of installs, taken or rolled back, and whichever of the kept files an
\* earlier one left behind.
THEOREM PairAlwaysKept == Spec => []PairKept
<1>1. Init => PairInv
  BY DEF Init, PairInv, Paired, StartPC
<1>2. PairInv => PairKept
  BY DEF PairInv, Paired, PairKept, PairMatches
<1> QED
  BY <1>1, <1>2, NextPairInv, TypeCorrect, PTL DEF Spec
=============================================================================
