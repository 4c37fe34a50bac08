---------------------------- MODULE ControlLink ----------------------------
(***************************************************************************)
(* What the web server knows of the temperature loop: class ControlLink of *)
(* fpga_web.py polls the controller's state once a second and keeps a copy *)
(* of its history of samples, over restarts of either process; a request   *)
(* of the GUI sets the controller through the same connection.             *)
(*                                                                         *)
(* The connection is RpcClient with the resends of ControlClient. A sample *)
(* is its time, a number that every sample increments; the ten minutes     *)
(* after which either side forgets a sample are longer than a run here.    *)
(***************************************************************************)
EXTENDS RpcClient, SequencesExt

CONSTANTS
  Settings,     \* what a request of the GUI may set, e.g. the mode
  Default,      \* DEFAULTS, before anything was saved
  None,
  MaxLate,      \* bound: replies that time out
  MaxSets,      \* bound: requests of the GUI, each for another setting
  MaxTime,      \* bound: samples
  MaxEvents     \* bound: all of these, deaths and failed saves, together

VARIABLES
  \* the controller: which start of it this is, its settings, those on the
  \* disk, the state it last published, its history, the saved history and
  \* how many of the samples are of this start
  boot, cfg, disk, state, hist, file, n,
  lost,     \* history: it was started again without settings it had not saved
  now,      \* the time of the last sample
  \* ControlLink: latest, its copy of the history, the boot it is of
  latest, history, linkBoot,
  polled,   \* the poller's st, while it asks for the history
  acked,    \* the setting acknowledged last to the GUI, unless another may come
  alone,    \* no other was on its way when the GUI's request began
  late, sets

ctl == <<boot, cfg, disk, lost, state, hist, file, n, now>>
gui == <<acked, alone, late, sets>>
link == <<latest, history, linkBoot, polled>>
linkVars == <<rpcVars, ctl, link, gui>>

Poller == "poller"
Gui == "gui"

Ops == [op : {"state", "history"}] \cup [op : {"set"}, setting : Settings]
States == [boot : Nat, t : 0..MaxTime, cfg : Settings]

\* What the server answers: a state, or its history.
Replies == States \cup Seq(1..MaxTime)

\* The client is ControlClient's, the server the controller; up is its process.
ASSUME LinkConstants ==
  /\ Threads = {Poller, Gui} /\ Requests = Ops /\ Resends = {"dropped", "timeout"}
  /\ Default \in Settings
  /\ MaxLate \in Nat /\ MaxSets \in Nat /\ MaxTime \in Nat /\ MaxEvents \in Nat

LinkInit ==
  /\ Init
  /\ boot = 1 /\ cfg = Default /\ disk = Default /\ lost = FALSE /\ hist = <<>> /\ file = None /\ n = 0 /\ now = 0
  /\ state = [boot |-> 1, t |-> 0, cfg |-> Default]
  /\ latest = None /\ history = <<>> /\ linkBoot = 0 /\ polled = None
  /\ acked = None /\ alone = TRUE /\ late = 0 /\ sets = 0

\* A save that failed counts as long as it makes a difference.
Bounded ==
  now + sets + late + faults + (IF lost \/ cfg # disk THEN 1 ELSE 0) < MaxEvents

-----------------------------------------------------------------------------
(* The controller *)

\* One period of the loop.
Sample ==
  /\ up /\ now < MaxTime /\ Bounded
  /\ now' = now + 1
  /\ hist' = Append(hist, now + 1) /\ n' = n + 1
  /\ state' = [boot |-> boot, t |-> now + 1, cfg |-> cfg]
  /\ UNCHANGED rpcVars
  /\ UNCHANGED <<boot, cfg, disk, lost, file, link, gui>>

\* The operations of its socket.
Run(c) == Head(conns[c].req).req

AnswerState(c) ==
  /\ Run(c).op = "state"
  /\ Reply(c, state)
  /\ UNCHANGED ctl

AnswerHistory(c) ==
  /\ Run(c).op = "history"
  /\ Reply(c, hist)
  /\ UNCHANGED ctl

\* New settings are saved; a save that fails is logged and that is all.
Apply(s) ==
  /\ cfg' = s
  /\ disk' = disk \/ (s # cfg /\ disk' = s)

AnswerSet(c) ==
  /\ Run(c).op = "set"
  /\ Apply(Run(c).setting) /\ lost' = FALSE
  /\ state' = [state EXCEPT !.cfg = cfg']
  /\ Reply(c, state')
  /\ UNCHANGED <<boot, hist, file, n, now>>

Serve(c) ==
  /\ conns[c].req # <<>>
  /\ AnswerState(c) \/ AnswerHistory(c) \/ AnswerSet(c)
  /\ UNCHANGED <<link, gui>>

\* SIGTERM saves the history for the next start; a crash does not, nor a save
\* that fails.
Stop ==
  /\ ServerDies /\ Bounded
  /\ file' = hist
  /\ UNCHANGED <<boot, cfg, disk, lost, state, hist, n, now, link, gui>>

Crash ==
  /\ ServerDies /\ Bounded
  /\ UNCHANGED <<ctl, link, gui>>

\* Before the reply is written, and before or after the setting is saved.
CrashInSet(c) ==
  /\ conns[c].req # <<>> /\ Run(c).op = "set"
  /\ Apply(Run(c).setting)
  /\ ServerDies /\ Bounded
  /\ UNCHANGED <<boot, lost, state, hist, file, n, now, link, gui>>

\* load_history takes the file away as it reads it.
Loaded == IF file = None THEN <<>> ELSE file

\* Mutant of Start: the saved settings are not read.
StartDefaults ==
  /\ ServerStarts
  /\ boot' = boot + 1 /\ cfg' = Default
  /\ hist' = Loaded /\ file' = None /\ n' = 0
  /\ state' = [boot |-> boot + 1, t |-> 0, cfg |-> Default]
  /\ lost' = (lost \/ cfg # disk)
  /\ UNCHANGED <<disk, now, link, gui>>

Start ==
  /\ ServerStarts
  /\ boot' = boot + 1 /\ cfg' = disk
  /\ hist' = Loaded /\ file' = None /\ n' = 0
  /\ state' = [boot |-> boot + 1, t |-> 0, cfg |-> disk]
  /\ lost' = (lost \/ cfg # disk)
  /\ UNCHANGED <<disk, now, link, gui>>

-----------------------------------------------------------------------------
(* The web server *)

\* The steps of a call that are the client's own.
InTime(t) ==
  /\ \/ Acquire(t) \/ Connect(t) \/ Refused(t) \/ Send(t)
     \/ BrokenPipe(t) \/ Receive(t) \/ EndOfFile(t)
  /\ UNCHANGED <<ctl, link, gui>>

Late(t) ==
  /\ Timeout(t)
  /\ late < MaxLate /\ Bounded /\ late' = late + 1
  /\ UNCHANGED <<ctl, link, acked, alone, sets>>

Poll ==
  /\ polled = None
  /\ Call(Poller, [op |-> "state"])
  /\ UNCHANGED <<ctl, link, gui>>

PollFails ==
  /\ got[Poller] = Unavailable
  /\ Return(Poller)
  /\ latest' = None /\ polled' = None
  /\ UNCHANGED <<ctl, history, linkBoot, gui>>

\* Mutant of Extended: only an empty copy takes the sample.
ExtendedFirst(h, st) == IF st.t > 0 /\ h = <<>> THEN Append(h, st.t) ELSE h

\* The copy with the sample of the state, when it does not have it yet.
Extended(h, st) ==
  IF st.t > 0 /\ (h = <<>> \/ st.t > Last(h)) THEN Append(h, st.t) ELSE h

Publish(st, h) ==
  /\ latest' = st /\ polled' = None
  /\ linkBoot' = st.boot
  /\ history' = Extended(h, st)

Answer == got[Poller].answer

Polled ==
  /\ polled = None /\ got[Poller] # Unavailable
  /\ Return(Poller)
  /\ IF Answer.boot = linkBoot
       THEN Publish(Answer, history)
       ELSE polled' = Answer /\ UNCHANGED <<latest, history, linkBoot>>
  /\ UNCHANGED <<ctl, gui>>

\* The state is of another start of the controller: _seed.
AskHistory ==
  /\ polled # None
  /\ Call(Poller, [op |-> "history"])
  /\ UNCHANGED <<ctl, link, gui>>

\* Mutant of Kept: the copy's samples that the history has as well stay.
KeptAll(h) == history

\* The copy's samples of before the history, in their order: a SelectSeq that
\* is not recursive, so that it can be reasoned about.
Early(h) == {i \in DOMAIN history : history[i] < Head(h)}

Nth(k, S) == CHOOSE i \in S : Cardinality({j \in S : j <= i}) = k

Kept(h) ==
  IF h = <<>> THEN history
  ELSE [k \in 1..Cardinality(Early(h)) |-> history[Nth(k, Early(h))]]

\* Mutants of Merged: only the controller's history; only the copy's.
MergedNew(h) == h
MergedOld(h) == IF history = <<>> THEN h ELSE history

Merged(h) == Kept(h) \o h

Seed ==
  /\ polled # None /\ got[Poller] # Unavailable
  /\ Return(Poller)
  /\ Publish(polled, Merged(Answer))
  /\ UNCHANGED <<ctl, gui>>

(***************************************************************************)
(* A request that was sent twice, or that failed, may still be on another  *)
(* connection: what it sets may then come after an acknowledged setting.   *)
(***************************************************************************)
Astray ==
  \E c \in Conns :
    \E i \in DOMAIN conns[c].req : conns[c].req[i].req.op = "set"

\* A request of the GUI.
Set(s) ==
  /\ s # cfg /\ sets < MaxSets /\ Bounded /\ sets' = sets + 1
  /\ alone' = ~Astray
  /\ Call(Gui, [op |-> "set", setting |-> s])
  /\ UNCHANGED <<ctl, link, acked, late>>

SetDone ==
  /\ Return(Gui)
  /\ IF got[Gui] = Unavailable
       THEN acked' = None /\ UNCHANGED latest
       ELSE /\ latest' = got[Gui].answer
            /\ acked' = IF alone /\ ~Astray THEN asked[Gui].req.setting ELSE None
  /\ alone' = TRUE
  /\ UNCHANGED <<ctl, history, linkBoot, polled, late, sets>>

WebRestart ==
  /\ ClientDies /\ Bounded
  /\ latest' = None /\ history' = <<>> /\ linkBoot' = 0 /\ polled' = None
  /\ acked' = None /\ alone' = TRUE
  /\ UNCHANGED <<ctl, late, sets>>

-----------------------------------------------------------------------------
PollerStep ==
  \/ Poll \/ PollFails \/ Polled \/ AskHistory \/ Seed
  \/ InTime(Poller) \/ Late(Poller)

GuiStep ==
  \/ \E s \in Settings : Set(s)
  \/ SetDone
  \/ InTime(Gui) \/ Late(Gui)

LinkNext ==
  \/ Sample \/ Stop \/ Crash \/ Start
  \/ \E c \in Conns : Serve(c) \/ CrashInSet(c)
  \/ PollerStep \/ GuiStep \/ WebRestart

LinkSpec == LinkInit /\ [][LinkNext]_linkVars

(***************************************************************************)
(* The poller is a loop and the handlers of both processes threads of      *)
(* their own. Locks in Python are not fair, so Acquire is under SF.        *)
(***************************************************************************)
FairLinkSpec ==
  /\ LinkSpec
  /\ WF_linkVars(PollerStep) /\ SF_linkVars(InTime(Poller))
  /\ WF_linkVars(SetDone) /\ WF_linkVars(InTime(Gui))
  /\ \A c \in Conns : WF_linkVars(Serve(c))

-----------------------------------------------------------------------------
(* Properties *)

\* The samples and settings are ones there are.
LinkTypeOK ==
  /\ boot \in Nat /\ {cfg, disk} \subseteq Settings /\ lost \in BOOLEAN /\ state \in States
  /\ hist \in Seq(1..now) /\ history \in Seq(1..now)
  /\ file = None \/ file \in Seq(1..now)
  /\ n \in 0..Len(hist)
  /\ latest = None \/ latest \in States
  /\ polled = None \/ polled \in States
  /\ linkBoot \in 0..boot
  /\ acked \in Settings \cup {None} /\ alone \in BOOLEAN

(***************************************************************************)
(* The plot is in the order of time and shows no sample twice, whichever   *)
(* process was started again in between (fpga_web.py:131, 143-146).        *)
(***************************************************************************)
HistoryOrdered == \A i, j \in DOMAIN history : i < j => history[i] < history[j]

(***************************************************************************)
(* The copy never loses a sample it has shown, also when the controller    *)
(* comes back with less of it: "the plot survives a restart of either      *)
(* process" (fpga_web.py:111-112).                                         *)
(***************************************************************************)
NothingForgotten ==
  [][linkBoot' = 0 \/ ToSet(history) \subseteq ToSet(history')]_linkVars

(***************************************************************************)
(* Once the link knows this start of the controller, its copy has every    *)
(* sample that the controller brought over from its last clean stop        *)
(* (fpga_web.py:128-129, temp_control.py:274-283).                         *)
(***************************************************************************)
SavedShown ==
  linkBoot = boot => ToSet(SubSeq(hist, 1, Len(hist) - n)) \subseteq ToSet(history)

(***************************************************************************)
(* A setting that was acknowledged stays in force until the next request,  *)
(* over crashes too unless its save had failed: it is acknowledged then as *)
(* well, and is gone at the next start (temp_control.py:231-240). It is    *)
(* left out where a request that was sent twice had a copy still to be     *)
(* handled when the next began, or has one now: the code lets it win.      *)
(***************************************************************************)
InForce(s) == cfg = s \/ lost

AckedSticks == acked # None /\ pc[Gui] = "out" => InForce(acked)

(***************************************************************************)
(* When the controller stays up, the state that the page shows becomes and *)
(* stays that of its present start, with its settings, and the last sample *)
(* is in the plot (fpga_web.py:124-138).                                   *)
(***************************************************************************)
LatestSettles ==
  <>[]up => <>[](/\ latest # None
                 /\ latest.boot = boot /\ latest.cfg = cfg /\ latest.t = state.t
                 /\ now \in ToSet(hist) => now \in ToSet(history))
=============================================================================
