----------------------------- MODULE GuiRelease -----------------------------
(***************************************************************************)
(* The releases of the web GUI: their install, confirmation and rollback   *)
(* by the handler threads of fpga_web.py (class Releases), and the         *)
(* supervisor (linux/board/de25web-supervisor.sh) that runs current/, has  *)
(* each new release prove itself, and reverts the one that does not.       *)
(*                                                                         *)
(* Both work on the same three names - the links current and previous, the *)
(* file pending - with no lock between them: every change of one of them   *)
(* is a step of its own.  A handler dies with its server, at any step, or   *)
(* ends at a step that fails, and its server runs on.                      *)
(***************************************************************************)
EXTENDS Integers, FiniteSets

CONSTANTS
  Rel,        \* release names
  Working,    \* those whose three processes answer
  First,      \* the release installed with the board
  Thread,     \* handler threads of the web server
  Again,      \* whether a change is also asked for while a release is on test
  SameAgain,  \* whether the release that runs is also uploaded again
  Late,       \* whether a confirmation may fall between the supervisor's look at
              \* pending and its verdict
  Keep,       \* max_releases of _prune
  TestTime,   \* TEST_SECONDS, in ticks
  MaxFails,   \* MAX_FAILS
  MaxChanges, MaxCrashes,  \* bounds: uploads and rollbacks; supervisor or board restarts
  None,       \* no link, no file
  Blank       \* an empty name: pending opened but not written, a link to releases/

ASSUME GuiReleaseConstants ==
  /\ Working \subseteq Rel /\ First \in Working
  /\ Again \in BOOLEAN /\ SameAgain \in BOOLEAN /\ Late \in BOOLEAN
  /\ Keep \in Nat \ {0} /\ TestTime \in Nat \ {0} /\ MaxFails \in Nat \ {0}
  /\ MaxChanges \in Nat /\ MaxCrashes \in Nat
  /\ None \notin Rel /\ Blank \notin Rel /\ None # Blank

VARIABLES
  current, previous, pending,
  stored, newer,  \* the releases in releases/; per release, those unpacked after it
  web, helpers,   \* the release of the web server; how many of its two helpers run
  exiting,        \* restart_soon has set its timer
  pc, rel, cur,   \* per handler thread: its step and its local variables
  sup,            \* the supervisor's step
  testRel, left, fails,  \* test_rel; what is left of its TEST_SECONDS; fails
  prev, bad,      \* the local variables of revert()
  confirmed,      \* history: the current release, once a client was told it is kept
  cut,            \* history: the uploads between the removal of a directory and the
                  \* new one, and the steps of a revert, that were cut short
  unmarked,       \* history: the releases made current with no mark left for them
  changes, crashes

links == <<current, previous, pending>>
server == <<web, helpers, exiting>>
handlers == <<pc, rel, cur>>
test == <<testRel, left, fails>>
reverting == <<prev, bad>>
supervisor == <<sup, test, reverting>>
history == <<confirmed, cut, unmarked>>
bounds == <<changes, crashes>>
dirs == <<stored, newer>>
vars == <<links, dirs, server, handlers, supervisor, history, bounds>>

Link == Rel \cup {None, Blank}
HandlerPC == {"idle", "confirm", "remove", "rename", "previous", "current",
              "pending", "name", "prune", "back", "swap", "repending",
              "rename2", "reply"}
\* The steps at which a release is current and its mark is not written.
NoMark == {"pending", "name", "swap", "repending", "rename2"}
RevertPC == {"revert", "uncurrent", "recurrent", "unprevious", "reprevious", "unpending"}

TypeOK ==
  /\ current \in Link /\ previous \in Link /\ pending \in Link
  /\ stored \subseteq Rel /\ newer \in [Rel -> SUBSET Rel]
  /\ web \in Rel \cup {None} /\ helpers \in 0..2 /\ exiting \in BOOLEAN
  /\ pc \in [Thread -> HandlerPC]
  /\ rel \in [Thread -> Link] /\ cur \in [Thread -> Link]
  /\ sup \in {"start", "round", "watch", "check", "gone"} \cup RevertPC
  /\ testRel \in Rel \cup {None} /\ left \in 0..TestTime /\ fails \in 0..(MaxFails + 1)
  /\ prev \in Link /\ bad \in Link /\ confirmed \in Link
  /\ cut \subseteq HandlerPC \cup RevertPC /\ unmarked \subseteq Rel
  /\ changes \in 0..MaxChanges /\ crashes \in 0..MaxCrashes

Init ==
  /\ current = First /\ previous = None /\ pending = None
  /\ stored = {First} /\ newer = [r \in Rel |-> {}]
  /\ web = None /\ helpers = 0 /\ exiting = FALSE
  /\ pc = [t \in Thread |-> "idle"]
  /\ rel = [t \in Thread |-> None] /\ cur = [t \in Thread |-> None]
  /\ sup = "start"
  /\ testRel = None /\ left = TestTime /\ fails = 0
  /\ prev = None /\ bad = None
  /\ confirmed = First /\ cut = {} /\ unmarked = {}
  /\ changes = MaxChanges /\ crashes = MaxCrashes

-----------------------------------------------------------------------------
(* The handlers.  One upload or rollback at a time, none in the half       *)
(* second before the server exits; a confirmation (the page and            *)
(* deploy_web.py both send one) may come at any time.  A mark left empty   *)
(* by a write that failed tests nothing.                                   *)

At(t, from, to) == pc[t] = from /\ pc' = [pc EXCEPT ![t] = to]

Change(t, to, r) ==
  /\ At(t, "idle", to)
  /\ web # None /\ ~exiting
  /\ pending \in {None, Blank} \/ Again
  /\ \A u \in Thread : pc[u] \in {"idle", "confirm"}
  /\ changes > 0 /\ changes' = changes - 1
  /\ rel' = [rel EXCEPT ![t] = r]
  /\ UNCHANGED <<links, dirs, server, supervisor, history, crashes>>

\* install: the archive is checked, and unpacked beside releases/r.
Install(t, r) ==
  /\ Change(t, "remove", r)
  /\ r # current \/ SameAgain
  /\ UNCHANGED cur

\* A directory of this name gives way to the new one.
Unpack(t) ==
  /\ \/ At(t, "remove", "rename") /\ stored' = stored \ {rel[t]} /\ UNCHANGED newer
     \/ /\ At(t, "rename", "previous")
        /\ stored' = stored \cup {rel[t]}
        /\ newer' = [r \in Rel |-> IF r \in stored THEN newer[r] \cup {rel[t]} ELSE {}]
  /\ UNCHANGED <<links, server, rel, cur, supervisor, history, bounds>>

\* previous <- current, unless it is the same release.
LinkPrevious(t) ==
  /\ At(t, "previous", "current")
  /\ cur' = [cur EXCEPT ![t] = current]
  /\ previous' = IF current \in Rel \ {rel[t]} THEN current ELSE previous
  /\ UNCHANGED <<current, pending, dirs, server, rel, supervisor, history, bounds>>

LinkCurrent(t) ==
  /\ At(t, "current", "pending")
  /\ current' = rel[t] /\ confirmed' = None /\ UNCHANGED <<cut, unmarked>>
  /\ UNCHANGED <<previous, pending, dirs, server, rel, cur, supervisor, bounds>>

\* Fault: a rollback is not put on test.
RollbackUntested(r) == pending

\* A rollback is on test like any new release.
RollbackMark(r) == r

\* The file is emptied when it is opened, and written when it is closed.
MarkPending(t) ==
  /\ \/ At(t, "pending", "name") /\ pending' = Blank
     \/ At(t, "name", "prune") /\ pending' = rel[t]
     \/ At(t, "repending", "rename2") /\ pending' = RollbackMark(Blank)
     \/ At(t, "rename2", "reply") /\ pending' = RollbackMark(rel[t])
  /\ UNCHANGED <<current, previous, dirs, server, rel, cur, supervisor, history, bounds>>

\* Fault: the release that ran until now is not kept.
KeptByNew(t) == {rel[t]}

\* _prune: all but the newest go, these excepted.
Kept(t) == {rel[t], cur[t]}

Prune(t) ==
  /\ At(t, "prune", "reply")
  /\ LET old == {r \in stored : Cardinality(newer[r] \cap stored) >= Keep}
     IN  stored' = stored \ (old \ Kept(t))
  /\ UNCHANGED <<links, newer, server, rel, cur, supervisor, history, bounds>>

\* The answer, and restart_soon.
Reply(t) ==
  /\ At(t, "reply", "idle") /\ exiting' = TRUE
  /\ UNCHANGED <<links, dirs, web, helpers, rel, cur, supervisor, history, bounds>>

\* rollback: current and previous change places, and the test begins.
Rollback(t) ==
  /\ previous \in Rel
  /\ Change(t, "back", previous)
  /\ cur' = [cur EXCEPT ![t] = current]

SwapLinks(t) ==
  /\ \/ At(t, "back", "swap") /\ current' = rel[t] /\ confirmed' = None /\ UNCHANGED <<previous, cut, unmarked>>
     \/ At(t, "swap", "repending") /\ previous' = cur[t] /\ UNCHANGED <<current, history>>
  /\ UNCHANGED <<pending, dirs, server, rel, cur, supervisor, bounds>>

\* _health: both helpers answer.
Healthy == web \in Working /\ helpers = 2

\* confirm: the release on test has to be the one that runs, and healthy ...
Confirm(t) ==
  /\ At(t, "idle", "confirm")
  /\ Healthy /\ pending = web
  /\ UNCHANGED <<links, dirs, server, rel, cur, supervisor, history, bounds>>

\* ... and the mark is removed, whichever release it names by then.
RemovePending(t) ==
  /\ At(t, "confirm", "idle")
  /\ sup # "check" \/ Late
  /\ pending' = None
  /\ confirmed' = IF pending = current THEN current ELSE confirmed
  /\ UNCHANGED <<current, previous, dirs, server, rel, cur, supervisor, cut, unmarked, bounds>>

\* What a handler that goes no further leaves.
Leave(ended, threads) ==
  /\ cut' = ended \cup ({pc[t] : t \in threads} \cap {"rename"})
  /\ unmarked' = unmarked \cup ({rel[t] : t \in {u \in threads : pc[u] \in NoMark}} \cap Rel)

\* A step that fails (a full card, a client that is gone when it is answered)
\* ends its handler, undone and with no restart_soon; the server runs on.
Fails(t) ==
  /\ pc[t] # "idle" /\ pc' = [pc EXCEPT ![t] = "idle"]
  /\ Leave(cut, {t})
  /\ UNCHANGED <<links, dirs, server, rel, cur, supervisor, confirmed, bounds>>

Handler(t) ==
  \/ Unpack(t) \/ LinkPrevious(t) \/ LinkCurrent(t) \/ MarkPending(t)
  \/ Prune(t) \/ Reply(t) \/ SwapLinks(t) \/ RemovePending(t) \/ Fails(t)

-----------------------------------------------------------------------------
(* The processes.                                                          *)

WebGone(ended) ==
  /\ Leave(ended, Thread)
  /\ web' = None /\ exiting' = FALSE
  /\ pc' = [t \in Thread |-> "idle"]
  /\ rel' = [t \in Thread |-> None] /\ cur' = [t \in Thread |-> None]

\* After an update or a rollback (os._exit), or by a crash, at any time.
WebExit ==
  /\ web # None /\ WebGone(cut)
  /\ UNCHANGED <<links, dirs, helpers, supervisor, confirmed, bounds>>

HelperExit ==
  /\ helpers > 0 /\ helpers' = helpers - 1
  /\ UNCHANGED <<links, dirs, web, exiting, handlers, supervisor, history, bounds>>

-----------------------------------------------------------------------------
(* The supervisor.                                                         *)

Go(from, to) == sup = from /\ sup' = to
StopAll == WebGone(cut) /\ helpers' = 0

\* The processes of a supervisor that was killed are stopped; a test that was
\* under way has failed.
Start ==
  /\ Go("start", IF pending = None THEN "round" ELSE "revert")
  /\ StopAll
  /\ UNCHANGED <<links, dirs, test, reverting, confirmed, bounds>>

\* Fault: every start of a release begins its test anew.
NewTest == FALSE

\* A release that was started again on test keeps its deadline and its count.
SameTest == testRel = current

\* A round of the main loop: what current/ is now is started.
Round ==
  /\ Go("round", "watch")
  /\ IF current \in Rel /\ pending = current
       THEN /\ testRel' = current
            /\ IF SameTest THEN UNCHANGED <<left, fails>>
                                    ELSE left' = TestTime /\ fails' = 0
       ELSE testRel' = None /\ UNCHANGED <<left, fails>>
  /\ web' = IF current \in stored THEN current ELSE None
  /\ helpers' = 2 /\ exiting' = FALSE
  /\ UNCHANGED <<links, dirs, handlers, reverting, history, bounds>>

\* Fault: a test goes on until it has failed.
OnTestStill == testRel

\* on_test: confirmed, or replaced by a newer upload, it is not this one's test.
OnTest == IF pending = testRel THEN testRel ELSE None

\* Once a second: is it still on test?  Helpers that exited are counted and
\* started again.
Watch ==
  /\ web # None /\ Go("watch", "check")
  /\ testRel' = OnTest
  /\ fails' = IF testRel' # None THEN fails + (2 - helpers) ELSE fails
  /\ helpers' = 2
  /\ UNCHANGED <<links, dirs, web, exiting, handlers, left, reverting, history, bounds>>

\* Whether the test has failed - by what Watch saw, not by pending now.
Check ==
  /\ IF testRel # None /\ (fails >= MaxFails \/ left = 0)
       THEN Go("check", "revert") /\ StopAll /\ testRel' = None
       ELSE Go("check", "watch") /\ UNCHANGED <<server, handlers, testRel, cut, unmarked>>
  /\ UNCHANGED <<links, dirs, left, fails, reverting, confirmed, bounds>>

WebLeft ==
  /\ web = None /\ Go("watch", "gone")
  /\ helpers' = 0
  /\ UNCHANGED <<links, dirs, web, exiting, handlers, test, reverting, history, bounds>>

Failed == fails + 1 >= MaxFails

\* The web server exited: for an update, or it counts.
Gone ==
  /\ LET counts == testRel # None /\ pending = testRel /\ current = testRel IN
       IF counts /\ Failed
         THEN Go("gone", "revert") /\ testRel' = None /\ UNCHANGED fails
         ELSE /\ Go("gone", "round") /\ UNCHANGED testRel
              /\ fails' = IF counts THEN fails + 1 ELSE fails
  /\ UNCHANGED <<links, dirs, server, handlers, left, reverting, history, bounds>>

(* revert.  ln -sfn removes a link before it makes the new one.            *)

BeginRevert ==
  /\ sup = "revert"
  /\ prev' = previous /\ bad' = (IF current = None THEN Blank ELSE current)
  /\ IF previous = None THEN sup' = "round" /\ pending' = None
                        ELSE sup' = "uncurrent" /\ UNCHANGED pending
  /\ UNCHANGED <<current, previous, dirs, server, handlers, test, history, bounds>>

Relink ==
  /\ \/ Go("uncurrent", "recurrent") /\ current' = None /\ UNCHANGED <<previous, pending>>
     \/ Go("recurrent", "unprevious") /\ current' = prev /\ UNCHANGED <<previous, pending>>
     \/ Go("unprevious", "reprevious") /\ previous' = None /\ UNCHANGED <<current, pending>>
     \/ Go("reprevious", "unpending") /\ previous' = bad /\ UNCHANGED <<current, pending>>
     \/ Go("unpending", "round") /\ pending' = None /\ UNCHANGED <<current, previous>>
  /\ UNCHANGED <<dirs, server, handlers, test, reverting, history, bounds>>

\* uptime_s goes on.
Tick ==
  /\ testRel # None /\ left > 0 /\ left' = left - 1
  /\ UNCHANGED <<links, dirs, server, handlers, sup, testRel, fails, reverting, history, bounds>>

\* The supervisor is killed (init starts it again), or the board restarts.
Crash ==
  /\ crashes > 0 /\ crashes' = crashes - 1
  /\ sup' = "start" /\ testRel' = None /\ fails' = 0 /\ left' = TestTime
  /\ LET ended == cut \cup ({sup} \cap RevertPC) IN
       \/ WebGone(ended) /\ helpers' = 0
       \/ cut' = ended /\ UNCHANGED <<server, handlers, unmarked>>
  /\ UNCHANGED <<links, dirs, reverting, confirmed, changes>>

Supervisor ==
  \/ Start \/ Round \/ Watch \/ Check \/ WebLeft \/ Gone \/ BeginRevert \/ Relink

Client ==
  \E t \in Thread : Rollback(t) \/ Confirm(t) \/ \E r \in Rel : Install(t, r)

Next ==
  \/ Client \/ (\E t \in Thread : Handler(t)) \/ WebExit \/ HelperExit
  \/ Supervisor \/ Tick \/ Crash

Spec == Init /\ [][Next]_vars

\* The handlers and the supervisor run, time passes, and a server that is to
\* exit does.
Fairness ==
  /\ WF_vars(Supervisor) /\ WF_vars(Tick)
  /\ WF_vars(exiting /\ WebExit)
  /\ \A t \in Thread : WF_vars(Handler(t))

FairSpec == Spec /\ Fairness

-----------------------------------------------------------------------------
(* Properties                                                              *)

\* A release runs, and it is not on test.
Settled == sup = "watch" /\ web # None /\ testRel = None

\* A restart came where a revert had begun to put the old release back, and the
\* mark was still there.
RevertCut == cut \cap (RevertPC \ {"revert", "uncurrent"}) # {}

\* A release that does not work does not stay: it runs only while it is on
\* test ("keeps a bad release from sticking", the supervisor's header) - but
\* for one whose mark was never written: a restart or a full card came after
\* the link current and before the mark.
NoBadSticks == Settled /\ ~RevertCut => web \in Working \cup unmarked

\* A release that was reverted stays out, also when the supervisor or the board
\* restarts: the next start reverts a release that was on test, and only once.
RevertLasts == Settled => web \in Working \cup unmarked

\* A release a client was told is confirmed is not reverted, by the end of the
\* test's time, by processes that exit later, or by a restart.
ConfirmedStays == sup = "uncurrent" => bad # confirmed

\* A restart came while an upload replaced a release of the same name: that
\* release is not on the disk, whichever link names it.
UploadCut == "rename" \in cut

\* Whenever the supervisor starts current/, that release is on the disk.
CurrentStored == sup = "round" /\ ~UploadCut => current \in stored

\* The rollback target is on the disk, unless an upload of the same name is
\* taking its place: _prune spares it.
PreviousStored ==
  (\A t \in Thread : pc[t] # "rename") /\ ~UploadCut /\ previous \in Rel =>
    previous \in stored

\* There is a current release to start, also after a restart that cut a
\* revert short between the removal of the link and the new one.
CurrentLinked == sup = "round" => current \in Rel

\* The supervisor finds a release on the disk whichever link it follows: to
\* start it, to roll back to it, or to revert to it, also after a restart that
\* cut an upload, a rollback or a revert short at any of its steps.  (A second
\* restart, within the revert that makes up for one cut between the two halves
\* of ln -sfn, leaves previous a link to releases/, and the revert after that
\* makes it current.)
LinksHold ==
  /\ CurrentStored /\ PreviousStored /\ CurrentLinked
  /\ sup = "recurrent" /\ ~UploadCut => prev \in stored

\* A test ends, with the release confirmed or reverted: the one a change that
\* was answered announced, or one the supervisor has begun.  (A change whose
\* answer cannot be written restarts nothing, so its test does not begin.)
TestEnds == pending \in Rel /\ (exiting \/ testRel = pending) ~> pending = None
=============================================================================
