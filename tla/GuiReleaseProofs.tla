-------------------------- MODULE GuiReleaseProofs --------------------------
(***************************************************************************)
(* Proofs about GuiRelease, for any releases, limits, changes and number   *)
(* of restarts.  Each theorem names as a hypothesis what a client or the   *)
(* timing must not do for it; TLC finds a counterexample without it.       *)
(*                                                                         *)
(* All rest on Base: handlers act only while their server runs, one of     *)
(* them at a time, and never while the supervisor reverts, so that the     *)
(* links and the mark have one writer at a time, but for the removal of    *)
(* the mark by a confirmation.                                             *)
(***************************************************************************)
EXTENDS GuiRelease, TLAPS

\* A thread that changes neither the links nor the mark, but may remove it.
AtRest(t) == pc[t] \in {"idle", "confirm"}

-----------------------------------------------------------------------------
(* Types, in groups of variables.                                          *)

NameType ==
  /\ current \in Link /\ previous \in Link /\ pending \in Link
  /\ prev \in Link /\ bad \in Link /\ confirmed \in Link
  /\ rel \in [Thread -> Link] /\ cur \in [Thread -> Link]
DirType == stored \subseteq Rel /\ newer \in [Rel -> SUBSET Rel]
ServerType ==
  /\ web \in Rel \cup {None} /\ exiting \in BOOLEAN
  /\ pc \in [Thread -> HandlerPC]
  /\ sup \in {"start", "round", "watch", "check", "gone"} \cup RevertPC
  /\ cut \subseteq HandlerPC \cup RevertPC /\ unmarked \subseteq Rel
CountType ==
  /\ helpers \in 0..2
  /\ testRel \in Rel \cup {None} /\ left \in 0..TestTime /\ fails \in 0..(MaxFails + 1)
  /\ changes \in 0..MaxChanges /\ crashes \in 0..MaxCrashes

\* The exits of a release on test are below the limit between two looks at
\* them, so one more look counts no more than two above it.
TestCount ==
  /\ sup \in {"start"} \cup RevertPC => testRel = None
  /\ sup \in {"watch", "round", "gone"} /\ testRel # None => fails < MaxFails

\* A change has a release to change to.
Named == \A t \in Thread : AtRest(t) \/ rel[t] \in Rel

Typed == NameType /\ DirType /\ ServerType /\ CountType /\ TestCount /\ Named

LEMMA Groups == Typed <=> TypeOK /\ TestCount /\ Named
BY DEF Typed, TypeOK, NameType, DirType, ServerType, CountType

LEMMA InitTyped == Init => Typed
<1> SUFFICES ASSUME Init PROVE Typed
  OBVIOUS
<1> USE GuiReleaseConstants DEF Init
<1>1. NameType
  BY DEF NameType, Link
<1>2. DirType
  BY DEF DirType
<1>3. ServerType
  <2>1. pc \in [Thread -> HandlerPC]
    BY DEF HandlerPC
  <2>2. web \in Rel \cup {None} /\ exiting \in BOOLEAN
    BY Zenon
  <2> QED
    BY <2>1, <2>2 DEF ServerType
<1>4. CountType /\ TestCount /\ Named
  BY DEF CountType, TestCount, Named, AtRest
<1> QED
  BY <1>1, <1>2, <1>3, <1>4 DEF Typed

LEMMA NameStep == Typed /\ [Next]_vars => NameType'
<1> SUFFICES ASSUME NameType, DirType, [Next]_vars PROVE NameType'
  BY DEF Typed
<1> USE GuiReleaseConstants DEF NameType, Link
<1>1. CASE Client
  BY <1>1 DEF Client, Rollback, Confirm, Install, Change, links, supervisor, reverting, history
<1>2. ASSUME NEW t \in Thread, Handler(t) PROVE NameType'
  BY <1>2 DEF Handler, Unpack, LinkPrevious, LinkCurrent, MarkPending, RollbackMark,
              Prune, Reply, SwapLinks, RemovePending, Fails, links, supervisor, reverting, history
<1>3. CASE WebExit \/ HelperExit \/ Crash
  BY <1>3 DEF WebExit, WebGone, HelperExit, Crash, links, supervisor, reverting, handlers,
              server, history
<1>4. CASE Start \/ Round \/ Watch \/ Check \/ WebLeft \/ Gone \/ Tick
  BY <1>4 DEF Start, Round, Watch, Check, WebLeft, Gone, Tick, StopAll, WebGone, links,
              supervisor, reverting, handlers, history
<1>5. CASE BeginRevert \/ Relink
  BY <1>5 DEF BeginRevert, Relink, Go, handlers, history, reverting
<1>6. CASE UNCHANGED vars
  BY <1>6 DEF vars, links, supervisor, reverting, handlers, history
<1> QED
  BY <1>1, <1>2, <1>3, <1>4, <1>5, <1>6 DEF Next, Supervisor

LEMMA DirStep == Typed /\ [Next]_vars => DirType'
<1> SUFFICES ASSUME Named, DirType, [Next]_vars PROVE DirType'
  BY DEF Typed
<1> USE DEF DirType
<1>1. ASSUME NEW t \in Thread, Unpack(t) PROVE DirType'
  <2>1. rel[t] \in Rel
    BY <1>1 DEF Unpack, At, Named, AtRest
  <2> QED
    BY <1>1, <2>1 DEF Unpack
<1>2. ASSUME NEW t \in Thread, Prune(t) PROVE DirType'
  BY <1>2 DEF Prune
<1>3. ~(\E t \in Thread : Unpack(t) \/ Prune(t)) => UNCHANGED dirs
  BY DEF Next, Client, Rollback, Confirm, Install, Change, Handler, LinkPrevious, LinkCurrent,
         MarkPending, Reply, SwapLinks, RemovePending, Fails, WebExit, HelperExit, Crash, Supervisor,
         Start, Round, Watch, Check, WebLeft, Gone, Tick, BeginRevert, Relink, vars
<1> QED
  BY <1>1, <1>2, <1>3 DEF dirs

LEMMA ServerStep == Typed /\ [Next]_vars => ServerType'
<1> SUFFICES ASSUME ServerType, DirType, [Next]_vars PROVE ServerType'
  BY DEF Typed
<1> USE DEF ServerType, server, supervisor, history, Go, At
<1>1. ASSUME NEW t \in Thread,
             Rollback(t) \/ Confirm(t) \/ Handler(t) \/ \E r \in Rel : Install(t, r)
      PROVE  ServerType'
  <2>1. pc' \in [Thread -> HandlerPC]
    BY <1>1 DEF Rollback, Confirm, Install, Change, Handler, Unpack, LinkPrevious,
                LinkCurrent, MarkPending, Prune, Reply, SwapLinks, RemovePending, Fails, HandlerPC
  <2>2. UNCHANGED <<web, sup>> /\ exiting' \in BOOLEAN
    BY <1>1 DEF Rollback, Confirm, Install, Change, Handler, Unpack, LinkPrevious,
                LinkCurrent, MarkPending, Prune, Reply, SwapLinks, RemovePending, Fails
  <2>3. cut' \subseteq HandlerPC \cup RevertPC /\ unmarked' \subseteq Rel
    BY <1>1 DEF Rollback, Confirm, Install, Change, Handler, Unpack, LinkPrevious,
                LinkCurrent, MarkPending, Prune, Reply, SwapLinks, RemovePending, Fails,
                Leave, HandlerPC
  <2> QED
    BY <2>1, <2>2, <2>3
<1>2. ASSUME NEW ended, ended \subseteq HandlerPC \cup RevertPC, WebGone(ended)
      PROVE  /\ web' = None /\ exiting' \in BOOLEAN /\ pc' \in [Thread -> HandlerPC]
             /\ cut' \subseteq HandlerPC \cup RevertPC /\ unmarked' \subseteq Rel
  <2>1. pc' \in [Thread -> HandlerPC]
    BY <1>2 DEF WebGone, HandlerPC
  <2>2. cut' \subseteq HandlerPC \cup RevertPC /\ unmarked' \subseteq Rel
    BY <1>2 DEF WebGone, Leave, HandlerPC
  <2> QED
    BY <1>2, <2>1, <2>2, Zenon DEF WebGone
<1>3. CASE WebExit
  <2>1. WebGone(cut) /\ UNCHANGED sup
    BY <1>3, Zenon DEF WebExit
  <2> QED
    BY <1>2, <2>1
<1>4. CASE HelperExit
  <2>1. UNCHANGED <<web, exiting, pc, sup, cut, unmarked>>
    BY <1>4 DEF HelperExit, handlers
  <2> QED
    BY <2>1
<1>5. CASE Start
  <2>1. WebGone(cut) /\ sup' \in {"round", "revert"}
    BY <1>5 DEF Start, StopAll
  <2> QED
    BY <1>2, <2>1 DEF RevertPC
<1>6. CASE Round
  <2>1. UNCHANGED <<pc, cut, unmarked>> /\ sup' = "watch" /\ web' \in Rel \cup {None}
    BY <1>6 DEF Round, handlers, DirType
  <2>2. exiting' \in BOOLEAN
    BY <1>6, Zenon DEF Round
  <2> QED
    BY <2>1, <2>2
<1>7. CASE Watch \/ WebLeft \/ Gone
  <2>1. /\ UNCHANGED <<web, exiting, pc, cut, unmarked>>
        /\ sup' \in {"check", "gone", "revert", "round"}
    BY <1>7 DEF Watch, WebLeft, Gone, handlers
  <2> QED
    BY <2>1 DEF RevertPC
<1>8. CASE Check
  <2>1. \/ WebGone(cut) /\ sup' = "revert"
        \/ UNCHANGED <<web, exiting, pc, cut, unmarked>> /\ sup' = "watch"
    BY <1>8 DEF Check, StopAll, handlers
  <2> QED
    BY <1>2, <2>1 DEF RevertPC
<1>9. CASE BeginRevert \/ Relink
  <2>1. UNCHANGED <<web, exiting, pc, cut, unmarked>> /\ sup' \in {"round"} \cup RevertPC
    BY <1>9 DEF BeginRevert, Relink, handlers, RevertPC
  <2> QED
    BY <2>1
<1>10. CASE Tick
  BY <1>10 DEF Tick, handlers
<1>11. CASE Crash
  <2>1. cut \cup ({sup} \cap RevertPC) \subseteq HandlerPC \cup RevertPC
    OBVIOUS
  <2>2. /\ sup' = "start"
        /\ \/ WebGone(cut \cup ({sup} \cap RevertPC))
           \/ /\ cut' = cut \cup ({sup} \cap RevertPC)
              /\ UNCHANGED <<web, exiting, pc, unmarked>>
    BY <1>11 DEF Crash, handlers
  <2> QED
    BY <1>2, <2>1, <2>2
<1>12. CASE UNCHANGED vars
  BY <1>12 DEF vars, handlers
<1> QED
  BY <1>1, <1>3, <1>4, <1>5, <1>6, <1>7, <1>8, <1>9, <1>10, <1>11, <1>12
     DEF Next, Client, Supervisor

LEMMA CountStep == Typed /\ [Next]_vars => CountType' /\ TestCount'
<1> SUFFICES ASSUME CountType, TestCount, ServerType, [Next]_vars
             PROVE  CountType' /\ TestCount'
  BY DEF Typed
<1> USE GuiReleaseConstants DEF CountType, TestCount, bounds, test, supervisor, server, Go, RevertPC
<1>1. CASE Client
  BY <1>1 DEF Client, Rollback, Confirm, Install, Change
<1>2. ASSUME NEW t \in Thread, Handler(t) PROVE CountType' /\ TestCount'
  BY <1>2 DEF Handler, Unpack, LinkPrevious, LinkCurrent, MarkPending, Prune, Reply,
              SwapLinks, RemovePending, Fails
<1>3. CASE WebExit \/ HelperExit
  BY <1>3 DEF WebExit, HelperExit
<1>4. CASE Start
  BY <1>4 DEF Start, StopAll
<1>5. CASE Round
  BY <1>5 DEF Round, SameTest
<1>6. CASE Watch
  <2>1. 2 - helpers \in 0..2
    OBVIOUS
  <2> QED
    BY <1>6, <2>1 DEF Watch, OnTest
<1>7. CASE Check
  BY <1>7 DEF Check, StopAll
<1>8. CASE WebLeft
  BY <1>8 DEF WebLeft
<1>9. CASE Gone
  BY <1>9 DEF Gone, Failed
<1>10. CASE BeginRevert \/ Relink
  BY <1>10 DEF BeginRevert, Relink
<1>11. CASE Tick
  BY <1>11 DEF Tick
<1>12. CASE Crash
  BY <1>12 DEF Crash
<1>13. CASE UNCHANGED vars
  BY <1>13 DEF vars
<1> QED
  BY <1>1, <1>2, <1>3, <1>4, <1>5, <1>6, <1>7, <1>8, <1>9, <1>10, <1>11, <1>12, <1>13
     DEF Next, Supervisor

LEMMA NamedStep == Typed /\ [Next]_vars => Named'
<1> SUFFICES ASSUME Named, NameType, ServerType, [Next]_vars PROVE Named'
  BY DEF Typed
<1> USE DEF Named, AtRest, NameType, ServerType
<1>1. ASSUME NEW t \in Thread,
             Rollback(t) \/ Confirm(t) \/ \E r \in Rel : Install(t, r)
      PROVE  Named'
  BY <1>1 DEF Rollback, Confirm, Install, Change, At
<1>2. ASSUME NEW t \in Thread, Handler(t) PROVE Named'
  <2>1. UNCHANGED rel /\ (pc[t] = "confirm" => pc' = [pc EXCEPT ![t] = "idle"])
        /\ \A u \in Thread \ {t} : pc'[u] = pc[u]
    BY <1>2 DEF Handler, Unpack, LinkPrevious, LinkCurrent, MarkPending, Prune, Reply,
                SwapLinks, RemovePending, Fails, At
  <2>2. pc[t] # "idle"
    BY <1>2 DEF Handler, Unpack, LinkPrevious, LinkCurrent, MarkPending, Prune, Reply,
                SwapLinks, RemovePending, Fails, At
  <2> QED
    BY <2>1, <2>2
<1>3. ASSUME NEW ended, WebGone(ended) PROVE Named'
  BY <1>3 DEF WebGone
<1>4. CASE WebExit \/ Supervisor \/ Crash \/ HelperExit \/ Tick \/ UNCHANGED vars
  BY <1>3, <1>4 DEF WebExit, HelperExit, Crash, Supervisor, Start, Round, Watch, Check,
     WebLeft, Gone, Tick, BeginRevert, Relink, StopAll, handlers, vars
<1> QED
  BY <1>1, <1>2, <1>4 DEF Next, Client

LEMMA TypedStep == Typed /\ [Next]_vars => Typed'
BY NameStep, DirStep, ServerStep, CountStep, NamedStep DEF Typed

\* Every variable keeps its type.
THEOREM TypeCorrect == Spec => []TypeOK
<1>1. Typed => TypeOK
  BY Groups
<1> QED
  BY InitTyped, TypedStep, <1>1, PTL DEF Spec

-----------------------------------------------------------------------------
(* Who acts: handlers only while their server runs, one of them at a time, *)
(* and never while the supervisor reverts.                                 *)

\* The steps of a change that has linked its release as current.
Linked == {"pending", "name", "prune", "swap", "repending", "rename2", "reply"}

Served ==
  /\ web = None => \A t \in Thread : pc[t] = "idle"
  /\ sup \in RevertPC \cup {"round", "gone"} => web = None

Alone ==
  /\ \A t, u \in Thread : AtRest(t) \/ AtRest(u) \/ t = u
  /\ exiting => \A t \in Thread : AtRest(t)
  /\ \A t \in Thread : pc[t] \in Linked => current = rel[t]

Base == Typed /\ Served /\ Alone

LEMMA InitBase == Init => Base
<1> SUFFICES ASSUME Init PROVE Served /\ Alone
  BY InitTyped DEF Base
<1> QED
  BY DEF Init, Served, Alone, AtRest, Linked, RevertPC

LEMMA ServedStep == Base /\ [Next]_vars => Served'
<1> SUFFICES ASSUME Base, [Next]_vars PROVE Served'
  OBVIOUS
<1> USE GuiReleaseConstants DEF Base, Served, server, supervisor, Go
<1>1. ASSUME NEW t \in Thread,
             Rollback(t) \/ Confirm(t) \/ Handler(t) \/ \E r \in Rel : Install(t, r)
      PROVE  Served'
  <2>1. web # None
    BY <1>1 DEF Rollback, Confirm, Install, Change, Healthy, Handler, Unpack, LinkPrevious,
                LinkCurrent, MarkPending, Prune, Reply, SwapLinks, RemovePending, Fails, At,
                Typed, ServerType
  <2>2. UNCHANGED <<web, sup>>
    BY <1>1 DEF Rollback, Confirm, Install, Change, Handler, Unpack, LinkPrevious,
                LinkCurrent, MarkPending, Prune, Reply, SwapLinks, RemovePending, Fails
  <2> QED
    BY <2>1, <2>2
<1>2. CASE WebExit
  BY <1>2 DEF WebExit, WebGone
<1>3. CASE HelperExit \/ Tick \/ UNCHANGED vars
  BY <1>3 DEF HelperExit, Tick, handlers, vars
<1>4. CASE Start
  BY <1>4 DEF Start, StopAll, WebGone
<1>5. CASE Round
  BY <1>5 DEF Round, handlers, RevertPC
<1>6. CASE Watch \/ WebLeft \/ Gone
  BY <1>6 DEF Watch, WebLeft, Gone, handlers, RevertPC
<1>7. CASE Check
  BY <1>7 DEF Check, StopAll, WebGone, handlers, RevertPC
<1>8. CASE BeginRevert \/ Relink
  BY <1>8 DEF BeginRevert, Relink, handlers, RevertPC
<1>9. CASE Crash
  BY <1>9 DEF Crash, WebGone, handlers, RevertPC
<1> QED
  BY <1>1, <1>2, <1>3, <1>4, <1>5, <1>6, <1>7, <1>8, <1>9 DEF Next, Client, Supervisor

LEMMA AloneStep == Base /\ [Next]_vars => Alone'
<1> SUFFICES ASSUME Base, [Next]_vars PROVE Alone'
  OBVIOUS
<1> USE DEF Base, Alone, AtRest
<1>1. ASSUME NEW t \in Thread, NEW to, NEW r, Change(t, to, r),
             to \in {"remove", "back"}, UNCHANGED current
      PROVE  Alone'
  BY <1>1 DEF Change, At, Linked, server, Typed, ServerType, NameType
<1>2. ASSUME NEW t \in Thread, Confirm(t) PROVE Alone'
  BY <1>2 DEF Confirm, At, Linked, server, links, Typed, ServerType
<1>3. ASSUME NEW t \in Thread, Handler(t) PROVE Alone'
  <2> USE DEF At, Linked, links, Typed, ServerType
  <2>1. CASE Unpack(t) \/ LinkPrevious(t) \/ MarkPending(t) \/ Prune(t) \/ RemovePending(t)
    BY <1>3, <2>1 DEF Unpack, LinkPrevious, MarkPending, Prune, RemovePending, server
  <2>2. CASE LinkCurrent(t)
    BY <2>2 DEF LinkCurrent, server
  <2>3. CASE SwapLinks(t)
    BY <2>3 DEF SwapLinks, server
  <2>4. CASE Reply(t)
    BY <2>4 DEF Reply
  <2>5. CASE Fails(t)
    BY <2>5 DEF Fails, server
  <2> QED
    BY <1>3, <2>1, <2>2, <2>3, <2>4, <2>5 DEF Handler
<1>4. ASSUME \A t \in Thread : pc'[t] = "idle" PROVE Alone'
  BY <1>4 DEF Linked
<1>5. CASE WebExit \/ Start
  BY <1>4, <1>5 DEF WebExit, Start, StopAll, WebGone
<1>6. CASE Round \/ Gone \/ BeginRevert \/ Relink
  <2>1. UNCHANGED pc /\ web = None
    BY <1>6 DEF Round, Gone, BeginRevert, Relink, handlers, Go, Served, RevertPC
  <2> QED
    BY <1>4, <2>1 DEF Served
<1>7. ASSUME UNCHANGED <<current, exiting, handlers>> PROVE Alone'
  BY <1>7 DEF handlers
<1>8. CASE HelperExit \/ Watch \/ WebLeft \/ Tick \/ UNCHANGED vars
  BY <1>7, <1>8 DEF HelperExit, Watch, WebLeft, Tick, links, server, vars
<1>9. CASE Check
  BY <1>4, <1>7, <1>9 DEF Check, StopAll, WebGone, links, server
<1>10. CASE Crash
  BY <1>4, <1>7, <1>10 DEF Crash, WebGone, links, server
<1>11. CASE Client
  <2>1. ASSUME NEW t \in Thread, Rollback(t) PROVE Alone'
    <3>1. Change(t, "back", previous) /\ UNCHANGED current
      BY <2>1 DEF Rollback, Change, links
    <3> QED
      BY <1>1, <3>1
  <2>2. ASSUME NEW t \in Thread, NEW r \in Rel, Install(t, r) PROVE Alone'
    <3>1. Change(t, "remove", r) /\ UNCHANGED current
      BY <2>2 DEF Install, Change, links
    <3> QED
      BY <1>1, <3>1
  <2> QED
    BY <1>2, <1>11, <2>1, <2>2 DEF Client
<1> QED
  BY <1>3, <1>5, <1>6, <1>8, <1>9, <1>10, <1>11 DEF Next, Supervisor

LEMMA BaseStep == Base /\ [Next]_vars => Base'
BY TypedStep, ServedStep, AloneStep DEF Base

-----------------------------------------------------------------------------
(* A confirmation that was answered.                                       *)

\* The supervisor reverts what is on test, if no confirmation falls between its
\* look at the mark and its verdict.
Pended ==
  /\ sup \in RevertPC => pending # None
  /\ sup = "check" /\ testRel # None => pending # None

LEMMA PendedStep ==
  ASSUME ~Late, Base, Pended, [Next]_vars
  PROVE  Pended'
<1> USE GuiReleaseConstants DEF Pended, links, supervisor, test, Go
<1>1. CASE Client
  BY <1>1 DEF Client, Rollback, Confirm, Install, Change
<1>2. ASSUME NEW t \in Thread, Handler(t) PROVE Pended'
  <2>1. CASE Unpack(t) \/ LinkPrevious(t) \/ LinkCurrent(t) \/ Prune(t) \/ Reply(t)
             \/ SwapLinks(t) \/ Fails(t)
    BY <2>1 DEF Unpack, LinkPrevious, LinkCurrent, Prune, Reply, SwapLinks, Fails
  <2>2. CASE MarkPending(t)
    <3>1. rel[t] \in Rel
      BY <2>2 DEF MarkPending, At, Base, Typed, Named, AtRest
    <3> QED
      BY <2>2, <3>1 DEF MarkPending, RollbackMark
  <2>3. CASE RemovePending(t)
    <3>1. sup \notin RevertPC /\ sup # "check"
      BY <2>3 DEF RemovePending, At, Base, Served
    <3> QED
      BY <2>3, <3>1 DEF RemovePending
  <2> QED
    BY <1>2, <2>1, <2>2, <2>3 DEF Handler
<1>3. CASE WebExit \/ HelperExit \/ Tick \/ UNCHANGED vars
  BY <1>3 DEF WebExit, HelperExit, Tick, vars
<1>4. CASE Start \/ Round \/ Watch \/ Check \/ WebLeft \/ Gone
  BY <1>4 DEF Start, Round, Watch, OnTest, Check, WebLeft, Gone, RevertPC
<1>5. CASE BeginRevert \/ Relink
  BY <1>5 DEF BeginRevert, Relink, RevertPC
<1>6. CASE Crash
  BY <1>6 DEF Crash, RevertPC
<1> QED
  BY <1>1, <1>2, <1>3, <1>4, <1>5, <1>6 DEF Next, Supervisor

\* What is on test, or about to be, is not confirmed; and with no change during
\* a test, a change that began finds nothing on test until it marks its own
\* release.
Unconfirmed ==
  /\ pending # None => confirmed = None
  /\ \A t \in Thread :
       /\ pc[t] \in {"pending", "name", "swap", "repending", "rename2"} => confirmed = None
       /\ pc[t] \in {"remove", "rename", "previous", "current", "pending",
                     "back", "swap", "repending"} => pending \in {None, Blank}
       /\ pc[t] \in {"name", "rename2"} => pending \in {None, Blank}
  /\ sup = "uncurrent" => bad # None

LEMMA UnconfirmedStep ==
  ASSUME ~Again, Base, Unconfirmed, [Next]_vars
  PROVE  Unconfirmed'
<1> USE GuiReleaseConstants DEF Unconfirmed, links, history, Go, At
<1>1. ASSUME NEW t \in Thread,
             Rollback(t) \/ Confirm(t) \/ \E r \in Rel : Install(t, r)
      PROVE  Unconfirmed'
  BY <1>1 DEF Rollback, Confirm, Install, Change, supervisor, reverting,
              Base, Typed, ServerType
<1>2. ASSUME NEW t \in Thread, Handler(t) PROVE Unconfirmed'
  <2> USE DEF Base, Typed, ServerType, Alone, AtRest, Named, Linked, supervisor, reverting
  <2>1. CASE Unpack(t) \/ LinkPrevious(t) \/ Prune(t) \/ Reply(t) \/ Fails(t)
    BY <2>1 DEF Unpack, LinkPrevious, Prune, Reply, Fails
  <2>2. CASE LinkCurrent(t) \/ SwapLinks(t)
    BY <2>2 DEF LinkCurrent, SwapLinks
  <2>3. CASE MarkPending(t)
    BY <2>3 DEF MarkPending, RollbackMark
  <2>4. CASE RemovePending(t)
    BY <2>4 DEF RemovePending, NameType
  <2> QED
    BY <1>2, <2>1, <2>2, <2>3, <2>4 DEF Handler
<1>3. CASE WebExit \/ HelperExit \/ Tick \/ UNCHANGED vars
  BY <1>3 DEF WebExit, WebGone, HelperExit, Tick, handlers, supervisor, reverting, vars
<1>4. CASE Start \/ Round \/ Watch \/ Check \/ WebLeft \/ Gone
  BY <1>4 DEF Start, StopAll, WebGone, Round, Watch, Check, WebLeft, Gone, handlers, reverting
<1>5. CASE BeginRevert \/ Relink
  BY <1>5 DEF BeginRevert, Relink, handlers, reverting
<1>6. CASE Crash
  BY <1>6 DEF Crash, WebGone, handlers, reverting
<1> QED
  BY <1>1, <1>2, <1>3, <1>4, <1>5, <1>6 DEF Next, Client, Supervisor

\* Where no change is asked for during a test, and no confirmation falls between
\* the supervisor's look at the mark and its verdict, a release a client was
\* told is confirmed is never reverted: for any number of handler threads,
\* whatever exits, and however often the supervisor or the board restarts.
THEOREM ConfirmationHolds ==
  ASSUME ~Late, ~Again
  PROVE  Spec => []ConfirmedStays
<1> DEFINE IInv == Base /\ Pended /\ Unconfirmed
<1>1. Init => IInv
  BY InitBase, GuiReleaseConstants DEF Init, Pended, Unconfirmed, RevertPC
<1>2. IInv /\ [Next]_vars => IInv'
  BY BaseStep, PendedStep, UnconfirmedStep
<1>3. IInv => ConfirmedStays
  BY DEF Pended, Unconfirmed, ConfirmedStays, RevertPC
<1> QED
  BY <1>1, <1>2, <1>3, PTL DEF Spec

-----------------------------------------------------------------------------
(* The links, and the disk behind them.                                    *)

\* After a restart that cut a revert between the removal of current and its new
\* link, the next revert makes previous a link to releases/.  No other restart
\* comes before that revert has removed the mark.
NoSecondCut == Crash => ~(sup = "unpending" /\ bad = Blank)

\* current is missing only within a revert, or where a restart cut one short: a
\* mark and a rollback target are there then.  A handler that holds the names
\* of two releases holds those the links have.
LinkInv ==
  /\ current \notin Rel =>
       /\ current = None /\ web = None /\ pending # None /\ previous \in Rel
       /\ sup \in {"start", "revert", "uncurrent", "recurrent"}
  /\ previous = Blank => pending = None \/ (sup = "unpending" /\ bad = Blank)
  /\ sup \in {"uncurrent", "recurrent"} => prev = previous /\ prev \in Rel
  /\ \A t \in Thread :
       /\ pc[t] \in {"remove", "rename", "previous", "current"} => rel[t] # current
       /\ pc[t] \in {"current", "pending", "name", "prune"} => previous = cur[t] /\ previous \in Rel
       /\ pc[t] \in {"back", "swap"} => previous = rel[t] /\ cur[t] \in Rel
       /\ pc[t] \in {"repending", "rename2"} => previous \in Rel

LEMMA LinkStep ==
  ASSUME ~SameAgain, NoSecondCut, Base, Pended, LinkInv, [Next]_vars
  PROVE  LinkInv'
<1> USE GuiReleaseConstants DEF LinkInv, links, Go, At
<1> USE DEF Base, Typed, ServerType, NameType, Served, Alone, AtRest, Named
<1>1. ASSUME NEW t \in Thread, Confirm(t) PROVE LinkInv'
  BY <1>1 DEF Confirm, server, supervisor, reverting
<1>2. ASSUME NEW t \in Thread, Rollback(t) PROVE LinkInv'
  BY <1>2 DEF Rollback, Change, server, supervisor, reverting
<1>3. ASSUME NEW t \in Thread, NEW r \in Rel, Install(t, r) PROVE LinkInv'
  BY <1>3 DEF Install, Change, server, supervisor, reverting
<1>4. ASSUME NEW t \in Thread, Handler(t) PROVE LinkInv'
  <2> USE DEF server, supervisor, reverting
  <2>1. web # None /\ current \in Rel /\ sup \notin RevertPC
    BY <1>4 DEF Handler, Unpack, LinkPrevious, LinkCurrent, MarkPending, Prune, Reply,
                SwapLinks, RemovePending, Fails
  <2>2. CASE Unpack(t) \/ Prune(t) \/ Reply(t) \/ RemovePending(t) \/ Fails(t)
    BY <2>1, <2>2 DEF Unpack, Prune, Reply, RemovePending, Fails
  <2>3. CASE LinkPrevious(t)
    BY <2>1, <2>3 DEF LinkPrevious
  <2>4. CASE LinkCurrent(t)
    BY <2>1, <2>4 DEF LinkCurrent
  <2>5. CASE MarkPending(t)
    BY <2>1, <2>5 DEF MarkPending, RollbackMark
  <2>6. CASE SwapLinks(t)
    BY <2>1, <2>6 DEF SwapLinks
  <2> QED
    BY <1>4, <2>2, <2>3, <2>4, <2>5, <2>6 DEF Handler
<1>5. CASE WebExit
  BY <1>5 DEF WebExit, WebGone, supervisor, reverting
<1>6. CASE HelperExit \/ Tick \/ UNCHANGED vars
  BY <1>6 DEF HelperExit, Tick, handlers, server, supervisor, reverting, vars
<1>7. CASE Start
  BY <1>7 DEF Start, StopAll, WebGone, reverting
<1>8. CASE Round \/ Watch \/ WebLeft \/ Gone
  BY <1>8 DEF Round, Watch, WebLeft, Gone, handlers, server, reverting
<1>9. CASE Check
  BY <1>9 DEF Check, StopAll, WebGone, handlers, server, reverting
<1>10. CASE BeginRevert
  BY <1>10 DEF BeginRevert, Pended, RevertPC, handlers, server, Link
<1>11. CASE Relink
  <2>1. web = None /\ (\A t \in Thread : pc[t] = "idle") /\ pending # None
    BY <1>11 DEF Relink, Pended, RevertPC
  <2> QED
    BY <1>11, <2>1 DEF Relink, handlers, server, reverting
<1>12. CASE Crash
  BY <1>12 DEF Crash, WebGone, NoSecondCut, handlers, server, reverting
<1> QED
  BY <1>1, <1>2, <1>3, <1>4, <1>5, <1>6, <1>7, <1>8, <1>9, <1>10, <1>11, <1>12
     DEF Next, Client, Supervisor

\* What the links name is on the disk; the rollback target may give way to an
\* upload of its name.
DiskInv ==
  "rename" \notin cut =>
    /\ current \in Rel => current \in stored
    /\ previous \in Rel =>
         previous \in stored \/ \E t \in Thread : pc[t] = "rename" /\ previous = rel[t]
    /\ sup \in RevertPC \ {"revert"} /\ bad \in Rel => bad \in stored
    /\ \A t \in Thread :
         /\ pc[t] \in {"previous", "current"} => rel[t] \in stored
         /\ pc[t] \in {"back", "swap"} => cur[t] \in stored

LEMMA DiskStep ==
  ASSUME ~SameAgain, Base, Pended, LinkInv, DiskInv, [Next]_vars
  PROVE  DiskInv'
<1> SUFFICES ASSUME "rename" \notin cut' PROVE DiskInv'
  BY DEF DiskInv
<1> USE GuiReleaseConstants DEF links, Go, At, dirs, history
<1> USE DEF Base, Typed, ServerType, NameType, Served, Alone, AtRest, Named
<1>1. ASSUME NEW t \in Thread, Confirm(t) PROVE DiskInv'
  BY <1>1 DEF Confirm, server, supervisor, reverting, DiskInv
<1>2. ASSUME NEW t \in Thread, Rollback(t) PROVE DiskInv'
  BY <1>2 DEF Rollback, Change, server, supervisor, reverting, DiskInv, LinkInv
<1>3. ASSUME NEW t \in Thread, NEW r \in Rel, Install(t, r) PROVE DiskInv'
  BY <1>3 DEF Install, Change, server, supervisor, reverting, DiskInv
<1>4. ASSUME NEW t \in Thread, Handler(t) PROVE DiskInv'
  <2> USE DEF server, supervisor, reverting
  <2>1. current \in Rel /\ sup \notin RevertPC /\ "rename" \notin cut
    BY <1>4 DEF Handler, Unpack, LinkPrevious, LinkCurrent, MarkPending, Prune, Reply,
                SwapLinks, RemovePending, Fails, Leave, LinkInv
  <2>2. CASE MarkPending(t) \/ Reply(t) \/ RemovePending(t)
    BY <2>1, <2>2 DEF MarkPending, Reply, RemovePending, DiskInv
  <2>3. CASE Unpack(t)
    BY <2>1, <2>3 DEF Unpack, DiskInv, LinkInv
  <2>4. CASE LinkPrevious(t)
    BY <2>1, <2>4 DEF LinkPrevious, DiskInv
  <2>5. CASE LinkCurrent(t)
    BY <2>1, <2>5 DEF LinkCurrent, DiskInv
  <2>6. CASE SwapLinks(t)
    BY <2>1, <2>6 DEF SwapLinks, DiskInv, LinkInv
  <2>7. CASE Prune(t)
    BY <2>1, <2>7 DEF Prune, Kept, DiskInv, LinkInv, Linked
  <2>8. CASE Fails(t)
    BY <2>1, <2>8 DEF Fails, Leave, DiskInv
  <2> QED
    BY <1>4, <2>2, <2>3, <2>4, <2>5, <2>6, <2>7, <2>8 DEF Handler
<1>5. CASE WebExit
  BY <1>5 DEF WebExit, WebGone, Leave, supervisor, reverting, DiskInv
<1>6. CASE HelperExit \/ Tick \/ UNCHANGED vars
  BY <1>6 DEF HelperExit, Tick, handlers, server, supervisor, reverting, vars, DiskInv
<1>7. CASE Start
  BY <1>7 DEF Start, StopAll, WebGone, Leave, reverting, DiskInv, RevertPC
<1>8. CASE Round \/ Watch \/ WebLeft \/ Gone
  BY <1>8 DEF Round, Watch, WebLeft, Gone, handlers, server, reverting, DiskInv, RevertPC
<1>9. CASE Check
  BY <1>9 DEF Check, StopAll, WebGone, Leave, handlers, server, reverting, DiskInv, RevertPC
<1>10. CASE BeginRevert
  BY <1>10 DEF BeginRevert, handlers, server, DiskInv, RevertPC
<1>11. CASE Relink
  <2>1. \A t \in Thread : pc[t] = "idle"
    BY <1>11 DEF Relink, RevertPC
  <2> QED
    BY <1>11, <2>1 DEF Relink, handlers, server, reverting, DiskInv, LinkInv, RevertPC
<1>12. CASE Crash
  BY <1>12 DEF Crash, WebGone, Leave, handlers, server, reverting, DiskInv, RevertPC
<1> QED
  BY <1>1, <1>2, <1>3, <1>4, <1>5, <1>6, <1>7, <1>8, <1>9, <1>10, <1>11, <1>12
     DEF Next, Client, Supervisor

LEMMA InitLinks == Init => Base /\ Pended /\ LinkInv /\ DiskInv
<1> SUFFICES ASSUME Init PROVE Pended /\ LinkInv /\ DiskInv
  BY InitBase
<1> QED
  BY GuiReleaseConstants DEF Init, Pended, LinkInv, DiskInv, RevertPC

LEMMA LinksSuffice == Base /\ Pended /\ LinkInv /\ DiskInv => LinksHold
<1> SUFFICES ASSUME Base, Pended, LinkInv, DiskInv PROVE LinksHold
  OBVIOUS
<1>1. CurrentLinked
  BY DEF LinkInv, CurrentLinked
<1>2. CurrentStored
  BY <1>1 DEF DiskInv, CurrentLinked, CurrentStored, UploadCut
<1>3. PreviousStored
  BY DEF DiskInv, PreviousStored, UploadCut
<1>4. sup = "recurrent" /\ ~UploadCut => prev \in stored
  BY DEF DiskInv, LinkInv, UploadCut, Base, Served, RevertPC
<1> QED
  BY <1>1, <1>2, <1>3, <1>4 DEF LinksHold

\* Where the release that runs is not uploaded again, and no confirmation falls
\* between the supervisor's look at the mark and its verdict, the supervisor
\* finds a release on the disk whichever link it follows, however often it or
\* the board restarts, as long as no second restart falls into the revert that
\* makes up for one cut short.
THEOREM LinksLead ==
  ASSUME ~Late, ~SameAgain
  PROVE  Spec /\ [][NoSecondCut]_vars => []LinksHold
<1> DEFINE IInv == Base /\ Pended /\ LinkInv /\ DiskInv
<1>1. Init => IInv
  BY InitLinks
<1>2. IInv /\ [Next]_vars /\ [NoSecondCut]_vars => IInv'
  <2> SUFFICES ASSUME IInv, [Next]_vars, [NoSecondCut]_vars PROVE IInv'
    OBVIOUS
  <2>1. CASE NoSecondCut
    BY <2>1, BaseStep, PendedStep, LinkStep, DiskStep
  <2>2. CASE UNCHANGED vars
    BY <2>2 DEF vars, Base, Typed, NameType, DirType, ServerType, CountType, TestCount, Named,
       AtRest, Served, Alone, Pended, LinkInv, DiskInv, links, dirs, server, handlers,
       supervisor, test, reverting, history, bounds
  <2> QED
    BY <2>1, <2>2
<1>3. IInv => LinksHold
  BY LinksSuffice
<1> QED
  BY <1>1, <1>2, <1>3, PTL DEF Spec

\* A missing current that no revert is about to link is a restart's doing; so is
\* a revert that puts no release away.
Restarted ==
  /\ current \notin Rel /\ sup # "recurrent" => crashes < MaxCrashes
  /\ sup \in RevertPC \ {"revert"} /\ bad = Blank => crashes < MaxCrashes

LEMMA RestartedStep ==
  ASSUME Base, LinkInv, Restarted, [Next]_vars
  PROVE  Restarted'
<1> USE GuiReleaseConstants DEF Restarted, links, bounds, supervisor, reverting, Go, RevertPC
<1>1. CASE Client
  BY <1>1 DEF Client, Rollback, Confirm, Install, Change
<1>2. ASSUME NEW t \in Thread, Handler(t) PROVE Restarted'
  <2>1. UNCHANGED <<supervisor, bounds>> /\ (current' = current \/ current' = rel[t])
    BY <1>2 DEF Handler, Unpack, LinkPrevious, LinkCurrent, MarkPending, Prune, Reply,
                SwapLinks, RemovePending, Fails
  <2>2. current' # current => current' \in Rel
    BY <1>2, <2>1 DEF Handler, Unpack, LinkPrevious, LinkCurrent, MarkPending, Prune, Reply,
                SwapLinks, RemovePending, Fails, At, Base, Typed, Named, AtRest
  <2> QED
    BY <2>1, <2>2
<1>3. CASE WebExit \/ HelperExit \/ Tick \/ UNCHANGED vars
  BY <1>3 DEF WebExit, HelperExit, Tick, vars
<1>4. CASE Start \/ Round \/ Watch \/ Check \/ WebLeft \/ Gone
  BY <1>4 DEF Start, Round, Watch, Check, WebLeft, Gone
<1>5. CASE BeginRevert
  BY <1>5 DEF BeginRevert, LinkInv
<1>6. CASE Relink
  BY <1>6 DEF Relink, LinkInv
<1>7. CASE Crash
  BY <1>7 DEF Crash, Base, Typed, CountType
<1> QED
  BY <1>1, <1>2, <1>3, <1>4, <1>5, <1>6, <1>7 DEF Next, Supervisor

\* The same without a word on when the restart comes, where there is one at most.
THEOREM LinksLeadOnce ==
  ASSUME ~Late, ~SameAgain, MaxCrashes <= 1
  PROVE  Spec => []LinksHold
<1> DEFINE IInv == Base /\ Pended /\ LinkInv /\ DiskInv /\ Restarted
<1>1. Init => IInv
  BY InitLinks, GuiReleaseConstants DEF Init, Restarted, RevertPC
<1>2. IInv /\ [Next]_vars => IInv'
  <2> SUFFICES ASSUME IInv, [Next]_vars PROVE IInv'
    OBVIOUS
  <2>1. NoSecondCut
    BY GuiReleaseConstants
       DEF NoSecondCut, Crash, Restarted, RevertPC, Base, Typed, CountType
  <2> QED
    BY <2>1, BaseStep, PendedStep, LinkStep, DiskStep, RestartedStep
<1>3. IInv => LinksHold
  BY LinksSuffice
<1> QED
  BY <1>1, <1>2, <1>3, PTL DEF Spec

-----------------------------------------------------------------------------
(* A release that does not work does not stay.                             *)

Uncut == ~RevertCut

\* A release that works, or one that no mark was left for.
Trusted == Working \cup unmarked

\* A confirmation removes the mark of the release it looked at, which runs; one
\* that stalls for longer may find the mark of a newer release.
NoStaleConfirm == \A t \in Thread : RemovePending(t) => pending \in {None, web}

\* What runs or is reverted to is trusted: current when nothing is on test or
\* about to be, previous when something is.
Works ==
  /\ pending = None /\ sup # "recurrent"
     /\ (\A t \in Thread : pc[t] \notin {"pending", "swap", "repending"}) => current \in Trusted
  /\ sup \in {"unprevious", "reprevious", "unpending"} => current \in Trusted
  /\ sup \in {"uncurrent", "recurrent"} => prev = previous /\ prev \in Trusted
  /\ pending # None \/ (sup = "check" /\ testRel # None) \/ sup = "revert" =>
       sup \in RevertPC \ {"revert"} \/ previous \in Trusted

\* The mark is current's; it is empty on its way to a name or a revert, or where
\* it was left so, and then until the next change links its release.
Marked ==
  /\ pending \in Rel /\ sup \notin RevertPC \ {"revert", "uncurrent"} => pending = current
  /\ pending = Blank =>
       \/ web = None /\ sup \in {"start"} \cup RevertPC
       \/ current \in unmarked
       \/ \E t \in Thread : pc[t] \in NoMark

\* A change begins with nothing on test, and what it puts aside is trusted; a
\* confirmation that is under way is of a release that works.
Handled ==
  \A t \in Thread :
    /\ pc[t] \in {"remove", "rename", "previous", "current", "pending",
                  "back", "swap", "repending"} => pending \in {None, Blank}
    /\ pc[t] \in {"name", "rename2"} => pending = Blank
    /\ pc[t] \in {"remove", "rename", "previous", "current"} => rel[t] # current
    /\ pc[t] \in {"current", "pending", "repending"} => previous \in Trusted
    /\ pc[t] \in {"back", "swap"} => cur[t] \in Trusted
    /\ pc[t] = "confirm" => web \in Working

\* The supervisor tests what runs, while that is on test.
Seen ==
  sup \in {"watch", "check"} /\ web # None =>
    \/ web \in Trusted
    \/ testRel = web /\ pending = web /\ \A t \in Thread : AtRest(t)

GoodInv == Uncut => Works /\ Marked /\ Handled /\ Seen

LEMMA InitGood == Init => GoodInv
BY GuiReleaseConstants
   DEF Init, GoodInv, Works, Marked, Handled, Seen, RevertPC, Trusted

\* The histories only grow.
LEMMA Grow == [Next]_vars => cut \subseteq cut' /\ unmarked \subseteq unmarked'
<1> SUFFICES ASSUME [Next]_vars PROVE cut \subseteq cut' /\ unmarked \subseteq unmarked'
  OBVIOUS
<1>1. CASE Client
  BY <1>1 DEF Client, Rollback, Confirm, Install, Change, history
<1>2. ASSUME NEW t \in Thread, Handler(t) PROVE cut \subseteq cut' /\ unmarked \subseteq unmarked'
  BY <1>2 DEF Handler, Unpack, LinkPrevious, LinkCurrent, MarkPending, Prune, Reply,
              SwapLinks, RemovePending, Fails, Leave, history
<1>3. CASE WebExit \/ HelperExit \/ Crash \/ Tick \/ UNCHANGED vars
  BY <1>3 DEF WebExit, WebGone, Leave, HelperExit, Crash, Tick, history, vars
<1>4. CASE Supervisor
  BY <1>4 DEF Supervisor, Start, Round, Watch, Check, WebLeft, Gone, BeginRevert, Relink,
              StopAll, WebGone, Leave, history
<1> QED
  BY <1>1, <1>2, <1>3, <1>4 DEF Next

LEMMA UncutBefore == [Next]_vars /\ Uncut' => Uncut
BY Grow DEF Uncut, RevertCut

\* A request or a step of a handler.
LEMMA GoodHandlerStep ==
  ASSUME ~Again, ~SameAgain, NoStaleConfirm,
         Base, Works, Marked, Handled, Seen,
         NEW t \in Thread,
         Rollback(t) \/ Confirm(t) \/ Handler(t) \/ \E r \in Rel : Install(t, r)
  PROVE  (Works /\ Marked /\ Handled /\ Seen)'
<1> USE GuiReleaseConstants DEF links, supervisor, test, reverting, server, At
<1> USE DEF Base, Typed, NameType, ServerType, CountType, Named, Served, Alone, AtRest, Linked
<1> USE DEF history, Trusted, NoMark
<1>1. /\ web # None /\ sup \notin RevertPC
      /\ sup \notin {"revert", "uncurrent", "recurrent", "unprevious", "reprevious", "unpending"}
  BY DEF Rollback, Confirm, Install, Change, Healthy, Handler, Unpack, LinkPrevious,
         LinkCurrent, MarkPending, Prune, Reply, SwapLinks, RemovePending, Fails, RevertPC
<1>2. CASE Confirm(t)
  BY <1>1, <1>2 DEF Confirm, Healthy, Works, Marked, Handled, Seen
<1>3. CASE Rollback(t)
  BY <1>1, <1>3 DEF Rollback, Change, Works, Marked, Handled, Seen
<1>4. ASSUME NEW r \in Rel, Install(t, r) PROVE (Works /\ Marked /\ Handled /\ Seen)'
  BY <1>1, <1>4 DEF Install, Change, Works, Marked, Handled, Seen
<1>5. CASE Unpack(t) \/ Prune(t)
  BY <1>1, <1>5 DEF Unpack, Prune, Works, Marked, Handled, Seen
<1>6. CASE LinkPrevious(t)
  BY <1>1, <1>6 DEF LinkPrevious, Works, Marked, Handled, Seen
<1>7. CASE LinkCurrent(t)
  BY <1>1, <1>7 DEF LinkCurrent, Works, Marked, Handled, Seen
<1>8. CASE SwapLinks(t)
  BY <1>1, <1>8 DEF SwapLinks, Works, Marked, Handled, Seen
<1>9. CASE MarkPending(t)
  BY <1>1, <1>9 DEF MarkPending, RollbackMark, Works, Marked, Handled, Seen
<1>10. CASE Reply(t)
  BY <1>1, <1>10 DEF Reply, Works, Marked, Handled, Seen
<1>11. CASE RemovePending(t)
  BY <1>1, <1>11 DEF NoStaleConfirm, RemovePending, Works, Marked, Handled, Seen
<1>12. CASE Fails(t)
  BY <1>1, <1>12 DEF Fails, Leave, Works, Marked, Handled, Seen
<1> QED
  BY <1>2, <1>3, <1>4, <1>5, <1>6, <1>7, <1>8, <1>9, <1>10, <1>11, <1>12 DEF Handler

\* The end of a server, and what the supervisor does next.
LEMMA GoodEnd ==
  ASSUME Base, Works, Marked, Handled, NEW ended, WebGone(ended),
         UNCHANGED <<links, reverting>>,
         \/ UNCHANGED sup
         \/ sup' = "start" /\ sup \notin RevertPC \ {"revert", "uncurrent"}
         \/ sup' = "round" /\ sup = "start" /\ pending = None
         \/ sup' = "revert" /\ sup = "start" /\ pending # None
         \/ sup' = "revert" /\ sup = "check" /\ testRel # None,
         testRel' \in {None, testRel}
  PROVE  (Works /\ Marked /\ Handled /\ Seen)'
<1> USE GuiReleaseConstants DEF links, reverting, Base, Typed, NameType, ServerType
<1>1. web' = None /\ \A t \in Thread : pc'[t] = "idle"
  BY DEF WebGone
<1>2. unmarked \subseteq unmarked' /\ Trusted \subseteq Trusted'
  BY DEF WebGone, Leave, Trusted
<1>3. ASSUME NEW t \in Thread, pc[t] \in NoMark PROVE current \in unmarked'
  <2>1. current = rel[t] /\ rel[t] \in Rel
    BY <1>3 DEF NoMark, Alone, Linked, Named, AtRest
  <2> QED
    BY <1>3, <2>1 DEF WebGone, Leave
<1>4. Handled' /\ Seen'
  BY <1>1 DEF Handled, Seen
<1>5. Works'
  BY <1>1, <1>2, <1>3 DEF Works, RevertPC, NoMark, Trusted
<1>6. Marked'
  BY <1>1, <1>2, <1>3 DEF Marked, RevertPC
<1> QED
  BY <1>4, <1>5, <1>6

LEMMA GoodSupervisorStep ==
  ASSUME Base, Works, Marked, Handled, Seen, Supervisor
  PROVE  (Works /\ Marked /\ Handled /\ Seen)'
<1> USE GuiReleaseConstants DEF links, Go, history, Trusted, NoMark
<1>1. CASE Start
  <2>1. /\ WebGone(cut) /\ UNCHANGED <<links, reverting, testRel>>
        /\ \/ sup' = "round" /\ sup = "start" /\ pending = None
           \/ sup' = "revert" /\ sup = "start" /\ pending # None
    BY <1>1 DEF Start, StopAll, test
  <2> QED
    BY <2>1, GoodEnd
<1>2. CASE Check
  <2>1. CASE sup' = "revert"
    <3>1. /\ WebGone(cut) /\ UNCHANGED <<links, reverting>> /\ testRel' = None
          /\ sup = "check" /\ testRel # None
      BY <1>2, <2>1 DEF Check, StopAll
    <3> QED
      BY <2>1, <3>1, GoodEnd
  <2>2. CASE sup' = "watch"
    BY <1>2, <2>2 DEF Check, server, handlers, reverting, AtRest, Works, Marked, Handled, Seen,
                      RevertPC
  <2> QED
    BY <1>2, <2>1, <2>2 DEF Check
<1>3. CASE Watch
  <2>1. /\ sup = "watch" /\ sup' = "check" /\ web # None
        /\ UNCHANGED <<current, previous, pending, pc, rel, cur, web, prev, unmarked>>
        /\ testRel' = OnTest
    BY <1>3 DEF Watch, handlers, reverting
  <2>2. Works' /\ Marked' /\ Handled'
    BY <2>1 DEF OnTest, Works, Marked, Handled, RevertPC
  <2>3. Seen'
    BY <2>1 DEF OnTest, Seen, AtRest
  <2> QED
    BY <2>2, <2>3
<1> USE DEF Base, Served
<1>4. CASE Round \/ WebLeft \/ Gone
  <2>1. web = None /\ \A t \in Thread : pc'[t] = "idle"
    BY <1>4 DEF Round, WebLeft, Gone, handlers
  <2>2. Handled'
    BY <2>1 DEF Handled
  <2>3. CASE Round
    <3>1. Works' /\ Marked'
      BY <2>1, <2>3 DEF Round, handlers, reverting, Works, Marked, RevertPC
    <3>2. Seen'
      BY <2>1, <2>3 DEF Round, handlers, Works, Marked, Seen, AtRest, RevertPC,
         Typed, NameType, DirType, Link
    <3> QED
      BY <2>2, <3>1, <3>2
  <2>4. CASE WebLeft \/ Gone
    BY <2>1, <2>2, <2>4 DEF WebLeft, Gone, server, handlers, test, reverting, Works, Marked,
       Seen, RevertPC, Typed, CountType
  <2> QED
    BY <1>4, <2>3, <2>4
<1>5. CASE BeginRevert \/ Relink
  <2>1. web' = None /\ \A t \in Thread : pc[t] = "idle" /\ pc'[t] = "idle"
    BY <1>5 DEF BeginRevert, Relink, server, handlers, RevertPC
  <2>2. Handled' /\ Seen'
    BY <2>1 DEF Handled, Seen
  <2>3. CASE BeginRevert
    BY <2>1, <2>2, <2>3 DEF BeginRevert, test, Works, Marked, RevertPC, Typed, ServerType
  <2>4. CASE Relink
    BY <2>1, <2>2, <2>4 DEF Relink, test, reverting, Works, Marked, RevertPC
  <2> QED
    BY <1>5, <2>3, <2>4
<1> QED
  BY <1>1, <1>2, <1>3, <1>4, <1>5 DEF Supervisor

LEMMA GoodStep ==
  ASSUME ~Again, ~SameAgain, Uncut' => NoStaleConfirm,
         Base, GoodInv, [Next]_vars
  PROVE  GoodInv'
<1> SUFFICES ASSUME Uncut' PROVE (Works /\ Marked /\ Handled /\ Seen)'
  BY DEF GoodInv
<1>1. Works /\ Marked /\ Handled /\ Seen
  BY UncutBefore DEF GoodInv
<1>2. CASE Client \/ \E t \in Thread : Handler(t)
  BY <1>1, <1>2, GoodHandlerStep DEF Client
<1>3. CASE WebExit
  BY <1>1, <1>3, GoodEnd DEF WebExit, supervisor, test
<1>4. CASE Crash
  <2>1. sup \notin RevertPC \ {"revert", "uncurrent"}
    BY <1>4 DEF Crash, WebGone, Leave, Uncut, RevertCut
  <2>2. ASSUME NEW ended, WebGone(ended) PROVE (Works /\ Marked /\ Handled /\ Seen)'
    <3>1. /\ UNCHANGED <<links, reverting>> /\ testRel' = None /\ sup' = "start"
      BY <1>4 DEF Crash
    <3> QED
      BY <1>1, <2>1, <2>2, <3>1, GoodEnd
  <2>3. CASE UNCHANGED <<server, handlers, unmarked>>
    BY <1>1, <1>4, <2>1, <2>3, GuiReleaseConstants
       DEF Crash, links, server, handlers, reverting, Works, Marked, Handled, Seen, RevertPC, Trusted
  <2> QED
    BY <1>4, <2>2, <2>3 DEF Crash
<1>5. CASE HelperExit \/ Tick \/ UNCHANGED vars
  BY <1>1, <1>5 DEF HelperExit, Tick, vars, links, server, handlers, supervisor, test, reverting,
     history, AtRest, Trusted, Works, Marked, Handled, Seen
<1> QED
  BY <1>1, <1>2, <1>3, <1>4, <1>5, GoodSupervisorStep DEF Next

LEMMA GoodSuffices == Base /\ GoodInv => NoBadSticks
BY DEF GoodInv, Uncut, Seen, NoBadSticks, Settled, Trusted

\* Where no change is asked for during a test, the release that runs is not
\* uploaded again, and no confirmation stalls until the next change, a release
\* that does not work runs only while it is on test, unless no mark was left for
\* it - for any handler threads, whenever a step of a change fails, a process
\* exits or the board restarts, but for a restart where RevertCut names it.
THEOREM BadGoesOut ==
  ASSUME ~Again, ~SameAgain
  PROVE  Spec /\ [][NoStaleConfirm]_vars => []NoBadSticks
<1> DEFINE IInv == Base /\ GoodInv
<1>1. Init => IInv
  BY InitBase, InitGood
<1>2. IInv /\ [Next]_vars /\ [NoStaleConfirm]_vars => IInv'
  <2> SUFFICES ASSUME IInv, [Next]_vars, [NoStaleConfirm]_vars PROVE IInv'
    OBVIOUS
  <2>1. CASE NoStaleConfirm
    BY <2>1, BaseStep, GoodStep
  <2>2. CASE UNCHANGED vars
    <3>1. NoStaleConfirm
      BY <2>2 DEF NoStaleConfirm, RemovePending, At, vars, links, handlers, Base, Typed, ServerType
    <3> QED
      BY <3>1, BaseStep, GoodStep
  <2> QED
    BY <2>1, <2>2
<1>3. IInv => NoBadSticks
  BY GoodSuffices
<1> QED
  BY <1>1, <1>2, <1>3, PTL DEF Spec

\* A confirmation of the only thread is of the current release, on test or not.
Confirming ==
  Uncut => \A t \in Thread : pc[t] = "confirm" => web = current /\ pending \in {None, web}

LEMMA ConfirmingStep ==
  ASSUME \A t, u \in Thread : t = u, Base, GoodInv, Confirming, [Next]_vars
  PROVE  Confirming'
<1> SUFFICES ASSUME NEW t \in Thread, pc'[t] = "confirm", Uncut
               PROVE  web' = current' /\ pending' \in {None, web'}
  BY UncutBefore DEF Confirming
<1> USE DEF Base, Typed, ServerType, NameType, links, server, At
<1>1. CASE pc[t] = "confirm"
  <2>1. web # None /\ sup \notin RevertPC \cup {"round", "gone"} /\ web = current
        /\ pending \in {None, web}
    BY <1>1 DEF Served, Confirming
  <2>2. ~(\E u \in Thread : Rollback(u) \/ Confirm(u) \/ Handler(u) \/ \E r \in Rel : Install(u, r))
    BY <1>1 DEF Rollback, Confirm, Install, Change, Handler, Unpack, LinkPrevious, LinkCurrent,
                MarkPending, Prune, Reply, SwapLinks, RemovePending, Fails
  <2>3. UNCHANGED <<web, current, pending>>
    BY <1>1, <2>1, <2>2 DEF Next, Client, WebExit, WebGone, HelperExit, Supervisor, Start, Round,
       Watch, Check, WebLeft, Gone, BeginRevert, Relink, StopAll, Tick, Crash, Go, RevertPC, vars
  <2> QED
    BY <2>1, <2>3
<1>2. CASE pc[t] # "confirm"
  <2>1. Confirm(t)
    BY <1>2 DEF Next, Client, Rollback, Confirm, Install, Change, Handler, Unpack, LinkPrevious,
       LinkCurrent, MarkPending, Prune, Reply, SwapLinks, RemovePending, Fails, WebExit, WebGone,
       HelperExit, Supervisor, Start, Round, Watch, Check, WebLeft, Gone, BeginRevert, Relink,
       StopAll, Tick, Crash, handlers, vars
  <2>2. web # None /\ sup \notin RevertPC /\ pending = web /\ UNCHANGED <<web, current, pending>>
    BY <2>1, GuiReleaseConstants DEF Confirm, Healthy, Served
  <2>3. pending \in Rel
    BY <2>2
  <2> QED
    BY <2>2, <2>3 DEF GoodInv, Marked
<1> QED
  BY <1>1, <1>2

\* The same without a word on confirmations, where there is one thread.
THEOREM BadGoesOutSingle ==
  ASSUME ~Again, ~SameAgain, \A t, u \in Thread : t = u
  PROVE  Spec => []NoBadSticks
<1> DEFINE IInv == Base /\ GoodInv /\ Confirming
<1>1. Init => IInv
  BY InitBase, InitGood DEF Init, Confirming
<1>2. IInv /\ [Next]_vars => IInv'
  <2> SUFFICES ASSUME IInv, [Next]_vars PROVE IInv'
    OBVIOUS
  <2>1. ASSUME Uncut' PROVE NoStaleConfirm
    <3> SUFFICES ASSUME NEW t \in Thread, RemovePending(t) PROVE pending \in {None, web}
      BY DEF NoStaleConfirm
    <3>1. pc[t] = "confirm" /\ sup \notin RevertPC
      BY DEF RemovePending, At, Base, Served
    <3> QED
      BY <2>1, <3>1, UncutBefore DEF Confirming
  <2> QED
    BY <2>1, BaseStep, GoodStep, ConfirmingStep
<1>3. IInv => NoBadSticks
  BY GoodSuffices
<1> QED
  BY <1>1, <1>2, <1>3, PTL DEF Spec
=============================================================================
