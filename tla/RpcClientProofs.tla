-------------------------- MODULE RpcClientProofs --------------------------
(***************************************************************************)
(* Proofs about RpcClient, for any threads, connections, names and         *)
(* resends: the types, that a reply is the one to its request, and that a  *)
(* client that does not resend after a timeout has no request worked on    *)
(* twice at the same time.                                                 *)
(*                                                                         *)
(* From `Sent' on, about ControlLink, which extends RpcClient by the two   *)
(* ends of such a connection: its invariant is that of RpcClient, of which *)
(* a step of ControlLink is a step, and what the answers on their way say. *)
(***************************************************************************)
EXTENDS ControlLink, SequenceTheorems, FiniteSetTheorems, TLAPS

\* Only the thread that holds the lock is at the socket.
Ownership ==
  /\ \A t \in Threads : pc[t] \in {"send", "read"} => owner = t
  /\ owner \in Threads => pc[owner] \in {"send", "read"}
  /\ \A t \in Threads : pc[t] = "read" => sock \in Conns

\* What is on the client's connection: the call of the thread that reads, or
\* its reply, or nothing.
Expecting == owner \in Threads /\ pc[owner] = "read"

OnlyItsCall ==
  sock \in Conns =>
    \/ conns[sock].req = <<>> /\ conns[sock].rep = <<>>
    \/ /\ Expecting
       /\ conns[sock].rep = <<>> /\ conns[sock].req = <<asked[owner]>>
    \/ /\ Expecting
       /\ conns[sock].req = <<>> /\ Len(conns[sock].rep) = 1
       /\ conns[sock].rep[1].id = asked[owner].id

\* A thread of the server that is gone works on nothing.
ClosedIsIdle == \A c \in Conns : ~conns[c].open => conns[c].req = <<>>

Typed ==
  /\ TypeOK
  /\ \A t \in Threads : pc[t] # "out" => asked[t] \in RequestLine

\* The names of the calls under way are different.
Named ==
  \A t, u \in Threads : t # u /\ asked[t].id \in Names => asked[t].id # asked[u].id

Safe ==
  /\ Typed /\ Ownership /\ OnlyItsCall /\ ClosedIsIdle /\ Named
  /\ RepliesMatch

\* A call whose request may still be sent is not at work.
NotSentYet ==
  \A t \in Threads, c \in Conns :
    /\ pc[t] \in {"lock", "send"} => asked[t].id \notin AtWork(c)
    /\ pc[t] = "read" /\ c # sock => asked[t].id \notin AtWork(c)

Once == "timeout" \notin Resends => NotSentYet /\ NeverTwiceAtOnce

-----------------------------------------------------------------------------
LEMMA AnsweredType ==
  ASSUME TypeOK, NEW c \in Conns, NEW a \in Answers, conns[c].req # <<>>
  PROVE  /\ Answered(c, a) \in Connection
         /\ Answered(c, a).req = IF c = sock THEN Tail(conns[c].req) ELSE <<>>
         /\ c = sock => /\ Answered(c, a).open = conns[c].open
                        /\ Answered(c, a).rep = Append(conns[c].rep, [id |-> Head(conns[c].req).id, answer |-> a])
<1> DEFINE line == [id |-> Head(conns[c].req).id, answer |-> a]
<1>1. conns[c] \in Connection
  BY DEF TypeOK
<1>2. conns[c].req \in Seq(RequestLine) /\ conns[c].rep \in Seq(ReplyLine) /\ conns[c].open \in BOOLEAN
  BY <1>1 DEF Connection
<1>3. Head(conns[c].req) \in RequestLine /\ Tail(conns[c].req) \in Seq(RequestLine)
  BY <1>2
<1>4. line \in ReplyLine
  BY <1>3 DEF RequestLine, ReplyLine
<1>5. Append(conns[c].rep, line) \in Seq(ReplyLine)
  BY <1>2, <1>4
<1>6. Closed \in Connection /\ Closed.req = <<>>
  BY DEF Closed, Connection
<1>7. CASE c = sock
  <2>1. Answered(c, a) = [open |-> conns[c].open, req |-> Tail(conns[c].req), rep |-> Append(conns[c].rep, line)]
    BY <1>7, <1>1 DEF Answered, Connection
  <2>2. Answered(c, a) \in Connection
    BY <2>1, <1>2, <1>3, <1>5 DEF Connection
  <2> HIDE DEF line
  <2> QED BY <2>1, <2>2, <1>7 DEF line
<1>8. CASE c # sock
  BY <1>6, <1>8 DEF Answered
<1> QED BY <1>7, <1>8

-----------------------------------------------------------------------------
(* The steps of Next, in one place *)

\* One step, also of a call that begins while there is no room for it.
Silent ==
  \/ \E t \in Threads, req \in Requests : Call(t, req)
  \/ \E t \in Threads : Acquire(t) \/ Connect(t) \/ Send(t) \/ Receive(t) \/ Return(t)
  \/ \E t \in Threads : Refused(t) \/ BrokenPipe(t) \/ EndOfFile(t) \/ Timeout(t)
  \/ \E c \in Conns : Raise(c)
  \/ ClientDies \/ ServerDies \/ ServerStarts
  \/ UNCHANGED rpcVars

Step == Silent \/ \E c \in Conns, a \in Answers : Reply(c, a)

LEMMA Steps == [Next]_rpcVars => Step
BY DEF Next, Thread, Exchange, Server, Step, Silent

-----------------------------------------------------------------------------
(* Types *)

LEMMA ConnectionType ==
  /\ Closed \in Connection
  /\ \A c \in Connection, q \in Seq(RequestLine) : [c EXCEPT !.req = q] \in Connection
  /\ \A c \in Connection, r \in Seq(ReplyLine) : [c EXCEPT !.rep = r] \in Connection
<1>1. <<>> \in Seq(RequestLine) /\ <<>> \in Seq(ReplyLine)
  OBVIOUS
<1>2. Closed \in Connection
  BY <1>1 DEF Closed, Connection
<1>3. ASSUME NEW c \in Connection, NEW q \in Seq(RequestLine)
      PROVE  [c EXCEPT !.req = q] \in Connection
  BY DEF Connection
<1>4. ASSUME NEW c \in Connection, NEW r \in Seq(ReplyLine)
      PROVE  [c EXCEPT !.rep = r] \in Connection
  BY DEF Connection
<1> QED BY <1>2, <1>3, <1>4

LEMMA HungType ==
  ASSUME TypeOK, sock # NoConn
  PROVE  /\ sock \in Conns
         /\ Hung \in [Conns -> Connection]
         /\ \A c \in Conns : Hung[c].req = conns[c].req /\ Hung[c].open = conns[c].open
<1>1. sock \in Conns /\ conns \in [Conns -> Connection]
  BY DEF TypeOK
<1>2. conns[sock] \in Connection /\ <<>> \in Seq(ReplyLine)
  BY <1>1
<1>3. [conns[sock] EXCEPT !.rep = <<>>] \in Connection
  BY <1>2 DEF Connection
<1>4. Hung \in [Conns -> Connection]
  BY <1>1, <1>3 DEF Hung
<1>5. ASSUME NEW c \in Conns PROVE Hung[c].req = conns[c].req /\ Hung[c].open = conns[c].open
  <2>1. conns[c] \in Connection
    BY <1>1
  <2> QED BY <1>1, <2>1 DEF Hung, Connection
<1> QED BY <1>1, <1>4, <1>5

LEMMA FailedType ==
  ASSUME Typed, NEW t \in Threads, NEW why, pc[t] # "out", Failed(t, why), UNCHANGED <<asked, up, faults>>
  PROVE  Typed'
<1>1. conns' \in [Conns -> Connection]
  <2>1. CASE sock = NoConn
    BY <2>1 DEF Failed, Typed, TypeOK
  <2>2. CASE sock # NoConn
    BY <2>2, HungType DEF Failed, Typed
  <2> QED BY <2>1, <2>2
<1>2. pc' \in [Threads -> {"out", "lock", "send", "read", "done"}]
  BY DEF Failed, Finish, Goto, Typed, TypeOK
<1>3. got' \in [Threads -> ReplyLine \cup {Unavailable}] /\ owner' \in Threads \cup {NoOne}
  BY DEF Failed, Finish, Typed, TypeOK
<1>4. attempt' \in {0, 1}
  BY DEF Failed, GivesUp, Typed, TypeOK
<1>5. sock' \in Conns \cup {NoConn}
  BY DEF Failed
<1>6. \A u \in Threads : pc'[u] # "out" => asked'[u] \in RequestLine
  BY DEF Failed, Finish, Goto, Typed, TypeOK
<1> QED BY <1>1, <1>2, <1>3, <1>4, <1>5, <1>6 DEF Typed, TypeOK

LEMMA TypeInit == Init => Typed
<1> SUFFICES ASSUME Init PROVE Typed
  OBVIOUS
<1>1. Closed \in Connection
  BY DEF Closed, Connection
<1>2. 0 \in 0..MaxFaults
  BY RpcConstants
<1> QED BY <1>1, <1>2 DEF Init, Typed, TypeOK

LEMMA TypeStep == Typed /\ Ownership /\ Step => Typed'
<1> SUFFICES ASSUME Typed, Ownership, Step PROVE Typed'
  OBVIOUS
<1> USE RpcConstants
<1>1. ASSUME NEW t \in Threads, NEW req \in Requests, Call(t, req) PROVE Typed'
  <2>1. [id |-> CHOOSE name \in Free : TRUE, req |-> req] \in RequestLine
    BY <1>1 DEF Call, Free, RequestLine
  <2> QED BY <1>1, <2>1 DEF Call, Goto, Typed, TypeOK
<1>2. ASSUME NEW t \in Threads, Acquire(t) PROVE Typed'
  BY <1>2 DEF Acquire, Goto, Typed, TypeOK
<1>3. ASSUME NEW t \in Threads, Connect(t) PROVE Typed'
  <2>1. sock' \in Conns
    BY <1>3 DEF Connect
  <2>2. asked[t] \in RequestLine
    BY <1>3 DEF Connect, Typed
  <2>3. [open |-> TRUE, req |-> <<asked[t]>>, rep |-> <<>>] \in Connection
    BY <2>2 DEF Connection
  <2> QED BY <1>3, <2>1, <2>3 DEF Connect, Goto, Typed, TypeOK
<1>4. ASSUME NEW t \in Threads, Send(t) PROVE Typed'
  <2>1. sock \in Conns /\ conns[sock] \in Connection /\ asked[t] \in RequestLine
    BY <1>4 DEF Send, Typed, TypeOK
  <2>2. Append(conns[sock].req, asked[t]) \in Seq(RequestLine)
    BY <2>1 DEF Connection
  <2>3. [conns[sock] EXCEPT !.req = Append(@, asked[t])] \in Connection
    BY <2>1, <2>2, ConnectionType
  <2> QED BY <1>4, <2>1, <2>3 DEF Send, Goto, Typed, TypeOK
<1>5. ASSUME NEW t \in Threads, Receive(t) PROVE Typed'
  <2>1. sock \in Conns /\ conns[sock] \in Connection
    BY <1>5 DEF Receive, Ownership, Typed, TypeOK
  <2>2. conns[sock].rep # <<>> /\ conns[sock].rep \in Seq(ReplyLine)
    BY <1>5, <2>1 DEF Receive, Connection
  <2>3. Head(conns[sock].rep) \in ReplyLine /\ Tail(conns[sock].rep) \in Seq(ReplyLine)
    BY <2>2
  <2>4. [conns[sock] EXCEPT !.rep = Tail(@)] \in Connection
    BY <2>1, <2>3, ConnectionType
  <2> QED BY <1>5, <2>1, <2>3, <2>4 DEF Receive, Finish, Goto, Typed, TypeOK
<1>6. ASSUME NEW t \in Threads, Return(t) PROVE Typed'
  BY <1>6 DEF Return, Goto, Typed, TypeOK
<1>7. ASSUME NEW t \in Threads, Refused(t) \/ BrokenPipe(t) \/ EndOfFile(t) \/ Timeout(t) PROVE Typed'
  BY <1>7, FailedType DEF Refused, BrokenPipe, EndOfFile, Timeout
<1>8. ASSUME NEW c \in Conns, NEW a \in Answers, Reply(c, a) PROVE Typed'
  BY <1>8, AnsweredType DEF Reply, client, Typed, TypeOK
<1>9. ASSUME NEW c \in Conns, Raise(c) PROVE Typed'
  BY <1>9, ConnectionType DEF Raise, Fault, client, Typed, TypeOK
<1>10. CASE ClientDies
  <2>1. conns' \in [Conns -> Connection]
    BY <1>10, HungType DEF ClientDies, Typed, TypeOK
  <2> QED BY <1>10, <2>1 DEF ClientDies, Fault, Typed, TypeOK
<1>11. CASE ServerDies
  <2>1. \A c \in Conns : [Closed EXCEPT !.rep = conns[c].rep] \in Connection
    BY ConnectionType DEF Typed, TypeOK, Connection
  <2>2. conns' \in [Conns -> Connection]
    BY <1>11, <2>1 DEF ServerDies
  <2>3. faults' \in 0..MaxFaults
    BY <1>11 DEF ServerDies, Fault, Typed, TypeOK
  <2> QED BY <1>11, <2>2, <2>3 DEF ServerDies, client, Typed, TypeOK
<1>12. CASE ServerStarts
  BY <1>12 DEF ServerStarts, client, Typed, TypeOK
<1>13. CASE UNCHANGED rpcVars
  BY <1>13 DEF rpcVars, client, Typed, TypeOK
<1> QED BY <1>1, <1>2, <1>3, <1>4, <1>5, <1>6, <1>7, <1>8, <1>9, <1>10, <1>11, <1>12, <1>13 DEF Step, Silent

-----------------------------------------------------------------------------
(* The lock, and what is on the client's connection *)

LEMMA FailedOwnership ==
  ASSUME Typed, Ownership, NEW t \in Threads, NEW why, pc[t] \in {"send", "read"}, Failed(t, why)
  PROVE  Ownership'
<1>1. owner = t /\ \A u \in Threads : u # t => pc[u] \notin {"send", "read"}
  BY DEF Ownership
<1>2. \/ pc' = [pc EXCEPT ![t] = "done"] /\ owner' = NoOne
      \/ pc' = [pc EXCEPT ![t] = "send"] /\ owner' = owner
  BY DEF Failed, Finish, Goto
<1> QED BY <1>1, <1>2, RpcConstants DEF Ownership, Typed, TypeOK

LEMMA OwnershipStep == Typed /\ Ownership /\ Step => Ownership'
<1> SUFFICES ASSUME Typed, Ownership, Step PROVE Ownership'
  OBVIOUS
<1> USE RpcConstants
<1>1. ASSUME NEW t \in Threads, NEW req \in Requests, Call(t, req) PROVE Ownership'
  BY <1>1 DEF Call, Goto, Ownership, Typed, TypeOK
<1>2. ASSUME NEW t \in Threads, Acquire(t) PROVE Ownership'
  BY <1>2 DEF Acquire, Goto, Ownership, Typed, TypeOK
<1>3. ASSUME NEW t \in Threads, Connect(t) PROVE Ownership'
  BY <1>3 DEF Connect, Goto, Ownership, Typed, TypeOK
<1>4. ASSUME NEW t \in Threads, Send(t) PROVE Ownership'
  BY <1>4 DEF Send, Goto, Ownership, Typed, TypeOK
<1>5. ASSUME NEW t \in Threads, Receive(t) PROVE Ownership'
  BY <1>5 DEF Receive, Finish, Goto, Ownership, Typed, TypeOK
<1>6. ASSUME NEW t \in Threads, Return(t) PROVE Ownership'
  BY <1>6 DEF Return, Goto, Ownership, Typed, TypeOK
<1>7. ASSUME NEW t \in Threads, Refused(t) \/ BrokenPipe(t) \/ EndOfFile(t) \/ Timeout(t) PROVE Ownership'
  BY <1>7, FailedOwnership DEF Refused, BrokenPipe, EndOfFile, Timeout
<1>8. ASSUME UNCHANGED client PROVE Ownership'
  BY <1>8 DEF client, Ownership
<1>9. CASE ClientDies
  BY <1>9 DEF ClientDies, Ownership
<1> QED BY <1>1, <1>2, <1>3, <1>4, <1>5, <1>6, <1>7, <1>8, <1>9
         DEF Step, Silent, Reply, Raise, ServerDies, ServerStarts, rpcVars

\* Everyone but the owner is away from the socket, so a step of the owner is
\* the only one that uses it.
LEMMA ConnsStep ==
  ASSUME Typed, Ownership, OnlyItsCall, ClosedIsIdle, Step
  PROVE  OnlyItsCall' /\ ClosedIsIdle'
<1> USE RpcConstants
<1>0. \A c \in Conns : conns[c] \in Connection /\ conns[c].open \in BOOLEAN
                         /\ conns[c].req \in Seq(RequestLine) /\ conns[c].rep \in Seq(ReplyLine)
  BY DEF Typed, TypeOK, Connection
<1>1. ASSUME NEW t \in Threads, NEW req \in Requests, Call(t, req) PROVE OnlyItsCall' /\ ClosedIsIdle'
  <2>1. owner # t /\ sock' = sock /\ conns' = conns /\ owner' = owner
    BY <1>1 DEF Call, Ownership
  <2>2. owner \in Threads => asked'[owner] = asked[owner] /\ pc'[owner] = pc[owner]
    BY <1>1, <2>1 DEF Call, Goto, Typed, TypeOK
  <2> QED BY <2>1, <2>2 DEF OnlyItsCall, ClosedIsIdle, Expecting
<1>2. ASSUME NEW t \in Threads, Acquire(t) PROVE OnlyItsCall' /\ ClosedIsIdle'
  BY <1>2 DEF Acquire, Goto, OnlyItsCall, ClosedIsIdle, Expecting, Typed, TypeOK
<1>3. ASSUME NEW t \in Threads, Connect(t) PROVE OnlyItsCall' /\ ClosedIsIdle'
  <2>1. sock' \in Conns /\ owner = t /\ owner' = t /\ asked' = asked /\ pc'[t] = "read"
    BY <1>3 DEF Connect, Goto, Ownership, Typed, TypeOK
  <2>2. conns' = [conns EXCEPT ![sock'] = [open |-> TRUE, req |-> <<asked[t]>>, rep |-> <<>>]]
    BY <1>3 DEF Connect
  <2>3. conns'[sock'] = [open |-> TRUE, req |-> <<asked[t]>>, rep |-> <<>>]
    BY <2>1, <2>2 DEF Typed, TypeOK
  <2>4. OnlyItsCall'
    BY <2>1, <2>3 DEF OnlyItsCall, Expecting
  <2>5. ClosedIsIdle'
    BY <2>1, <2>2 DEF ClosedIsIdle, Typed, TypeOK
  <2> QED BY <2>4, <2>5
<1>4. ASSUME NEW t \in Threads, Send(t) PROVE OnlyItsCall' /\ ClosedIsIdle'
  <2>1. sock \in Conns /\ sock' = sock /\ conns[sock].open /\ owner = t /\ owner' = t
          /\ asked' = asked /\ pc[t] = "send" /\ pc'[t] = "read"
    BY <1>4 DEF Send, Goto, Ownership, Typed, TypeOK
  <2>2. conns[sock].req = <<>> /\ conns[sock].rep = <<>>
    BY <2>1 DEF OnlyItsCall, Expecting
  <2>3. Append(conns[sock].req, asked[t]) = <<asked[t]>>
    BY <2>2
  <2>4. conns' = [conns EXCEPT ![sock] = [conns[sock] EXCEPT !.req = <<asked[t]>>]]
    BY <1>4, <2>3 DEF Send
  <2>5. /\ conns'[sock].req = <<asked[t]>> /\ conns'[sock].rep = <<>> /\ conns'[sock].open
        /\ \A c \in Conns \ {sock} : conns'[c] = conns[c]
    BY <2>1, <2>2, <2>4, <1>0 DEF Typed, TypeOK, Connection
  <2> QED BY <2>1, <2>5 DEF OnlyItsCall, Expecting, ClosedIsIdle
<1>5. ASSUME NEW t \in Threads, Receive(t) PROVE OnlyItsCall' /\ ClosedIsIdle'
  <2>1. sock \in Conns /\ sock' = sock /\ owner = t /\ conns[sock].rep # <<>>
    BY <1>5 DEF Receive, Ownership
  <2>2. conns[sock].req = <<>> /\ Len(conns[sock].rep) = 1
    BY <2>1 DEF OnlyItsCall
  <2>3. Tail(conns[sock].rep) = <<>>
    <3>1. conns[sock].rep \in Seq(ReplyLine) /\ conns[sock].rep # <<>>
      BY <1>0, <2>1
    <3>2. Tail(conns[sock].rep) \in Seq(ReplyLine) /\ Len(Tail(conns[sock].rep)) = Len(conns[sock].rep) - 1
      BY <3>1, HeadTailProperties
    <3>3. Len(Tail(conns[sock].rep)) = 0
      BY <2>2, <3>2
    <3> QED BY <3>2, <3>3, EmptySeq
  <2>4. conns' = [conns EXCEPT ![sock] = [conns[sock] EXCEPT !.rep = <<>>]]
    BY <1>5, <2>3 DEF Receive
  <2>5. /\ conns'[sock].req = <<>> /\ conns'[sock].rep = <<>>
        /\ \A c \in Conns \ {sock} : conns'[c] = conns[c]
    BY <2>1, <2>2, <2>4, <1>0 DEF Typed, TypeOK, Connection
  <2> QED BY <2>1, <2>5 DEF OnlyItsCall, ClosedIsIdle
<1>6. ASSUME NEW t \in Threads, Return(t) PROVE OnlyItsCall' /\ ClosedIsIdle'
  <2>1. owner # t /\ sock' = sock /\ conns' = conns /\ owner' = owner
    BY <1>6 DEF Return, Ownership
  <2>2. owner \in Threads => asked'[owner] = asked[owner] /\ pc'[owner] = pc[owner]
    BY <1>6, <2>1 DEF Return, Goto, Typed, TypeOK
  <2> QED BY <2>1, <2>2 DEF OnlyItsCall, ClosedIsIdle, Expecting
<1>7. ASSUME NEW t \in Threads, Refused(t) \/ BrokenPipe(t) \/ EndOfFile(t) \/ Timeout(t)
      PROVE  OnlyItsCall' /\ ClosedIsIdle'
  <2>1. sock' = NoConn /\ conns' = IF sock = NoConn THEN conns ELSE Hung
    BY <1>7 DEF Refused, BrokenPipe, EndOfFile, Timeout, Failed
  <2>2. \A c \in Conns : conns'[c].open = conns[c].open /\ conns'[c].req = conns[c].req
    BY <2>1, HungType DEF Typed
  <2> QED BY <2>1, <2>2 DEF OnlyItsCall, ClosedIsIdle
<1>8. ASSUME NEW c \in Conns, NEW a \in Answers, Reply(c, a) PROVE OnlyItsCall' /\ ClosedIsIdle'
  <2>1. /\ UNCHANGED client /\ conns[c].req # <<>> /\ conns' = [conns EXCEPT ![c] = Answered(c, a)]
        /\ conns'[c] = Answered(c, a) /\ \A d \in Conns \ {c} : conns'[d] = conns[d]
    BY <1>8 DEF Reply, Typed, TypeOK
  <2>2. CASE c # sock
    <3>1. conns'[c].req = <<>>
      BY <2>1, <2>2, AnsweredType DEF Typed
    <3>2. ClosedIsIdle'
      BY <2>1, <3>1 DEF ClosedIsIdle
    <3>3. OnlyItsCall'
      BY <2>1, <2>2 DEF OnlyItsCall, Expecting, client
    <3> QED BY <3>2, <3>3
  <2>3. CASE c = sock
    <3>1. Expecting /\ conns[c].req = <<asked[owner]>> /\ conns[c].rep = <<>>
      BY <2>1, <2>3 DEF OnlyItsCall
    <3>2. /\ conns'[c].req = Tail(conns[c].req)
          /\ conns'[c].rep = Append(conns[c].rep, [id |-> Head(conns[c].req).id, answer |-> a])
      BY <2>1, <2>3, AnsweredType DEF Typed
    <3>3. Tail(conns[c].req) = <<>> /\ Head(conns[c].req) = asked[owner]
      BY <3>1
    <3>4. conns'[c].req = <<>> /\ Len(conns'[c].rep) = 1 /\ conns'[c].rep[1].id = asked[owner].id
      BY <3>1, <3>2, <3>3
    <3>5. OnlyItsCall'
      BY <2>1, <2>3, <3>1, <3>4 DEF OnlyItsCall, Expecting, client
    <3>6. ClosedIsIdle'
      BY <2>1, <3>4 DEF ClosedIsIdle
    <3> QED BY <3>5, <3>6
  <2> QED BY <2>2, <2>3
<1>9. ASSUME NEW c \in Conns, Raise(c) PROVE OnlyItsCall' /\ ClosedIsIdle'
  <2>1. /\ UNCHANGED client
        /\ conns'[c] = Closed /\ \A d \in Conns \ {c} : conns'[d] = conns[d]
    BY <1>9 DEF Raise, Typed, TypeOK
  <2> QED BY <2>1 DEF OnlyItsCall, Expecting, ClosedIsIdle, client, Closed
<1>10. CASE ClientDies
  <2>1. sock' = NoConn /\ conns' = IF sock = NoConn THEN conns ELSE Hung
    BY <1>10 DEF ClientDies
  <2>2. \A c \in Conns : conns'[c].open = conns[c].open /\ conns'[c].req = conns[c].req
    BY <2>1, HungType DEF Typed
  <2> QED BY <2>1, <2>2 DEF OnlyItsCall, ClosedIsIdle
<1>11. CASE ServerDies
  <2>1. UNCHANGED client /\ \A c \in Conns : conns'[c].req = <<>> /\ conns'[c].rep = conns[c].rep
    BY <1>11 DEF ServerDies, Closed
  <2> QED BY <2>1 DEF OnlyItsCall, Expecting, ClosedIsIdle, client
<1>12. ASSUME UNCHANGED <<client, conns>> PROVE OnlyItsCall' /\ ClosedIsIdle'
  BY <1>12 DEF OnlyItsCall, Expecting, ClosedIsIdle, client
<1> QED BY <1>1, <1>2, <1>3, <1>4, <1>5, <1>6, <1>7, <1>8, <1>9, <1>10, <1>11, <1>12
         DEF Step, Silent, ServerStarts, rpcVars

-----------------------------------------------------------------------------
(* Names and replies *)

LEMMA NamedStep == Typed /\ Named /\ Step => Named'
<1> SUFFICES ASSUME Typed, Named, Step PROVE Named'
  OBVIOUS
<1> USE RpcConstants
<1>1. ASSUME NEW t \in Threads, NEW req \in Requests, Call(t, req) PROVE Named'
  <2> DEFINE name == CHOOSE m \in Free : TRUE
  <2>1. name \in Free
    BY <1>1 DEF Call
  <2>2. \A u \in Threads : asked[u].id # name
    BY <2>1 DEF Free, InUse
  <2>3. asked' = [asked EXCEPT ![t] = [id |-> name, req |-> req]]
    BY <1>1 DEF Call
  <2>4. asked'[t].id = name /\ \A u \in Threads \ {t} : asked'[u] = asked[u]
    BY <2>3 DEF Typed, TypeOK
  <2> HIDE DEF name
  <2> QED BY <2>2, <2>4 DEF Named
<1>2. ASSUME NEW t \in Threads, Return(t) PROVE Named'
  <2>1. asked'[t] = Idle /\ \A u \in Threads \ {t} : asked'[u] = asked[u]
    BY <1>2 DEF Return, Typed, TypeOK
  <2>2. asked'[t].id \notin Names
    BY <2>1 DEF Idle
  <2> QED BY <2>1, <2>2 DEF Named
<1>3. CASE ClientDies
  <2>1. \A t \in Threads : asked'[t].id \notin Names
    BY <1>3 DEF ClientDies, Idle
  <2> QED BY <2>1 DEF Named
<1>4. ASSUME asked' = asked PROVE Named'
  BY <1>4 DEF Named
<1> QED BY <1>1, <1>2, <1>3, <1>4
         DEF Step, Silent, Acquire, Connect, Send, Receive, Refused, BrokenPipe, EndOfFile, Timeout,
             Raise, Reply, ServerDies, ServerStarts, rpcVars, client

LEMMA RepliesStep ==
  Typed /\ Ownership /\ OnlyItsCall /\ RepliesMatch /\ Step => RepliesMatch'
<1> SUFFICES ASSUME Typed, Ownership, OnlyItsCall, RepliesMatch, Step
             PROVE  RepliesMatch'
  OBVIOUS
<1>1. ASSUME NEW t \in Threads,
             (\E req \in Requests : Call(t, req)) \/ Acquire(t) \/ Connect(t) \/ Send(t) \/ Return(t)
      PROVE  RepliesMatch'
  <2>1. pc'[t] # "done" /\ \A u \in Threads \ {t} : pc'[u] = pc[u] /\ got'[u] = got[u] /\ asked'[u] = asked[u]
    BY <1>1 DEF Call, Acquire, Connect, Send, Return, Goto, Typed, TypeOK
  <2> QED BY <2>1 DEF RepliesMatch
<1>2. ASSUME NEW t \in Threads, Receive(t) PROVE RepliesMatch'
  <2>1. sock \in Conns /\ owner = t /\ conns[sock].rep # <<>>
    BY <1>2 DEF Receive, Ownership
  <2>2. Len(conns[sock].rep) = 1 /\ conns[sock].rep[1].id = asked[t].id
    BY <2>1 DEF OnlyItsCall
  <2>3. Head(conns[sock].rep) = conns[sock].rep[1]
    BY <2>1, <2>2 DEF Typed, TypeOK, Connection
  <2>4. /\ got'[t] = Head(conns[sock].rep) /\ asked' = asked
        /\ \A u \in Threads \ {t} : pc'[u] = pc[u] /\ got'[u] = got[u]
    BY <1>2 DEF Receive, Finish, Goto, Typed, TypeOK
  <2> QED BY <2>2, <2>3, <2>4 DEF RepliesMatch
<1>3. ASSUME NEW t \in Threads, Refused(t) \/ BrokenPipe(t) \/ EndOfFile(t) \/ Timeout(t)
      PROVE  RepliesMatch'
  <2>1. PICK why : Failed(t, why) /\ asked' = asked
    BY <1>3 DEF Refused, BrokenPipe, EndOfFile, Timeout
  <2>2. /\ pc'[t] = "done" => got'[t] = Unavailable
        /\ \A u \in Threads \ {t} : pc'[u] = pc[u] /\ got'[u] = got[u]
    BY <2>1 DEF Failed, Finish, Goto, Typed, TypeOK
  <2> QED BY <2>1, <2>2 DEF RepliesMatch
<1>4. ASSUME UNCHANGED client PROVE RepliesMatch'
  BY <1>4 DEF client, RepliesMatch
<1>5. CASE ClientDies
  BY <1>5 DEF ClientDies, RepliesMatch
<1> QED BY <1>1, <1>2, <1>3, <1>4, <1>5 DEF Step, Silent, Raise, Reply, ServerDies, ServerStarts, rpcVars

-----------------------------------------------------------------------------
(* Calls at work *)

\* What a step leaves at work of a connection was at work before, or is the
\* call that its thread has just sent.
Fewer(c) == AtWork(c)' \subseteq AtWork(c)

LEMMA AtWorkEmpty ==
  ASSUME NEW c \in Conns, conns[c].req = <<>> PROVE AtWork(c) = {}
BY DEF AtWork

LEMMA SameFewer ==
  ASSUME NEW c \in Conns, conns'[c].req = conns[c].req PROVE Fewer(c)
BY DEF AtWork, Fewer

LEMMA NoneFewer ==
  ASSUME NEW c \in Conns, conns'[c].req = <<>> PROVE Fewer(c)
BY DEF AtWork, Fewer

LEMMA TailFewer ==
  ASSUME Typed, NEW c \in Conns, conns[c].req # <<>>, conns'[c].req = Tail(conns[c].req)
  PROVE  Fewer(c)
<1>1. conns[c].req \in Seq(RequestLine)
  BY DEF Typed, TypeOK, Connection
<1>2. /\ Tail(conns[c].req) \in Seq(RequestLine)
      /\ Len(Tail(conns[c].req)) = Len(conns[c].req) - 1
      /\ \A i \in 1..Len(Tail(conns[c].req)) : Tail(conns[c].req)[i] = conns[c].req[i + 1]
  BY <1>1, HeadTailProperties
<1>3. ASSUME NEW i \in DOMAIN Tail(conns[c].req)
      PROVE  i + 1 \in DOMAIN conns[c].req /\ Tail(conns[c].req)[i] = conns[c].req[i + 1]
  BY <1>1, <1>2
<1> QED BY <1>3 DEF AtWork, Fewer

\* A step that sends nothing, and gives no thread a call to send, keeps them apart.
LEMMA QuietStep ==
  ASSUME NotSentYet, NeverTwiceAtOnce, \A c \in Conns : Fewer(c), "timeout" \notin Resends,
         \A t \in Threads : /\ pc'[t] \in {"lock", "send"} => pc[t] \in {"lock", "send"} /\ asked'[t] = asked[t]
                            /\ pc'[t] = "read" => pc[t] = "read" /\ asked'[t] = asked[t] /\ sock' = sock
  PROVE  NotSentYet' /\ NeverTwiceAtOnce'
<1>1. NeverTwiceAtOnce'
  BY DEF NeverTwiceAtOnce, Fewer
<1>2. NotSentYet'
  BY DEF NotSentYet, Fewer
<1> QED BY <1>1, <1>2

LEMMA SendsOnce ==
  ASSUME Typed, Named, Ownership, NotSentYet, NeverTwiceAtOnce, "timeout" \notin Resends,
         NEW t \in Threads, pc[t] = "send", pc' = [pc EXCEPT ![t] = "read"], asked' = asked,
         NEW d \in Conns, sock' = d, AtWork(d)' = {asked[t].id},
         \A c \in Conns \ {d} : Fewer(c)
  PROVE  NotSentYet' /\ NeverTwiceAtOnce'
<1>1. \A c \in Conns : asked[t].id \notin AtWork(c)
  BY DEF NotSentYet
<1>2. \A c \in Conns \ {d} : asked[t].id \notin AtWork(c)' /\ AtWork(c)' \subseteq AtWork(c)
  BY <1>1 DEF Fewer
<1>3. NeverTwiceAtOnce'
  BY <1>2 DEF NeverTwiceAtOnce
<1>4. asked[t].id \in Names /\ pc'[t] = "read" /\ owner = t
  BY DEF Typed, TypeOK, RequestLine, Ownership
<1>5. ASSUME NEW u \in Threads \ {t}
      PROVE  pc'[u] = pc[u] /\ pc[u] \notin {"send", "read"} /\ asked[u].id # asked[t].id
  BY <1>4 DEF Typed, TypeOK, Ownership, Named
<1>6. ASSUME NEW u \in Threads \ {t}, NEW c \in Conns, pc[u] = "lock" PROVE asked[u].id \notin AtWork(c)'
  <2>1. asked[u].id \notin AtWork(c)
    BY <1>6 DEF NotSentYet
  <2> QED BY <2>1, <1>2, <1>5
<1>7. NotSentYet'
  BY <1>2, <1>4, <1>5, <1>6 DEF NotSentYet
<1> QED BY <1>3, <1>7

LEMMA OnceStep ==
  ASSUME Safe, NotSentYet, NeverTwiceAtOnce, "timeout" \notin Resends, [Next]_rpcVars
  PROVE  NotSentYet' /\ NeverTwiceAtOnce'
<1> USE RpcConstants
<1>0. Typed /\ Ownership /\ OnlyItsCall /\ ClosedIsIdle /\ Named
  BY DEF Safe
<1>1. ASSUME NEW t \in Threads, NEW req \in Requests, Call(t, req) PROVE NotSentYet' /\ NeverTwiceAtOnce'
  <2>1. conns' = conns /\ sock' = sock
    BY <1>1 DEF Call
  <2>2. /\ asked'[t].id \in Free /\ pc'[t] = "lock"
        /\ \A u \in Threads \ {t} : pc'[u] = pc[u] /\ asked'[u] = asked[u]
    BY <1>0, <1>1 DEF Call, Goto, Typed, TypeOK
  <2>3. \A c \in Conns : asked'[t].id \notin AtWork(c)
    BY <2>2 DEF Free, InUse
  <2>4. \A c \in Conns : AtWork(c)' = AtWork(c)
    BY <2>1 DEF AtWork
  <2> QED BY <2>1, <2>2, <2>3, <2>4 DEF NotSentYet, NeverTwiceAtOnce
<1>2. ASSUME NEW t \in Threads, Acquire(t) PROVE NotSentYet' /\ NeverTwiceAtOnce'
  <2>1. \A c \in Conns : Fewer(c)
    BY <1>2, SameFewer DEF Acquire
  <2> QED BY <1>0, <1>2, <2>1, QuietStep DEF Acquire, Goto, Typed, TypeOK
<1>3. ASSUME NEW t \in Threads, Connect(t) PROVE NotSentYet' /\ NeverTwiceAtOnce'
  <2>1. /\ sock' \in Conns /\ conns'[sock'].req = <<asked[t]>>
        /\ \A c \in Conns \ {sock'} : conns'[c] = conns[c]
    BY <1>0, <1>3 DEF Connect, Typed, TypeOK
  <2>2. PICK d \in Conns : d = sock'
    BY <2>1
  <2>3. AtWork(d)' = {asked[t].id}
    BY <2>1, <2>2 DEF AtWork
  <2>4. \A c \in Conns \ {d} : Fewer(c)
    BY <2>1, <2>2, SameFewer
  <2> QED BY <1>0, <1>3, <2>2, <2>3, <2>4, SendsOnce DEF Connect, Goto
<1>4. ASSUME NEW t \in Threads, Send(t) PROVE NotSentYet' /\ NeverTwiceAtOnce'
  <2>1. sock \in Conns /\ sock' = sock /\ owner = t /\ pc[t] = "send" /\ conns[sock] \in Connection
    BY <1>0, <1>4 DEF Send, Ownership, Typed, TypeOK
  <2>2. conns[sock].req = <<>>
    BY <1>0, <2>1 DEF OnlyItsCall, Expecting
  <2>3. conns' = [conns EXCEPT ![sock] = [conns[sock] EXCEPT !.req = <<asked[t]>>]]
    BY <1>4, <2>2 DEF Send
  <2>4. conns'[sock].req = <<asked[t]>> /\ \A c \in Conns \ {sock} : conns'[c] = conns[c]
    BY <1>0, <2>1, <2>3 DEF Typed, TypeOK, Connection
  <2>5. AtWork(sock)' = {asked[t].id}
    BY <2>1, <2>4 DEF AtWork
  <2>6. \A c \in Conns \ {sock} : Fewer(c)
    BY <2>1, <2>4, SameFewer
  <2> QED BY <1>0, <1>4, <2>1, <2>5, <2>6, SendsOnce DEF Send, Goto
<1>5. ASSUME NEW t \in Threads, Receive(t) PROVE NotSentYet' /\ NeverTwiceAtOnce'
  <2>1. sock \in Conns /\ conns[sock] \in Connection
    BY <1>0, <1>5 DEF Receive, Ownership, Typed, TypeOK
  <2>2. \A c \in Conns : conns'[c].req = conns[c].req
    BY <1>0, <1>5, <2>1 DEF Receive, Typed, TypeOK, Connection
  <2>3. \A c \in Conns : Fewer(c)
    BY <2>2, SameFewer
  <2> QED BY <1>0, <1>5, <2>3, QuietStep DEF Receive, Finish, Goto, Typed, TypeOK
<1>6. ASSUME NEW t \in Threads, Return(t) PROVE NotSentYet' /\ NeverTwiceAtOnce'
  <2>1. \A c \in Conns : Fewer(c)
    BY <1>6, SameFewer DEF Return
  <2> QED BY <1>0, <1>6, <2>1, QuietStep DEF Return, Goto, Typed, TypeOK
<1>7. ASSUME NEW t \in Threads, NEW why, Failed(t, why), asked' = asked, owner = t,
             why = "dropped" => \A c \in Conns : asked[t].id \notin AtWork(c),
             why \in {"dropped", "timeout"}
      PROVE  NotSentYet' /\ NeverTwiceAtOnce'
  <2>1. \A c \in Conns : conns'[c].req = conns[c].req
    BY <1>0, <1>7, HungType DEF Failed, Typed
  <2>2. \A c \in Conns : AtWork(c)' = AtWork(c)
    BY <2>1 DEF AtWork
  <2>3. /\ pc'[t] = "done" \/ (pc'[t] = "send" /\ why = "dropped")
        /\ \A u \in Threads \ {t} : pc'[u] = pc[u] /\ pc[u] \notin {"send", "read"}
    BY <1>0, <1>7 DEF Failed, Finish, Goto, GivesUp, Ownership, Typed, TypeOK
  <2>4. NeverTwiceAtOnce'
    BY <2>2 DEF NeverTwiceAtOnce
  <2>5. NotSentYet'
    BY <1>7, <2>2, <2>3 DEF NotSentYet
  <2> QED BY <2>4, <2>5
<1>8. ASSUME NEW t \in Threads, Refused(t) \/ BrokenPipe(t) PROVE NotSentYet' /\ NeverTwiceAtOnce'
  <2>1. pc[t] = "send" /\ Failed(t, "dropped") /\ asked' = asked /\ owner = t
    BY <1>0, <1>8 DEF Refused, BrokenPipe, Ownership
  <2>2. \A c \in Conns : asked[t].id \notin AtWork(c)
    BY <2>1 DEF NotSentYet
  <2> QED BY <1>7, <2>1, <2>2
<1>9. ASSUME NEW t \in Threads, EndOfFile(t) PROVE NotSentYet' /\ NeverTwiceAtOnce'
  <2>1. pc[t] = "read" /\ Failed(t, "dropped") /\ asked' = asked /\ owner = t /\ sock \in Conns
          /\ ~conns[sock].open
    BY <1>0, <1>9 DEF EndOfFile, Ownership
  <2>2. AtWork(sock) = {}
    BY <1>0, <2>1, AtWorkEmpty DEF ClosedIsIdle
  <2>3. \A c \in Conns : asked[t].id \notin AtWork(c)
    BY <2>1, <2>2 DEF NotSentYet
  <2> QED BY <1>7, <2>1, <2>3
<1>10. ASSUME NEW t \in Threads, Timeout(t) PROVE NotSentYet' /\ NeverTwiceAtOnce'
  <2>1. Failed(t, "timeout") /\ asked' = asked /\ owner = t
    BY <1>0, <1>10 DEF Timeout, Ownership
  <2> QED BY <1>7, <2>1
<1>11. ASSUME NEW c \in Conns, NEW a \in Answers, Reply(c, a) PROVE NotSentYet' /\ NeverTwiceAtOnce'
  <2>1. /\ UNCHANGED client /\ conns[c].req # <<>>
        /\ conns'[c] = Answered(c, a) /\ \A d \in Conns \ {c} : conns'[d] = conns[d]
    BY <1>0, <1>11 DEF Reply, Typed, TypeOK
  <2>2. conns'[c].req = IF c = sock THEN Tail(conns[c].req) ELSE <<>>
    BY <1>0, <2>1, AnsweredType DEF Typed
  <2>3. Fewer(c)
    BY <1>0, <2>1, <2>2, TailFewer, NoneFewer
  <2>4. \A d \in Conns : Fewer(d)
    BY <2>1, <2>3, SameFewer
  <2> QED BY <2>1, <2>4, QuietStep DEF client
<1>12. ASSUME NEW c \in Conns, Raise(c) PROVE NotSentYet' /\ NeverTwiceAtOnce'
  <2>1. /\ UNCHANGED client
        /\ conns'[c] = Closed /\ \A d \in Conns \ {c} : conns'[d] = conns[d]
    BY <1>0, <1>12 DEF Raise, Typed, TypeOK
  <2>2. \A d \in Conns : Fewer(d)
    BY <2>1, SameFewer, NoneFewer DEF Closed
  <2> QED BY <2>1, <2>2, QuietStep DEF client
<1>13. CASE ClientDies
  <2>1. \A c \in Conns : conns'[c].req = conns[c].req
    BY <1>0, <1>13, HungType DEF ClientDies, Typed
  <2>2. \A d \in Conns : Fewer(d)
    BY <2>1, SameFewer
  <2> QED BY <1>13, <2>2, QuietStep DEF ClientDies
<1>14. CASE ServerDies
  <2>1. UNCHANGED client /\ \A c \in Conns : conns'[c].req = <<>>
    BY <1>14 DEF ServerDies, Closed
  <2>2. \A d \in Conns : Fewer(d)
    BY <2>1, NoneFewer
  <2> QED BY <2>1, <2>2, QuietStep DEF client
<1>15. ASSUME UNCHANGED <<client, conns>> PROVE NotSentYet' /\ NeverTwiceAtOnce'
  <2>1. \A d \in Conns : Fewer(d)
    BY <1>15, SameFewer
  <2> QED BY <1>15, <2>1, QuietStep DEF client
<1> QED BY Steps, <1>1, <1>2, <1>3, <1>4, <1>5, <1>6, <1>8, <1>9, <1>10, <1>11, <1>12, <1>13, <1>14, <1>15
         DEF Step, Silent, ServerStarts, rpcVars

-----------------------------------------------------------------------------
(* Results *)

LEMMA SafeInit == Init => Safe
<1> SUFFICES ASSUME Init PROVE Safe
  OBVIOUS
<1>1. Typed
  BY TypeInit
<1> QED BY <1>1, RpcConstants
        DEF Init, Safe, Ownership, OnlyItsCall, ClosedIsIdle, Named, RepliesMatch, Closed, Idle

LEMMA SafeStep == Safe /\ Step => Safe'
BY TypeStep, OwnershipStep, ConnsStep, NamedStep, RepliesStep DEF Safe

LEMMA AlwaysSafe == Spec => []Safe
BY SafeInit, SafeStep, Steps, PTL DEF Spec

(***************************************************************************)
(* Every state of the threads and the connections is well typed, for any   *)
(* numbers of either (FpgaClient and serve, fpga_access.py:1165-1253).     *)
(***************************************************************************)
THEOREM TypeCorrect == Spec => []TypeOK
<1>1. Safe => TypeOK
  BY DEF Safe, Typed
<1> QED BY <1>1, AlwaysSafe, PTL

(***************************************************************************)
(* A call gets its own reply or none, whatever is resent, late or lost:    *)
(* a connection is given up with every failure, so that what is on it is   *)
(* only ever of the call that uses it (fpga_access.py:1247).               *)
(***************************************************************************)
THEOREM OwnReply == Spec => []RepliesMatch
<1>1. Safe => RepliesMatch
  BY DEF Safe
<1> QED BY <1>1, AlwaysSafe, PTL

(***************************************************************************)
(* A client that resends only what a dropped connection cut off, as        *)
(* FpgaClient does, never has one request worked on twice at the same time *)
(* - not when the server dies, when it is slow, or when a call was given   *)
(* up and the next one is sent over a new connection                       *)
(* (fpga_access.py:1248-1252).                                             *)
(***************************************************************************)
THEOREM OneAtATime == Spec => []NeverTwiceAtOnce
<1>1. Init => Once
  BY DEF Init, Once, NotSentYet, NeverTwiceAtOnce, AtWork, Closed
<1>2. Safe /\ Once /\ [Next]_rpcVars => Once'
  BY OnceStep DEF Once
<1>3. Once => NeverTwiceAtOnce
  BY DEF Once, NeverTwiceAtOnce
<1> QED BY <1>1, <1>2, <1>3, AlwaysSafe, PTL DEF Spec

-----------------------------------------------------------------------------
(* What a step adds to the requests and the answers under way *)

\* The requests the server has not answered, whoever sent them.
Sent == UNION {{conns[c].req[i].req : i \in DOMAIN conns[c].req} : c \in Conns}

\* The answers to calls under way: returned, or at the client's connection.
Heard ==
  {<<t, got[t].answer>> : t \in {u \in Threads : pc[u] = "done" /\ got[u] # Unavailable}}
    \cup {<<owner, conns[c].rep[1].answer>> : c \in {d \in Conns : d = sock /\ conns[d].rep # <<>>}}

LEMMA InSent ==
  /\ \A c \in Conns : \A i \in DOMAIN conns[c].req : conns[c].req[i].req \in Sent
  /\ \A r \in Sent : \E c \in Conns : \E i \in DOMAIN conns[c].req : conns[c].req[i].req = r
BY DEF Sent

LEMMA InHeard ==
  ASSUME Safe, NEW x \in Heard
  PROVE  /\ x[1] \in Threads /\ x = <<x[1], x[2]>>
         /\ \/ pc[x[1]] = "done" /\ got[x[1]] # Unavailable /\ x[2] = got[x[1]].answer
            \/ /\ x[1] = owner /\ pc[owner] = "read" /\ sock \in Conns
               /\ conns[sock].rep # <<>> /\ x[2] = conns[sock].rep[1].answer
<1>1. CASE x \in {<<t, got[t].answer>> : t \in {u \in Threads : pc[u] = "done" /\ got[u] # Unavailable}}
  <2>1. PICK t \in Threads : pc[t] = "done" /\ got[t] # Unavailable /\ x = <<t, got[t].answer>>
    BY <1>1
  <2> QED BY <2>1
<1>2. CASE x \in {<<owner, conns[c].rep[1].answer>> : c \in {d \in Conns : d = sock /\ conns[d].rep # <<>>}}
  <2>1. sock \in Conns /\ conns[sock].rep # <<>> /\ x = <<owner, conns[sock].rep[1].answer>>
    BY <1>2
  <2>2. Expecting
    BY <2>1 DEF Safe, OnlyItsCall
  <2> QED BY <2>1, <2>2 DEF Expecting
<1> QED BY <1>1, <1>2 DEF Heard

LEMMA HeardDone ==
  ASSUME NEW t \in Threads, pc[t] = "done", got[t] # Unavailable PROVE <<t, got[t].answer>> \in Heard
BY DEF Heard

LEMMA HeardSoon ==
  ASSUME sock \in Conns, conns[sock].rep # <<>> PROVE <<owner, conns[sock].rep[1].answer>> \in Heard
BY DEF Heard

\* What is new at the end of a call was on the client's connection.
LEMMA SilentGot ==
  ASSUME Safe, Silent, NEW t \in Threads, pc'[t] = "done", got'[t] # Unavailable
  PROVE  asked'[t] = asked[t] /\ <<t, got'[t].answer>> \in Heard
<1>0. Typed /\ Ownership /\ OnlyItsCall
  BY DEF Safe
<1>1. ASSUME pc'[t] = pc[t], got'[t] = got[t], asked'[t] = asked[t]
      PROVE  asked'[t] = asked[t] /\ <<t, got'[t].answer>> \in Heard
  BY <1>1, HeardDone
<1>2. ASSUME NEW u \in Threads,
             (\E req \in Requests : Call(u, req)) \/ Acquire(u) \/ Connect(u) \/ Send(u) \/ Return(u)
      PROVE  pc'[t] = pc[t] /\ got'[t] = got[t] /\ asked'[t] = asked[t]
  BY <1>0, <1>2 DEF Call, Acquire, Connect, Send, Return, Goto, Typed, TypeOK
<1>3. ASSUME NEW u \in Threads, Receive(u)
      PROVE  asked'[t] = asked[t] /\ <<t, got'[t].answer>> \in Heard
  <2>1. CASE t # u
    BY <1>0, <1>1, <1>3, <2>1 DEF Receive, Finish, Goto, Typed, TypeOK
  <2>2. CASE t = u
    <3>1. sock \in Conns /\ owner = t /\ conns[sock].rep # <<>>
      BY <1>0, <1>3, <2>2 DEF Receive, Ownership
    <3>2. Head(conns[sock].rep) = conns[sock].rep[1]
      BY <1>0, <3>1 DEF Typed, TypeOK, Connection
    <3>3. got'[t] = conns[sock].rep[1] /\ asked' = asked
      BY <1>0, <1>3, <2>2, <3>2 DEF Receive, Finish, Typed, TypeOK
    <3> QED BY <3>1, <3>3, HeardSoon
  <2> QED BY <2>1, <2>2
<1>4. ASSUME NEW u \in Threads, Refused(u) \/ BrokenPipe(u) \/ EndOfFile(u) \/ Timeout(u)
      PROVE  pc'[t] = pc[t] /\ got'[t] = got[t] /\ asked'[t] = asked[t]
  <2>1. PICK why : Failed(u, why) /\ asked' = asked
    BY <1>4 DEF Refused, BrokenPipe, EndOfFile, Timeout
  <2>2. pc'[u] = "done" => got'[u] = Unavailable
    BY <1>0, <2>1 DEF Failed, Finish, Goto, Typed, TypeOK
  <2>3. t # u
    BY <2>2
  <2> QED BY <1>0, <2>1, <2>3 DEF Failed, Finish, Goto, Typed, TypeOK
<1>5. ASSUME UNCHANGED client PROVE pc'[t] = pc[t] /\ got'[t] = got[t] /\ asked'[t] = asked[t]
  BY <1>5 DEF client
<1>6. ~ClientDies
  BY DEF ClientDies
<1> QED BY <1>1, <1>2, <1>3, <1>4, <1>5, <1>6 DEF Silent, Raise, ServerDies, ServerStarts, rpcVars

\* A reply is on the client's connection only while its call goes on.
LEMMA SilentRep ==
  ASSUME Safe, Silent, sock' \in Conns, conns'[sock'].rep # <<>>
  PROVE  /\ owner' = owner /\ owner \in Threads /\ asked'[owner] = asked[owner]
         /\ sock \in Conns /\ conns[sock].rep # <<>> /\ conns'[sock'].rep = conns[sock].rep
<1> DEFINE OwnerStays == /\ owner' = owner /\ owner \in Threads /\ asked'[owner] = asked[owner]
                   /\ sock \in Conns /\ conns[sock].rep # <<>> /\ conns'[sock'].rep = conns[sock].rep
<1>0. /\ Typed /\ Ownership /\ OnlyItsCall /\ conns \in [Conns -> Connection]
      /\ \A c \in Conns : conns[c].rep \in Seq(ReplyLine)
  BY DEF Safe, Typed, TypeOK, Connection
<1>1. sock \in Conns /\ conns[sock].rep # <<>> =>
         Expecting /\ owner \in Threads /\ pc[owner] = "read" /\ Len(conns[sock].rep) = 1
  BY <1>0 DEF OnlyItsCall, Expecting
<1>2. ASSUME NEW u \in Threads, (\E req \in Requests : Call(u, req)) \/ Return(u) PROVE OwnerStays
  <2>1. /\ pc[u] # "read" /\ UNCHANGED <<owner, sock, conns>>
        /\ \A v \in Threads \ {u} : asked'[v] = asked[v]
    BY <1>0, <1>2 DEF Call, Return, Typed, TypeOK
  <2> QED BY <1>1, <2>1
<1>3. ASSUME NEW u \in Threads, Acquire(u) PROVE FALSE
  <2>1. owner \notin Threads /\ UNCHANGED <<sock, conns>>
    BY <1>3, RpcConstants DEF Acquire
  <2> QED BY <1>1, <2>1
<1>4. ASSUME NEW u \in Threads, Connect(u) PROVE FALSE
  <2>1. conns'[sock'] = [open |-> TRUE, req |-> <<asked[u]>>, rep |-> <<>>]
    BY <1>0, <1>4 DEF Connect
  <2> QED BY <2>1
<1>5. ASSUME NEW u \in Threads, Send(u) PROVE FALSE
  <2>1. sock' = sock /\ owner = u /\ conns'[sock].rep = conns[sock].rep /\ pc[u] = "send"
    BY <1>0, <1>5 DEF Send, Ownership, Connection
  <2> QED BY <1>1, <2>1
<1>6. ASSUME NEW u \in Threads, Receive(u) PROVE FALSE
  <2>1. /\ sock' = sock /\ conns[sock].rep # <<>>
        /\ conns' = [conns EXCEPT ![sock] = [conns[sock] EXCEPT !.rep = Tail(conns[sock].rep)]]
    BY <1>6 DEF Receive
  <2>2. conns'[sock].rep = Tail(conns[sock].rep)
    BY <1>0, <2>1 DEF Connection
  <2>3. Len(conns[sock].rep) = 1 /\ conns[sock].rep \in Seq(ReplyLine)
    BY <1>0, <1>1, <2>1
  <2>4. Tail(conns[sock].rep) \in Seq(ReplyLine) /\ Len(Tail(conns[sock].rep)) = 0
    BY <2>3, <2>1, HeadTailProperties
  <2> QED BY <2>1, <2>2, <2>4, EmptySeq
<1>7. ASSUME NEW u \in Threads, Refused(u) \/ BrokenPipe(u) \/ EndOfFile(u) \/ Timeout(u) PROVE FALSE
  BY <1>7, RpcConstants DEF Refused, BrokenPipe, EndOfFile, Timeout, Failed
<1>8. CASE ClientDies
  BY <1>8, RpcConstants DEF ClientDies
<1>9. ASSUME UNCHANGED client, \A c \in Conns : conns'[c].rep \in {conns[c].rep, <<>>} PROVE OwnerStays
  BY <1>1, <1>9 DEF client
<1>10. ASSUME NEW c \in Conns, Raise(c) PROVE OwnerStays
  BY <1>0, <1>9, <1>10 DEF Raise, Closed
<1>11. CASE ServerDies
  BY <1>9, <1>11 DEF ServerDies, Closed
<1>12. CASE ServerStarts \/ UNCHANGED rpcVars
  BY <1>9, <1>12 DEF ServerStarts, rpcVars
<1> QED BY <1>2, <1>3, <1>4, <1>5, <1>6, <1>7, <1>8, <1>10, <1>11, <1>12 DEF Silent

LEMMA SilentHeard ==
  ASSUME Safe, Silent, NEW x \in Heard'
  PROVE  x \in Heard /\ asked'[x[1]] = asked[x[1]]
<1>1. ASSUME NEW t \in Threads, pc'[t] = "done", got'[t] # Unavailable, x = <<t, got'[t].answer>>
      PROVE  x \in Heard /\ asked'[x[1]] = asked[x[1]]
  BY <1>1, SilentGot
<1>2. ASSUME sock' \in Conns, conns'[sock'].rep # <<>>, x = <<owner', conns'[sock'].rep[1].answer>>
      PROVE  x \in Heard /\ asked'[x[1]] = asked[x[1]]
  BY <1>2, SilentRep, HeardSoon
<1> QED BY <1>1, <1>2 DEF Heard, Unavailable

\* What a reply adds is the answer to the owner's request.
LEMMA ReplyHeard ==
  ASSUME Safe, NEW c \in Conns, NEW a \in Answers, Reply(c, a), NEW x \in Heard'
  PROVE  x \in Heard \/ (c = sock /\ x = <<owner, a>> /\ owner \in Threads /\ conns[c].req = <<asked[owner]>>)
<1>0. Typed /\ OnlyItsCall /\ UNCHANGED client /\ conns[c].req # <<>>
      /\ conns'[c] = Answered(c, a) /\ \A d \in Conns \ {c} : conns'[d] = conns[d]
  BY DEF Reply, Safe, Typed, TypeOK
<1>1. ASSUME NEW t \in Threads, pc'[t] = "done", got'[t] # Unavailable, x = <<t, got'[t].answer>>
      PROVE  x \in Heard
  BY <1>0, <1>1, HeardDone DEF client
<1>2. ASSUME sock' \in Conns, conns'[sock'].rep # <<>>, x = <<owner', conns'[sock'].rep[1].answer>>, c # sock
      PROVE  x \in Heard
  BY <1>0, <1>2, HeardSoon DEF client
<1>3. ASSUME sock' \in Conns, conns'[sock'].rep # <<>>, x = <<owner', conns'[sock'].rep[1].answer>>, c = sock
      PROVE  x = <<owner, a>> /\ owner \in Threads /\ conns[c].req = <<asked[owner]>>
  <2>1. Expecting /\ conns[c].req = <<asked[owner]>> /\ conns[c].rep = <<>>
    BY <1>0, <1>3 DEF OnlyItsCall
  <2>2. conns'[c].rep = Append(conns[c].rep, [id |-> Head(conns[c].req).id, answer |-> a])
    BY <1>0, <1>3, AnsweredType DEF Typed
  <2>3. conns'[c].rep[1].answer = a
    BY <2>1, <2>2
  <2> QED BY <1>0, <1>3, <2>1, <2>3 DEF client, Expecting
<1> QED BY <1>1, <1>2, <1>3 DEF Heard, Unavailable

LEMMA FewerSent ==
  ASSUME \A c \in Conns : \A i \in DOMAIN conns'[c].req :
           \E j \in DOMAIN conns[c].req : conns'[c].req[i] = conns[c].req[j]
  PROVE  Sent' \subseteq Sent
<1> SUFFICES ASSUME NEW c \in Conns, NEW i \in DOMAIN conns'[c].req
             PROVE  conns'[c].req[i].req \in Sent
  BY DEF Sent
<1>1. PICK j \in DOMAIN conns[c].req : conns'[c].req[i] = conns[c].req[j]
  OBVIOUS
<1> QED BY <1>1, InSent

\* A reply takes its request away.
LEMMA ReplySent ==
  ASSUME Safe, NEW c \in Conns, NEW a \in Answers, Reply(c, a)
  PROVE  Sent' \subseteq Sent
<1>1. /\ conns[c].req # <<>> /\ conns[c].req \in Seq(RequestLine)
      /\ conns'[c] = Answered(c, a) /\ \A d \in Conns \ {c} : conns'[d] = conns[d]
  BY DEF Reply, Safe, Typed, TypeOK, Connection
<1>2. conns'[c].req = IF c = sock THEN Tail(conns[c].req) ELSE <<>>
  BY <1>1, AnsweredType DEF Safe, Typed
<1>3. /\ Tail(conns[c].req) \in Seq(RequestLine)
      /\ Len(Tail(conns[c].req)) = Len(conns[c].req) - 1
      /\ \A i \in 1..Len(Tail(conns[c].req)) : Tail(conns[c].req)[i] = conns[c].req[i + 1]
  BY <1>1, HeadTailProperties
<1>4. ASSUME NEW i \in DOMAIN Tail(conns[c].req)
      PROVE  i + 1 \in DOMAIN conns[c].req /\ Tail(conns[c].req)[i] = conns[c].req[i + 1]
  BY <1>1, <1>3
<1>5. \A i \in DOMAIN conns'[c].req : \E j \in DOMAIN conns[c].req : conns'[c].req[i] = conns[c].req[j]
  BY <1>2, <1>4
<1> QED BY <1>1, <1>5, FewerSent

\* A request that is new to the server is that of the thread that sends.
LEMMA SentStep ==
  ASSUME Safe, Step
  PROVE  \/ Sent' \subseteq Sent
         \/ \E t \in Threads : /\ pc[t] = "send" /\ asked' = asked
                               /\ Sent' \subseteq Sent \cup {asked[t].req}
<1>0. /\ Typed /\ Ownership /\ OnlyItsCall /\ conns \in [Conns -> Connection]
      /\ \A c \in Conns : conns[c].req \in Seq(RequestLine)
  BY DEF Safe, Typed, TypeOK, Connection
<1>1. ASSUME \A c \in Conns : conns'[c].req \in {conns[c].req, <<>>} PROVE Sent' \subseteq Sent
  BY <1>1, FewerSent
<1>2. ASSUME NEW t \in Threads, pc[t] = "send", asked' = asked,
             NEW d \in Conns, conns'[d].req = <<asked[t]>>, \A c \in Conns \ {d} : conns'[c] = conns[c]
      PROVE  Sent' \subseteq Sent \cup {asked[t].req}
  <2> SUFFICES ASSUME NEW c \in Conns, NEW i \in DOMAIN conns'[c].req
               PROVE  conns'[c].req[i].req \in Sent \cup {asked[t].req}
    BY DEF Sent
  <2>1. CASE c = d
    BY <1>2, <2>1
  <2>2. CASE c # d
    BY <1>2, <2>2, InSent
  <2> QED BY <2>1, <2>2
<1>3. ASSUME NEW t \in Threads, Connect(t) PROVE Sent' \subseteq Sent \cup {asked[t].req}
  <2>1. PICK d \in Conns : d = sock'
    BY <1>3 DEF Connect
  <2>2. /\ conns'[d].req = <<asked[t]>> /\ \A c \in Conns \ {d} : conns'[c] = conns[c]
        /\ pc[t] = "send" /\ asked' = asked
    BY <1>0, <1>3, <2>1 DEF Connect
  <2> QED BY <1>2, <2>2
<1>4. ASSUME NEW t \in Threads, Send(t) PROVE Sent' \subseteq Sent \cup {asked[t].req}
  <2>1. sock \in Conns /\ owner = t /\ pc[t] = "send" /\ asked' = asked
    BY <1>0, <1>4 DEF Send, Ownership, Typed, TypeOK
  <2>2. conns[sock].req = <<>>
    BY <1>0, <2>1 DEF OnlyItsCall, Expecting
  <2>3. conns' = [conns EXCEPT ![sock] = [conns[sock] EXCEPT !.req = <<asked[t]>>]]
    BY <1>4, <2>2 DEF Send
  <2>4. conns'[sock].req = <<asked[t]>> /\ \A c \in Conns \ {sock} : conns'[c] = conns[c]
    BY <1>0, <2>1, <2>3 DEF Connection
  <2> QED BY <1>2, <2>1, <2>4
<1>5. ASSUME NEW t \in Threads, Receive(t) PROVE Sent' \subseteq Sent
  <2>1. sock \in Conns
    BY <1>0, <1>5 DEF Receive, Ownership
  <2> QED BY <1>0, <1>1, <1>5, <2>1 DEF Receive, Connection
<1>6. ASSUME conns' = IF sock = NoConn THEN conns ELSE Hung PROVE Sent' \subseteq Sent
  BY <1>0, <1>1, <1>6, HungType DEF Typed
<1>7. ASSUME NEW t \in Threads, Refused(t) \/ BrokenPipe(t) \/ EndOfFile(t) \/ Timeout(t)
      PROVE  Sent' \subseteq Sent
  BY <1>6, <1>7 DEF Refused, BrokenPipe, EndOfFile, Timeout, Failed
<1>8. CASE ClientDies
  BY <1>6, <1>8 DEF ClientDies
<1>9. ASSUME NEW c \in Conns, Raise(c) PROVE Sent' \subseteq Sent
  BY <1>0, <1>1, <1>9 DEF Raise, Closed
<1>10. CASE ServerDies
  BY <1>1, <1>10 DEF ServerDies, Closed
<1>11. ASSUME conns' = conns PROVE Sent' \subseteq Sent
  BY <1>1, <1>11
<1> QED BY <1>3, <1>4, <1>5, <1>7, <1>8, <1>9, <1>10, <1>11, ReplySent
        DEF Step, Silent, Call, Acquire, Connect, Send, Return, ServerStarts, rpcVars

-----------------------------------------------------------------------------
\* RpcClient's answers have ControlLink's among them. (This is no assumption of
\* ControlLink's, since TLC cannot evaluate it: the sets are infinite.)
AsLink == Replies \subseteq Answers

-----------------------------------------------------------------------------
(* Histories *)

\* Samples in the order of time, none twice.
Ordered(h) == \A i, j \in DOMAIN h : i < j => h[i] < h[j]

LEMMA SamplesType ==
  ASSUME NEW N \in Nat, NEW h \in Seq(1..N)
  PROVE  /\ Len(h) \in Nat /\ DOMAIN h = 1..Len(h)
         /\ \A i \in DOMAIN h : h[i] \in 1..N /\ h[i] \in Nat /\ h[i] <= N
         /\ h # <<>> => 1 \in DOMAIN h /\ Head(h) = h[1]
OBVIOUS

LEMMA Less == \A a, b, c \in Nat : a < b /\ b < c => a < c
OBVIOUS

LEMMA ExtendedOrdered ==
  ASSUME NEW N \in Nat, NEW h \in Seq(1..N), Ordered(h), NEW st, st.t \in 0..N
  PROVE  /\ Extended(h, st) \in Seq(1..N) /\ Ordered(Extended(h, st))
         /\ ToSet(h) \subseteq ToSet(Extended(h, st))
<1>1. CASE Extended(h, st) = h
  BY <1>1
<1>2. CASE st.t > 0 /\ (h = <<>> \/ st.t > Last(h)) /\ Extended(h, st) = Append(h, st.t)
  <2>1. /\ Append(h, st.t) \in Seq(1..N) /\ Len(Append(h, st.t)) = Len(h) + 1
        /\ \A i \in 1..Len(h) : Append(h, st.t)[i] = h[i]
        /\ Append(h, st.t)[Len(h) + 1] = st.t
    BY <1>2, AppendProperties
  <2>2. \A i \in 1..Len(h) : h[i] < st.t
    <3> SUFFICES ASSUME NEW i \in 1..Len(h) PROVE h[i] < st.t
      OBVIOUS
    <3>1. h # <<>> /\ st.t > h[Len(h)]
      BY <1>2 DEF Last
    <3>2. i = Len(h) \/ h[i] < h[Len(h)]
      BY <3>1 DEF Ordered
    <3>3. h[i] \in Nat /\ h[Len(h)] \in Nat
      BY <3>1
    <3> QED BY <3>1, <3>2, <3>3
  <2>3. Ordered(Append(h, st.t))
    <3> SUFFICES ASSUME NEW i \in 1..Len(h) + 1, NEW j \in 1..Len(h) + 1, i < j
                 PROVE  Append(h, st.t)[i] < Append(h, st.t)[j]
      BY <2>1 DEF Ordered
    <3>1. i \in 1..Len(h) /\ (j \in 1..Len(h) \/ j = Len(h) + 1)
      OBVIOUS
    <3>2. CASE j \in 1..Len(h)
      BY <2>1, <3>1, <3>2 DEF Ordered
    <3>3. CASE j = Len(h) + 1
      BY <2>1, <2>2, <3>1, <3>3
    <3> QED BY <3>1, <3>2, <3>3
  <2>4. ASSUME NEW i \in DOMAIN h PROVE h[i] \in ToSet(Append(h, st.t))
    <3>1. i \in DOMAIN Append(h, st.t) /\ Append(h, st.t)[i] = h[i]
      BY <2>1
    <3> QED BY <3>1 DEF ToSet
  <2>5. ToSet(h) \subseteq ToSet(Append(h, st.t))
    BY <2>4 DEF ToSet
  <2> QED BY <1>2, <2>1, <2>3, <2>5
<1> QED BY <1>1, <1>2 DEF Extended

LEMMA Interval ==
  ASSUME NEW k \in Nat
  PROVE  IsFiniteSet(1..k) /\ Cardinality(1..k) = k
<1>1. IsFiniteSet(1..k)
  BY FS_Interval
<1>2. Cardinality(1..k) = k
  BY FS_Interval
<1> QED BY <1>1, <1>2

\* In an ordered copy the samples before a time are the first ones.
LEMMA EarlyFirst ==
  ASSUME NEW N \in Nat, history \in Seq(1..N), Ordered(history), NEW h \in Seq(1..N), h # <<>>
  PROVE  \E m \in 0..Len(history) : Early(h) = 1..m /\ Cardinality(Early(h)) = m
<1> DEFINE E == Early(h)
           m == Cardinality(E)
<1>0. /\ history \in Seq(Nat) /\ Len(history) \in Nat /\ h[1] \in Nat /\ Head(h) = h[1]
      /\ DOMAIN history = 1..Len(history) /\ \A i \in DOMAIN history : history[i] \in Nat
  BY SamplesType
<1>1. E \subseteq 1..Len(history) /\ \A i \in E : i \in DOMAIN history /\ history[i] < h[1]
  BY <1>0 DEF Early
<1>2. IsFiniteSet(1..Len(history)) /\ Cardinality(1..Len(history)) = Len(history)
  BY <1>0, Interval
<1>3. IsFiniteSet(E) /\ m \in Nat /\ m <= Len(history)
  BY <1>1, <1>2, FS_Subset, FS_CardinalityType
<1>4. ASSUME NEW i \in E PROVE i <= m
  <2>1. i \in 1..Len(history) /\ history[i] < h[1]
    BY <1>1
  <2>2. ASSUME NEW j \in 1..i PROVE j \in E
    <3>0. i \in DOMAIN history /\ j \in DOMAIN history /\ (j = i \/ j < i)
      BY <1>0, <2>1
    <3>1. j \in DOMAIN history /\ (j = i \/ history[j] < history[i])
      BY <3>0 DEF Ordered
    <3>2. history[j] \in Nat /\ history[i] \in Nat /\ h[1] \in Nat
      BY <1>0, <3>0
    <3>3. history[j] < h[1]
      BY <2>1, <3>1, <3>2, Less
    <3> QED BY <1>0, <3>1, <3>3 DEF Early
  <2>3. Cardinality(1..i) = i
    BY <2>1, Interval
  <2>4. 1..i \subseteq E
    BY <2>2
  <2> HIDE DEF E
  <2>5. Cardinality(1..i) <= Cardinality(E)
    BY <1>3, <2>4, FS_Subset
  <2> QED BY <2>3, <2>5
<1>5. E \subseteq 1..m
  BY <1>1, <1>4
<1>6. IsFiniteSet(1..m) /\ Cardinality(1..m) = m
  BY <1>3, Interval
<1> HIDE DEF E
<1>7. E = 1..m
  BY <1>5, <1>6, FS_Subset
<1> QED BY <1>3, <1>7 DEF E

LEMMA NthFirst ==
  ASSUME NEW m \in Nat, NEW k \in 1..m
  PROVE  Nth(k, 1..m) = k
<1>1. ASSUME NEW i \in 1..m PROVE Cardinality({j \in 1..m : j <= i}) = i
  <2>1. {j \in 1..m : j <= i} = 1..i
    OBVIOUS
  <2>2. Cardinality(1..i) = i
    BY Interval
  <2> QED BY <2>1, <2>2
<1>2. Nth(k, 1..m) = CHOOSE i \in 1..m : Cardinality({j \in 1..m : j <= i}) = k
  BY DEF Nth
<1>3. \E i \in 1..m : Cardinality({j \in 1..m : j <= i}) = k
  BY <1>1
<1>4. /\ Nth(k, 1..m) \in 1..m
      /\ Cardinality({j \in 1..m : j <= Nth(k, 1..m)}) = k
  BY <1>2, <1>3
<1> QED BY <1>1, <1>4

\* What is kept of an ordered copy is its first samples, those of before.
LEMMA KeptFirst ==
  ASSUME NEW N \in Nat, history \in Seq(1..N), Ordered(history), NEW h \in Seq(1..N)
  PROVE  \E m \in 0..Len(history) :
           /\ Kept(h) \in Seq(1..N) /\ Len(Kept(h)) = m
           /\ \A k \in 1..m : Kept(h)[k] = history[k] /\ (h # <<>> => history[k] < h[1])
           /\ \A i \in DOMAIN history : i \in 1..m \/ (h # <<>> /\ history[i] >= h[1])
<1>1. CASE h = <<>>
  <2>1. Kept(h) = history
    BY <1>1 DEF Kept
  <2> QED BY <1>1, <2>1
<1>2. CASE h # <<>>
  <2>1. PICK m \in 0..Len(history) : Early(h) = 1..m /\ Cardinality(Early(h)) = m
    BY <1>2, EarlyFirst
  <2>2. Kept(h) = [k \in 1..m |-> history[Nth(k, 1..m)]]
    BY <1>2, <2>1 DEF Kept
  <2>3. \A k \in 1..m : Nth(k, 1..m) = k
    BY NthFirst
  <2>4. Kept(h) = [k \in 1..m |-> history[k]]
    BY <2>2, <2>3
  <2>5. \A k \in 1..m : history[k] \in 1..N
    OBVIOUS
  <2>6. Kept(h) \in Seq(1..N) /\ Len(Kept(h)) = m
    BY <2>4, <2>5
  <2>7. \A i \in DOMAIN history : history[i] \in Nat /\ h[1] \in Nat /\ Head(h) = h[1]
    BY <1>2
  <2>8. \A i \in DOMAIN history : i \in 1..m <=> history[i] < h[1]
    BY <2>1, <2>7 DEF Early
  <2>9. \A i \in DOMAIN history : i \in 1..m \/ (h # <<>> /\ history[i] >= h[1])
    BY <1>2, <2>7, <2>8
  <2>10. \A k \in 1..m : Kept(h)[k] = history[k] /\ (h # <<>> => history[k] < h[1])
    <3>1. \A k \in 1..m : k \in DOMAIN history
      OBVIOUS
    <3> QED BY <2>4, <2>8, <3>1
  <2> QED BY <2>6, <2>9, <2>10
<1> QED BY <1>1, <1>2

LEMMA ConcatOrdered ==
  ASSUME NEW N \in Nat, NEW s \in Seq(1..N), NEW h \in Seq(1..N), Ordered(s), Ordered(h),
         h # <<>> => \A i \in DOMAIN s : s[i] < h[1]
  PROVE  /\ s \o h \in Seq(1..N) /\ Ordered(s \o h)
         /\ ToSet(s) \subseteq ToSet(s \o h) /\ ToSet(h) \subseteq ToSet(s \o h)
<1> DEFINE m == Len(s)
           g == s \o h
<1>1. m \in Nat /\ Len(h) \in Nat /\ DOMAIN s = 1..m /\ DOMAIN h = 1..Len(h)
  OBVIOUS
<1>2. g \in Seq(1..N) /\ Len(g) = m + Len(h)
      /\ \A i \in 1..m + Len(h) : g[i] = IF i <= m THEN s[i] ELSE h[i - m]
  BY ConcatProperties
<1>3. /\ \A i \in DOMAIN s : s[i] \in Nat
      /\ \A i \in DOMAIN h : h[i] \in Nat
  OBVIOUS
<1> HIDE DEF g, m
<1>4. DOMAIN g = 1..m + Len(h)
  BY <1>2
<1>5. ASSUME NEW i \in 1..m PROVE g[i] = s[i] /\ i \in DOMAIN g
  <2>1. i \in 1..m + Len(h) /\ i <= m
    BY <1>1
  <2> QED BY <1>2, <1>4, <2>1
<1>6. ASSUME NEW i \in 1..Len(h) PROVE g[m + i] = h[i] /\ m + i \in DOMAIN g
  <2>1. m + i \in 1..m + Len(h) /\ ~(m + i <= m) /\ (m + i) - m = i
    BY <1>1
  <2> QED BY <1>2, <1>4, <2>1
<1>7. Ordered(g)
  <2> SUFFICES ASSUME NEW i \in 1..m + Len(h), NEW j \in 1..m + Len(h), i < j PROVE g[i] < g[j]
    BY <1>4 DEF Ordered
  <2>0. i \in Nat /\ j \in Nat
    BY <1>1
  <2>1. CASE j <= m
    <3>1. i \in 1..m /\ j \in 1..m
      BY <1>1, <2>1, <2>0
    <3> QED BY <1>1, <1>5, <3>1 DEF Ordered
  <2>2. CASE i > m
    <3>1. PICK p \in 1..Len(h), q \in 1..Len(h) : i = m + p /\ j = m + q /\ p < q
      <4>1. i - m \in 1..Len(h) /\ j - m \in 1..Len(h)
        BY <1>1, <2>0, <2>2
      <4>2. i = m + (i - m) /\ j = m + (j - m) /\ i - m < j - m
        BY <1>1, <2>0
      <4> QED BY <4>1, <4>2
    <3>2. h[p] < h[q]
      BY <1>1, <3>1 DEF Ordered
    <3> QED BY <1>6, <3>1, <3>2
  <2>3. CASE i <= m /\ j > m
    <3>1. i \in DOMAIN s
      BY <1>1, <2>0, <2>3
    <3>2. PICK q \in 1..Len(h) : j = m + q
      <4>1. j - m \in 1..Len(h) /\ j = m + (j - m)
        BY <1>1, <2>0, <2>3
      <4> QED BY <4>1
    <3>3. 1 \in DOMAIN h /\ q \in DOMAIN h /\ (q = 1 \/ 1 < q) /\ h # <<>>
      BY <1>1, <3>2
    <3>4. s[i] < h[1]
      BY <3>1, <3>3
    <3>5. s[i] < h[q]
      <4>1. CASE q = 1
        BY <3>4, <4>1
      <4>2. CASE 1 < q
        <5>1. h[1] < h[q]
          BY <3>3, <4>2 DEF Ordered
        <5>2. s[i] \in Nat /\ h[1] \in Nat /\ h[q] \in Nat
          BY <1>3, <3>1, <3>3
        <5> QED BY <3>4, <5>1, <5>2, Less
      <4> QED BY <3>3, <4>1, <4>2
    <3>6. g[i] = s[i] /\ g[j] = h[q]
      BY <1>1, <1>5, <1>6, <3>1, <3>2
    <3> QED BY <3>5, <3>6
  <2> QED BY <1>1, <2>0, <2>1, <2>2, <2>3
<1>8. ToSet(s) \subseteq ToSet(g)
  BY <1>1, <1>5 DEF ToSet
<1>9. ToSet(h) \subseteq ToSet(g)
  <2> SUFFICES ASSUME NEW i \in 1..Len(h) PROVE h[i] \in ToSet(g)
    BY <1>1 DEF ToSet
  <2> QED BY <1>6 DEF ToSet
<1> QED BY <1>2, <1>7, <1>8, <1>9 DEF g

LEMMA MergedOrdered ==
  ASSUME NEW N \in Nat, history \in Seq(1..N), Ordered(history), NEW h \in Seq(1..N), Ordered(h)
  PROVE  /\ Merged(h) \in Seq(1..N) /\ Ordered(Merged(h))
         /\ ToSet(h) \subseteq ToSet(Merged(h))
         /\ \A i \in DOMAIN history : \/ history[i] \in ToSet(Merged(h))
                                      \/ h # <<>> /\ history[i] >= h[1]
<1>1. PICK m \in 0..Len(history) :
           /\ Kept(h) \in Seq(1..N) /\ Len(Kept(h)) = m
           /\ \A k \in 1..m : Kept(h)[k] = history[k] /\ (h # <<>> => history[k] < h[1])
           /\ \A i \in DOMAIN history : i \in 1..m \/ (h # <<>> /\ history[i] >= h[1])
  BY KeptFirst
<1> DEFINE s == Kept(h)
<1>2. s \in Seq(1..N) /\ DOMAIN s = 1..m /\ \A k \in 1..m : k \in DOMAIN history
  BY <1>1
<1>3. \A k \in 1..m : s[k] = history[k] /\ (h # <<>> => s[k] < h[1])
  BY <1>1
<1> HIDE DEF s
<1>4. Ordered(s)
  BY <1>2, <1>3 DEF Ordered
<1>5. Merged(h) = s \o h
  BY DEF Merged, s
<1>6. /\ Merged(h) \in Seq(1..N) /\ Ordered(Merged(h))
      /\ ToSet(s) \subseteq ToSet(Merged(h)) /\ ToSet(h) \subseteq ToSet(Merged(h))
  BY <1>2, <1>3, <1>4, <1>5, ConcatOrdered
<1>7. \A i \in 1..m : history[i] \in ToSet(s)
  BY <1>2, <1>3 DEF ToSet
<1> QED BY <1>1, <1>6, <1>7

-----------------------------------------------------------------------------
(* What ControlLink keeps true *)

\* A state that the controller published.
Seen(st) == st \in States /\ st.boot <= boot /\ st.t <= now

\* Every sample from one on to the last there was.
Unbroken(h) == h \in Seq(1..now) /\ \A i \in DOMAIN h : h[i] + Len(h) = now + i

\* The samples from before the controller's present start.
Brought == {hist[i] : i \in 1..(Len(hist) - n)}

\* An answer with the history: it has what the copy has of its time, and if
\* it is of the controller's present start also all that was brought over.
Told(h) ==
  /\ h \in Seq(1..now) /\ Ordered(h)
  /\ h # <<>> => \A i \in DOMAIN history : history[i] < h[1] \/ history[i] \in ToSet(h)
  /\ polled # None /\ polled.boot = boot => Brought \subseteq ToSet(h)

Controller ==
  /\ boot \in Nat /\ boot > 0 /\ cfg \in Settings /\ Seen(state)
  /\ disk \in Settings /\ lost \in BOOLEAN
  /\ now \in 0..MaxTime /\ Unbroken(hist) /\ n \in 0..Len(hist)
  /\ file # None => ~up /\ Unbroken(file)

Copy ==
  /\ history \in Seq(1..now) /\ Ordered(history)
  /\ latest = None \/ latest \in States
  /\ polled # None => Seen(polled)
  /\ linkBoot \in 0..boot
  /\ acked \in Settings \cup {None} /\ alone \in BOOLEAN

\* The poller asks for the state or the history, the GUI for a setting.
Asking ==
  /\ pc[Poller] # "out" =>
       asked[Poller].req = [op |-> IF polled = None THEN "state" ELSE "history"]
  /\ pc[Gui] # "out" =>
       asked[Gui].req.op = "set" /\ asked[Gui].req.setting \in Settings

Fits(r, a) ==
  /\ r.op \in {"state", "set"} => Seen(a)
  /\ r.op = "history" => Told(a)
  /\ r.op = "set" /\ alone => InForce(r.setting)

\* The answer to a call says what was asked for, and a setting that was
\* answered is in force, or lost, while no other was on its way.
Answering == \A x \in Heard : Fits(asked[x[1]].req, x[2])

\* After an acknowledged setting no other is on its way, nor during a request
\* that began alone.
Sticks ==
  /\ pc[Gui] = "out" /\ acked # None => InForce(acked) /\ \A r \in Sent : r.op # "set"
  /\ pc[Gui] # "out" /\ alone => \A r \in Sent : r.op = "set" => r = asked[Gui].req

Shown == linkBoot = boot => Brought \subseteq ToSet(history)

LinkSafe == Safe /\ Controller /\ Copy /\ Asking /\ Answering /\ Sticks /\ Shown

-----------------------------------------------------------------------------
(* The steps of ControlLink as steps of the client and the server *)

Known == UNCHANGED <<boot, cfg, disk, lost, state, hist, file, n, now, latest, history, linkBoot, polled, acked, alone>>

Own(t) ==
  Acquire(t) \/ Connect(t) \/ Send(t) \/ Receive(t)
    \/ Refused(t) \/ BrokenPipe(t) \/ EndOfFile(t) \/ Timeout(t)

LEMMA OwnSteps ==
  ASSUME NEW t, InTime(t) \/ Late(t)
  PROVE  Own(t) /\ Known
<1>1. Known
  BY DEF InTime, Late, ctl, link, gui, Known
<1>2. Own(t)
  BY DEF InTime, Late, Own
<1> QED BY <1>1, <1>2

\* The server works on a request of connection c and answers a.
Serves(c, a) ==
  /\ Reply(c, a) /\ Run(c) \in Sent /\ Run(c) \in Requests
  /\ UNCHANGED <<boot, hist, file, n, now, latest, history, linkBoot, polled, acked, alone>>
  /\ \/ Run(c).op = "state" /\ a = state /\ UNCHANGED <<cfg, disk, lost, state>>
     \/ Run(c).op = "history" /\ a = hist /\ UNCHANGED <<cfg, disk, lost, state>>
     \/ /\ Run(c).op = "set" /\ Run(c).setting \in Settings
        /\ cfg' = Run(c).setting /\ disk' \in {disk, cfg'} /\ lost' = FALSE
        /\ a = [state EXCEPT !.cfg = Run(c).setting] /\ state' = a

LEMMA RunIsSent ==
  ASSUME Safe, NEW c \in Conns, conns[c].req # <<>>
  PROVE  /\ Run(c) \in Sent /\ Run(c) \in Requests
         /\ Run(c).op = "set" => Run(c).setting \in Settings
<1>1. conns[c].req \in Seq(RequestLine)
  BY DEF Safe, Typed, TypeOK, Connection
<1>2. 1 \in DOMAIN conns[c].req /\ Head(conns[c].req) = conns[c].req[1] /\ conns[c].req[1] \in RequestLine
  BY <1>1
<1>3. Run(c) = conns[c].req[1].req
  BY <1>2 DEF Run
<1>4. Run(c) \in Sent
  BY <1>2, <1>3, InSent
<1>5. Run(c) \in Requests
  BY <1>2, <1>3 DEF RequestLine
<1>6. Run(c).op = "set" => Run(c).setting \in Settings
  BY <1>5, LinkConstants DEF Ops
<1> QED BY <1>4, <1>5, <1>6

LEMMA ServeStep ==
  ASSUME AsLink, Safe, Controller, NEW c \in Conns, Serve(c)
  PROVE  \E a \in Answers : Serves(c, a)
<1>0. /\ conns[c].req # <<>>
      /\ AnswerState(c) \/ AnswerHistory(c) \/ AnswerSet(c)
      /\ UNCHANGED <<latest, history, linkBoot, polled, acked, alone>>
  BY DEF Serve, link, gui
<1>1. /\ Run(c) \in Sent /\ Run(c) \in Requests
      /\ Run(c).op = "set" => Run(c).setting \in Settings
  BY <1>0, RunIsSent
<1>2. CASE AnswerState(c)
  <2>1. state \in Answers
    BY DEF Controller, Seen, AsLink, Replies
  <2>2. Serves(c, state)
    BY <1>0, <1>1, <1>2 DEF AnswerState, ctl, Serves
  <2> QED BY <2>1, <2>2
<1>3. CASE AnswerHistory(c)
  <2>1. hist \in Answers
    <3>1. hist \in Seq(1..now) /\ now \in 0..MaxTime /\ MaxTime \in Nat
      BY LinkConstants DEF Controller, Unbroken
    <3>2. hist \in Seq(1..MaxTime)
      BY <3>1
    <3> QED BY <3>2 DEF AsLink, Replies
  <2>2. Serves(c, hist)
    BY <1>0, <1>1, <1>3 DEF AnswerHistory, ctl, Serves
  <2> QED BY <2>1, <2>2
<1>4. CASE AnswerSet(c)
  <2>1. PICK a : a = state'
    OBVIOUS
  <2>2. /\ Run(c).op = "set" /\ cfg' = Run(c).setting
        /\ disk' \in {disk, cfg'} /\ lost' = FALSE
        /\ a = [state EXCEPT !.cfg = Run(c).setting]
        /\ UNCHANGED <<boot, hist, file, n, now>>
    BY <1>4, <2>1 DEF AnswerSet, Apply
  <2>3. Reply(c, a)
    BY <1>4, <2>1 DEF AnswerSet, Reply, Answered, Closed, client
  <2>4. a \in Answers
    BY <1>1, <2>2 DEF Controller, Seen, AsLink, Replies, States
  <2>5. Serves(c, a)
    BY <1>0, <1>1, <2>1, <2>2, <2>3 DEF Serves
  <2> QED BY <2>4, <2>5
<1> QED BY <1>0, <1>2, <1>3, <1>4

\* A step that changes nothing the link or the controller knows.
Steady ==
  \/ (\E t \in Threads : Own(t)) /\ Known
  \/ UNCHANGED <<rpcVars, ctl, link, gui>>

Dies == (Stop \/ Crash \/ \E c \in Conns : CrashInSet(c)) /\ ServerDies

\* The steps of ControlLink, with what each does to the connection.
LEMMA LinkSteps ==
  ASSUME AsLink, Safe, Controller, [LinkNext]_linkVars
  PROVE  \/ Sample /\ UNCHANGED rpcVars
         \/ Dies
         \/ Start /\ ServerStarts
         \/ \E c \in Conns, a \in Answers : Serves(c, a)
         \/ Poll /\ Call(Poller, [op |-> "state"])
         \/ AskHistory /\ Call(Poller, [op |-> "history"])
         \/ (PollFails \/ Polled \/ Seed) /\ Return(Poller)
         \/ \E s \in Settings : Set(s) /\ Call(Gui, [op |-> "set", setting |-> s])
         \/ SetDone /\ Return(Gui)
         \/ WebRestart /\ ClientDies
         \/ Steady
<1>0. Poller \in Threads /\ Gui \in Threads
  BY LinkConstants
<1>1. CASE Sample
  BY <1>1 DEF Sample, rpcVars, client
<1>2. CASE Stop \/ Crash
  BY <1>2 DEF Stop, Crash, Dies
<1>3. CASE Start
  BY <1>3 DEF Start
<1>4. ASSUME NEW c \in Conns, CrashInSet(c) PROVE Dies
  BY <1>4 DEF CrashInSet, Dies
<1>5. ASSUME NEW c \in Conns, Serve(c) PROVE \E a \in Answers : Serves(c, a)
  BY <1>5, ServeStep
<1>6. CASE Poll
  BY <1>6 DEF Poll
<1>7. CASE AskHistory
  BY <1>7 DEF AskHistory
<1>8. CASE PollFails \/ Polled \/ Seed
  BY <1>8 DEF PollFails, Polled, Seed
<1>9. ASSUME NEW s \in Settings, Set(s) PROVE Call(Gui, [op |-> "set", setting |-> s])
  BY <1>9 DEF Set
<1>10. CASE SetDone
  BY <1>10 DEF SetDone
<1>11. CASE WebRestart
  BY <1>11 DEF WebRestart
<1>12. CASE \E t \in {Poller, Gui} : InTime(t) \/ Late(t)
  BY <1>0, <1>12, OwnSteps DEF Steady
<1>13. CASE UNCHANGED linkVars
  BY <1>13 DEF linkVars, Steady, rpcVars, client
<1> QED BY <1>1, <1>2, <1>3, <1>4, <1>5, <1>6, <1>7, <1>8, <1>9, <1>10, <1>11, <1>12, <1>13
        DEF LinkNext, PollerStep, GuiStep

LEMMA LinkStep ==
  ASSUME AsLink, Safe, Controller, [LinkNext]_linkVars
  PROVE  Step
<1>0. /\ Poller \in Threads /\ Gui \in Threads
      /\ [op |-> "state"] \in Requests /\ [op |-> "history"] \in Requests
      /\ \A s \in Settings : [op |-> "set", setting |-> s] \in Requests
  BY LinkConstants DEF Ops
<1>1. ASSUME (\E t \in Threads, r \in Requests : Call(t, r)) PROVE Step
  BY <1>1 DEF Step, Silent
<1> QED BY <1>0, <1>1, LinkSteps DEF Step, Silent, Serves, Dies, Steady, Own

LEMMA LinkTypes ==
  ASSUME Safe
  PROVE  /\ Poller \in Threads /\ Gui \in Threads /\ Poller # Gui
         /\ \A t \in Threads : t = Poller \/ t = Gui
         /\ pc \in [Threads -> {"out", "lock", "send", "read", "done"}]
         /\ asked \in [Threads -> RequestLine \cup {Idle}]
         /\ got \in [Threads -> ReplyLine \cup {Unavailable}]
         /\ \A t \in Threads : pc[t] # "out" => asked[t] \in RequestLine /\ asked[t] # Idle
<1>1. Idle \notin RequestLine
  BY RpcConstants DEF Idle, RequestLine
<1>2. Poller # Gui
  BY DEF Poller, Gui
<1> QED BY <1>1, <1>2, LinkConstants DEF Safe, Typed, TypeOK

\* A call that goes on stays a call, with its request.
LEMMA OwnPlaces ==
  ASSUME Safe, NEW t \in Threads, Own(t)
  PROVE  asked' = asked /\ \A u \in Threads : pc'[u] = "out" <=> pc[u] = "out"
<1>0. pc \in [Threads -> {"out", "lock", "send", "read", "done"}]
  BY LinkTypes
<1>1. CASE Acquire(t) \/ Connect(t) \/ Send(t) \/ Receive(t)
  BY <1>0, <1>1 DEF Acquire, Connect, Send, Receive, Finish, Goto
<1>2. CASE Refused(t) \/ BrokenPipe(t) \/ EndOfFile(t) \/ Timeout(t)
  <2>1. PICK why : Failed(t, why) /\ asked' = asked /\ pc[t] # "out"
    BY <1>2 DEF Refused, BrokenPipe, EndOfFile, Timeout
  <2> QED BY <1>0, <2>1 DEF Failed, Finish, Goto
<1> QED BY <1>1, <1>2 DEF Own

LEMMA HeardOf ==
  ASSUME Safe, Asking, NEW x \in Heard
  PROVE  /\ x[1] \in Threads /\ pc[x[1]] # "out" /\ asked[x[1]] \in RequestLine
         /\ \/ x[1] = Gui /\ asked[x[1]].req.op = "set"
            \/ /\ x[1] = Poller
               /\ asked[x[1]].req.op = IF polled = None THEN "state" ELSE "history"
<1>1. x[1] \in Threads /\ pc[x[1]] # "out"
  BY InHeard
<1> QED BY <1>1, LinkTypes DEF Asking

LEMMA ReturnHeard ==
  ASSUME Safe, Asking, NEW t \in Threads, Return(t), NEW x \in Heard'
  PROVE  x \in Heard /\ x[1] # t /\ asked'[x[1]] = asked[x[1]]
<1>1. x \in Heard /\ asked'[x[1]] = asked[x[1]]
  BY SilentHeard DEF Silent
<1>2. asked'[t] = Idle
  BY LinkTypes DEF Return
<1>3. x[1] \in Threads /\ pc[x[1]] # "out"
  BY <1>1, HeardOf
<1> QED BY <1>1, <1>2, <1>3, LinkTypes

LEMMA DeadHeard ==
  ASSUME Safe, Asking, ClientDies PROVE Heard' = {}
<1> SUFFICES ASSUME NEW x \in Heard' PROVE FALSE
  OBVIOUS
<1>1. x \in Heard /\ asked'[x[1]] = asked[x[1]]
  BY SilentHeard DEF Silent
<1>2. x[1] \in Threads /\ pc[x[1]] # "out"
  BY <1>1, HeardOf
<1>3. asked'[x[1]] = Idle
  BY <1>2 DEF ClientDies
<1> QED BY <1>1, <1>2, <1>3, LinkTypes

-----------------------------------------------------------------------------
(* The controller *)

LEMMA ControllerStep ==
  ASSUME AsLink, Safe, Controller, [LinkNext]_linkVars
  PROVE  Controller'
<1>0. /\ boot \in Nat /\ boot > 0 /\ cfg \in Settings /\ Seen(state)
      /\ disk \in Settings /\ lost \in BOOLEAN
      /\ now \in 0..MaxTime /\ MaxTime \in Nat /\ Unbroken(hist) /\ n \in 0..Len(hist)
      /\ file # None => ~up /\ Unbroken(file)
      /\ hist \in Seq(1..now) /\ Len(hist) \in Nat
  BY LinkConstants DEF Controller, Unbroken
<1>1. CASE Sample /\ UNCHANGED rpcVars
  <2>1. /\ up /\ now < MaxTime /\ now' = now + 1 /\ n' = n + 1
        /\ hist' = Append(hist, now + 1)
        /\ state' = [boot |-> boot, t |-> now + 1, cfg |-> cfg]
        /\ UNCHANGED <<boot, cfg, disk, lost, file, up>>
    BY <1>1 DEF Sample, rpcVars
  <2>2. now' \in 0..MaxTime
    BY <1>0, <2>1
  <2>3. Seen(state)'
    BY <1>0, <2>1, <2>2 DEF Seen, States
  <2>4. hist \in Seq(1..now + 1) /\ now + 1 \in 1..now + 1
    BY <1>0
  <2>5. /\ hist' \in Seq(1..now') /\ Len(hist') = Len(hist) + 1
        /\ \A i \in 1..Len(hist) : hist'[i] = hist[i]
        /\ hist'[Len(hist) + 1] = now + 1
    BY <2>1, <2>4, AppendProperties
  <2>6. ASSUME NEW i \in 1..Len(hist) + 1 PROVE hist'[i] + Len(hist') = now' + i
    <3>1. CASE i \in 1..Len(hist)
      <4>1. hist[i] + Len(hist) = now + i /\ hist[i] \in Nat
        BY <1>0, <3>1 DEF Unbroken
      <4>2. hist'[i] = hist[i] /\ Len(hist') = Len(hist) + 1 /\ now' = now + 1
        BY <2>1, <2>5, <3>1
      <4>3. Len(hist) \in Nat /\ now \in Nat /\ i \in Nat
        BY <1>0
      <4> QED BY <4>1, <4>2, <4>3
    <3>2. CASE i = Len(hist) + 1
      <4>1. hist'[i] = now + 1 /\ Len(hist') = i /\ now' = now + 1
        BY <2>1, <2>5, <3>2
      <4>2. now \in Nat /\ i \in Nat
        BY <1>0
      <4> QED BY <4>1, <4>2
    <3>3. i \in 1..Len(hist) \/ i = Len(hist) + 1
      <4>1. Len(hist) \in Nat
        BY <1>0
      <4> QED BY <4>1
    <3> QED BY <3>1, <3>2, <3>3
  <2>7. DOMAIN hist' = 1..Len(hist) + 1
    BY <2>5
  <2>8. Unbroken(hist)'
    BY <2>5, <2>6, <2>7 DEF Unbroken
  <2>9. n' \in 0..Len(hist')
    BY <1>0, <2>1, <2>5
  <2> QED BY <1>0, <2>1, <2>2, <2>3, <2>8, <2>9 DEF Controller
<1>2. CASE Dies
  <2>1. /\ up /\ up' = FALSE /\ UNCHANGED <<boot, state, hist, n, now>>
        /\ cfg' \in Settings /\ disk' \in Settings /\ lost' = lost /\ file' \in {file, hist}
    <3>1. up /\ up' = FALSE
      BY <1>2 DEF Dies, ServerDies
    <3>2. CASE Stop \/ Crash
      BY <1>0, <3>1, <3>2 DEF Stop, Crash, ctl
    <3>3. ASSUME NEW c \in Conns, CrashInSet(c) 
          PROVE UNCHANGED <<boot, lost, state, hist, n, now, file>> /\ {cfg', disk'} \subseteq Settings
      <4>1. {cfg', disk'} \subseteq Settings
        BY <1>0, <3>3, RunIsSent DEF CrashInSet, Apply
      <4> QED BY <3>1, <3>3, <4>1 DEF CrashInSet
    <3> QED BY <1>2, <3>1, <3>2, <3>3 DEF Dies
  <2> QED BY <1>0, <2>1 DEF Controller, Unbroken, Seen
<1>3. CASE Start /\ ServerStarts
  <2>1. /\ up' = TRUE /\ boot' = boot + 1 /\ hist' = Loaded /\ file' = None /\ n' = 0
        /\ state' = [boot |-> boot + 1, t |-> 0, cfg |-> disk]
        /\ cfg' = disk /\ lost' = (lost \/ cfg # disk) /\ UNCHANGED <<disk, now>>
    BY <1>3 DEF Start, ServerStarts
  <2>2. Unbroken(Loaded)
    <3>1. Unbroken(<<>>)
      BY DEF Unbroken
    <3> QED BY <1>0, <3>1 DEF Loaded
  <2>3. Unbroken(hist)'
    BY <2>1, <2>2 DEF Unbroken
  <2>4. Seen(state)'
    BY <1>0, <2>1 DEF Seen, States
  <2>5. n' \in 0..Len(hist')
    BY <2>1, <2>3 DEF Unbroken
  <2> QED BY <1>0, <2>1, <2>3, <2>4, <2>5 DEF Controller
<1>4. ASSUME NEW c \in Conns, NEW a \in Answers, Serves(c, a) PROVE Controller'
  <2>1. up' = up /\ UNCHANGED <<boot, hist, file, n, now>>
    BY <1>4 DEF Serves, Reply
  <2>2. cfg' \in Settings /\ disk' \in Settings /\ lost' \in BOOLEAN /\ Seen(state)'
    BY <1>0, <1>4, <2>1 DEF Serves, Seen, States
  <2> QED BY <1>0, <2>1, <2>2 DEF Controller, Unbroken
<1>5. ASSUME UNCHANGED <<boot, cfg, disk, lost, state, hist, file, n, now>>, up' = up PROVE Controller'
  BY <1>0, <1>5 DEF Controller, Unbroken, Seen
<1>6. ASSUME NEW t, Own(t) PROVE up' = up
  BY <1>6 DEF Own, Acquire, Connect, Send, Receive, Refused, BrokenPipe, EndOfFile, Timeout
<1>7. CASE Steady
  BY <1>5, <1>6, <1>7 DEF Steady, Known, ctl, rpcVars
<1>8. CASE Poll \/ AskHistory \/ (\E s \in Settings : Set(s))
  <2>1. UNCHANGED ctl
    BY <1>8 DEF Poll, AskHistory, Set
  <2>2. up' = up
    BY <1>8 DEF Poll, AskHistory, Set, Call
  <2> QED BY <1>5, <2>1, <2>2 DEF ctl
<1>9. CASE PollFails \/ Polled \/ Seed \/ SetDone
  <2>1. UNCHANGED ctl
    BY <1>9 DEF PollFails, Polled, Seed, SetDone
  <2>2. up' = up
    BY <1>9 DEF PollFails, Polled, Seed, SetDone, Return
  <2> QED BY <1>5, <2>1, <2>2 DEF ctl
<1>10. CASE WebRestart /\ ClientDies
  BY <1>5, <1>10 DEF WebRestart, ClientDies, ctl
<1> QED BY <1>1, <1>2, <1>3, <1>4, <1>7, <1>8, <1>9, <1>10, LinkSteps

\* Before the controller's own samples nothing changes but by its start.
LEMMA BroughtStep ==
  ASSUME AsLink, Safe, Controller, [LinkNext]_linkVars
  PROVE  /\ boot <= boot' /\ now <= now' /\ now' \in Nat
         /\ boot' # boot => boot' = boot + 1 /\ UNCHANGED <<history, polled, linkBoot, alone>>
         /\ boot' = boot => Brought' = Brought
         /\ now' # now => UNCHANGED <<rpcVars, boot, cfg, lost, history, polled, linkBoot, alone>>
<1> DEFINE Goal ==
             /\ boot <= boot' /\ now <= now' /\ now' \in Nat
             /\ boot' # boot => boot' = boot + 1 /\ UNCHANGED <<history, polled, linkBoot, alone>>
             /\ boot' = boot => Brought' = Brought
             /\ now' # now => UNCHANGED <<rpcVars, boot, cfg, lost, history, polled, linkBoot, alone>>
<1>0. /\ boot \in Nat /\ now \in Nat /\ n \in 0..Len(hist) /\ Len(hist) \in Nat
      /\ hist \in Seq(1..now)
  BY DEF Controller, Unbroken
<1>1. CASE Sample /\ UNCHANGED rpcVars
  <2>1. /\ now' = now + 1 /\ n' = n + 1 /\ hist' = Append(hist, now + 1)
        /\ UNCHANGED <<boot, cfg, lost, history, polled, linkBoot, alone>>
    BY <1>1 DEF Sample, link, gui
  <2>2. hist \in Seq(1..now + 1) /\ now + 1 \in 1..now + 1
    BY <1>0
  <2>3. Len(hist') = Len(hist) + 1 /\ \A i \in 1..Len(hist) : hist'[i] = hist[i]
    BY <2>1, <2>2, AppendProperties
  <2>4. Len(hist') - n' = Len(hist) - n /\ Len(hist) - n <= Len(hist)
    BY <1>0, <2>1, <2>3
  <2>5. \A i \in 1..(Len(hist) - n) : hist'[i] = hist[i]
    BY <1>0, <2>3, <2>4
  <2>6. Brought' = Brought
    BY <2>4, <2>5 DEF Brought
  <2> QED BY <1>0, <1>1, <2>1, <2>6
<1>2. ASSUME UNCHANGED <<boot, hist, n, now>> PROVE Goal
  BY <1>0, <1>2 DEF Brought
<1>3. CASE Start
  BY <1>0, <1>3 DEF Start, link, gui
<1>4. CASE Dies \/ Steady \/ \E c \in Conns, a \in Answers : Serves(c, a)
  BY <1>2, <1>4 DEF Dies, Stop, Crash, CrashInSet, Steady, Known, Serves, ctl
<1>5. CASE Poll \/ AskHistory \/ (\E s \in Settings : Set(s)) \/ PollFails \/ Polled
             \/ Seed \/ SetDone \/ WebRestart
  BY <1>2, <1>5 DEF Poll, AskHistory, Set, PollFails, Polled, Seed, SetDone, WebRestart, ctl
<1> QED BY <1>1, <1>3, <1>4, <1>5, LinkSteps

-----------------------------------------------------------------------------
(* The calls under way and their answers *)

LEMMA AskingStep ==
  ASSUME AsLink, Safe, Controller, Asking, [LinkNext]_linkVars
  PROVE  Asking'
<1>0. /\ Poller \in Threads /\ Gui \in Threads /\ Poller # Gui
      /\ pc \in [Threads -> {"out", "lock", "send", "read", "done"}]
      /\ asked \in [Threads -> RequestLine \cup {Idle}]
  BY LinkTypes
<1>1. ASSUME polled' = polled, asked' = asked, \A t \in Threads : pc'[t] = "out" <=> pc[t] = "out"
      PROVE  Asking'
  BY <1>0, <1>1 DEF Asking
<1>2. CASE Sample /\ UNCHANGED rpcVars
  BY <1>1, <1>2 DEF Sample, link, rpcVars, client
<1>3. CASE Dies \/ (Start /\ ServerStarts)
  <2>1. polled' = polled
    BY <1>3 DEF Dies, Stop, Crash, CrashInSet, Start, link
  <2>2. asked' = asked /\ pc' = pc
    BY <1>3 DEF Dies, ServerDies, ServerStarts, client
  <2> QED BY <1>1, <2>1, <2>2
<1>4. ASSUME NEW c \in Conns, NEW a \in Answers, Serves(c, a) PROVE Asking'
  BY <1>1, <1>4 DEF Serves, Reply, client
<1>5. CASE Poll /\ Call(Poller, [op |-> "state"])
  <2>1. polled = None /\ polled' = polled
    BY <1>5 DEF Poll, link
  <2>2. /\ asked'[Poller].req = [op |-> "state"]
        /\ asked'[Gui] = asked[Gui] /\ pc'[Gui] = pc[Gui]
    BY <1>0, <1>5 DEF Call, Goto
  <2> QED BY <2>1, <2>2 DEF Asking
<1>6. CASE AskHistory /\ Call(Poller, [op |-> "history"])
  <2>1. polled # None /\ polled' = polled
    BY <1>6 DEF AskHistory, link
  <2>2. /\ asked'[Poller].req = [op |-> "history"]
        /\ asked'[Gui] = asked[Gui] /\ pc'[Gui] = pc[Gui]
    BY <1>0, <1>6 DEF Call, Goto
  <2> QED BY <2>1, <2>2 DEF Asking
<1>7. CASE (PollFails \/ Polled \/ Seed) /\ Return(Poller)
  <2>1. pc'[Poller] = "out" /\ asked'[Gui] = asked[Gui] /\ pc'[Gui] = pc[Gui]
    BY <1>0, <1>7 DEF Return, Goto
  <2> QED BY <2>1 DEF Asking
<1>8. ASSUME NEW s \in Settings, Set(s), Call(Gui, [op |-> "set", setting |-> s]) PROVE Asking'
  <2>1. polled' = polled
    BY <1>8 DEF Set, link
  <2>2. /\ asked'[Gui].req = [op |-> "set", setting |-> s]
        /\ asked'[Poller] = asked[Poller] /\ pc'[Poller] = pc[Poller]
    BY <1>0, <1>8 DEF Call, Goto
  <2> QED BY <2>1, <2>2 DEF Asking
<1>9. CASE SetDone /\ Return(Gui)
  <2>1. polled' = polled
    BY <1>9 DEF SetDone
  <2>2. pc'[Gui] = "out" /\ asked'[Poller] = asked[Poller] /\ pc'[Poller] = pc[Poller]
    BY <1>0, <1>9 DEF Return, Goto
  <2> QED BY <2>1, <2>2 DEF Asking
<1>10. CASE WebRestart /\ ClientDies
  BY <1>0, <1>10 DEF ClientDies, Asking
<1>11. CASE Steady
  <2>1. polled' = polled
    BY <1>11 DEF Steady, Known, link
  <2>2. asked' = asked /\ \A t \in Threads : pc'[t] = "out" <=> pc[t] = "out"
    <3>1. ASSUME NEW t \in Threads, Own(t)
          PROVE  asked' = asked /\ \A u \in Threads : pc'[u] = "out" <=> pc[u] = "out"
      BY <3>1, OwnPlaces
    <3>2. ASSUME UNCHANGED rpcVars PROVE asked' = asked /\ pc' = pc
      BY <3>2 DEF rpcVars, client
    <3> QED BY <1>11, <3>1, <3>2 DEF Steady
  <2> QED BY <1>1, <2>1, <2>2
<1> QED BY <1>2, <1>3, <1>4, <1>5, <1>6, <1>7, <1>8, <1>9, <1>10, <1>11, LinkSteps

LEMMA SeenKept ==
  ASSUME boot \in Nat, now \in Nat, boot' \in Nat, now' \in Nat, boot <= boot', now <= now',
         NEW st, Seen(st)
  PROVE  Seen(st)'
<1>1. st.boot \in Nat /\ st.t \in Nat
  BY DEF Seen, States
<1> QED BY <1>1 DEF Seen

LEMMA ToldKept ==
  ASSUME now \in Nat, now' \in Nat, now <= now', UNCHANGED <<history, polled>>,
         polled # None /\ polled.boot = boot' => boot' = boot /\ Brought' = Brought,
         NEW h, Told(h)
  PROVE  Told(h)'
<1>1. h \in Seq(1..now')
  BY DEF Told
<1>2. (polled # None /\ polled.boot = boot => Brought \subseteq ToSet(h))'
  BY DEF Told
<1> QED BY <1>1, <1>2 DEF Told

\* A time not before the first of len times up to last is one of them.
LEMMA Place ==
  \A len, last, first, time \in Nat :
    first + len = last + 1 /\ time <= last /\ ~(time < first)
      => \E d \in 1..len : last + d = time + len
<1> SUFFICES ASSUME NEW len \in Nat, NEW last \in Nat, NEW first \in Nat, NEW time \in Nat,
                    first + len = last + 1, time <= last, ~(time < first)
             PROVE  \E d \in 1..len : last + d = time + len
  OBVIOUS
<1>1. time + len - last \in 1..len /\ last + (time + len - last) = time + len
  OBVIOUS
<1> QED BY <1>1

\* The controller's history is an answer like that.
LEMMA HistTold ==
  ASSUME Controller, Copy PROVE Told(hist)
<1>0. /\ hist \in Seq(1..now) /\ now \in Nat /\ Len(hist) \in Nat /\ n \in 0..Len(hist)
      /\ \A i \in DOMAIN hist : hist[i] + Len(hist) = now + i
      /\ history \in Seq(1..now)
  BY DEF Controller, Unbroken, Copy
<1>1. Ordered(hist)
  <2>0. \A i \in DOMAIN hist : hist[i] \in Nat /\ i \in Nat
    <3>1. DOMAIN hist = 1..Len(hist) /\ \A i \in DOMAIN hist : hist[i] \in Nat
      BY <1>0, SamplesType
    <3> QED BY <3>1
  <2> SUFFICES ASSUME NEW i \in DOMAIN hist, NEW j \in DOMAIN hist, i < j PROVE hist[i] < hist[j]
    BY DEF Ordered
  <2>1. hist[i] \in Nat /\ hist[j] \in Nat /\ i \in Nat /\ j \in Nat
    BY <2>0
  <2>2. hist[i] + Len(hist) = now + i /\ hist[j] + Len(hist) = now + j
    BY <1>0
  <2> QED BY <1>0, <2>1, <2>2
<1>2. ASSUME hist # <<>>, NEW i \in DOMAIN history, ~(history[i] < hist[1])
      PROVE  history[i] \in ToSet(hist)
  <2>1. /\ history[i] <= now /\ history[i] \in Nat /\ 1 \in DOMAIN hist /\ hist[1] \in Nat
        /\ DOMAIN hist = 1..Len(hist) /\ \A j \in DOMAIN hist : hist[j] \in Nat
    BY <1>0, <1>2, SamplesType
  <2>2. hist[1] + Len(hist) = now + 1 /\ now \in Nat /\ Len(hist) \in Nat
    BY <1>0, <2>1
  <2>3. PICK d \in 1..Len(hist) : now + d = history[i] + Len(hist)
    <3>1. history[i] \in Nat /\ hist[1] \in Nat /\ history[i] <= now
      BY <2>1
    <3>2. \E d \in 1..Len(hist) : now + d = history[i] + Len(hist)
      BY <1>2, <2>2, <3>1, Place
    <3> QED BY <3>2
  <2>4. hist[d] + Len(hist) = now + d /\ hist[d] \in Nat
    BY <1>0, <2>1
  <2>5. history[i] \in Nat /\ Len(hist) \in Nat /\ now \in Nat
    BY <1>0, <2>1
  <2>6. hist[d] = history[i]
    BY <2>3, <2>4, <2>5
  <2> QED BY <2>1, <2>6 DEF ToSet
<1>3. Brought \subseteq ToSet(hist)
  <2>1. \A i \in 1..(Len(hist) - n) : i \in DOMAIN hist
    BY <1>0
  <2> QED BY <2>1 DEF Brought, ToSet
<1> QED BY <1>0, <1>1, <1>2, <1>3 DEF Told

\* A setting that is in force stays so, or was not saved.
StaysInForce == \A s : InForce(s) => InForce(s)'

LEMMA ForceKept ==
  ASSUME UNCHANGED <<cfg, lost>> \/ Start PROVE StaysInForce
<1> SUFFICES ASSUME NEW s, InForce(s) PROVE InForce(s)'
  BY DEF StaysInForce
<1>1. CASE UNCHANGED <<cfg, lost>>
  BY <1>1 DEF InForce
<1>2. CASE Start
  BY <1>2 DEF Start, InForce
<1> QED BY <1>1, <1>2

LEMMA AnsweringStep ==
  ASSUME AsLink, LinkSafe, [LinkNext]_linkVars
  PROVE  Answering'
<1>0. Safe /\ Controller /\ Copy /\ Asking /\ Answering /\ Sticks
  BY DEF LinkSafe
<1>1. Controller'
  BY <1>0, ControllerStep
<1>2. /\ boot \in Nat /\ now \in Nat /\ boot' \in Nat /\ now' \in Nat /\ boot <= boot' /\ now <= now'
      /\ boot' # boot => boot' = boot + 1 /\ UNCHANGED <<history, polled, linkBoot, alone>>
      /\ boot' = boot => Brought' = Brought
      /\ now' # now => UNCHANGED <<rpcVars, boot, cfg, lost, history, polled, linkBoot, alone>>
  BY <1>0, <1>1, BroughtStep DEF Controller
<1>3. polled # None /\ polled.boot = boot' => boot' = boot /\ Brought' = Brought
  <2>1. polled # None => polled.boot \in Nat /\ polled.boot <= boot
    BY <1>0 DEF Copy, Seen, States
  <2> QED BY <1>2, <2>1
<1> SUFFICES ASSUME NEW x \in Heard' PROVE Fits(asked[x[1]].req, x[2])'
  BY DEF Answering
<1>4. x \in Heard => Fits(asked[x[1]].req, x[2])
  BY <1>0 DEF Answering
<1>5. ASSUME x \in Heard, asked'[x[1]] = asked[x[1]],
             asked[x[1]].req.op = "history" => UNCHANGED <<history, polled>>,
             asked[x[1]].req.op = "set" => alone' = alone /\ StaysInForce
      PROVE  Fits(asked[x[1]].req, x[2])'
  <2>1. asked[x[1]].req.op \in {"state", "set"} => Seen(x[2])'
    BY <1>2, <1>4, <1>5, SeenKept DEF Fits
  <2>2. asked[x[1]].req.op = "history" => Told(x[2])'
    BY <1>2, <1>3, <1>4, <1>5, ToldKept DEF Fits
  <2>3. asked[x[1]].req.op = "set" /\ alone' => InForce(asked[x[1]].req.setting)'
    BY <1>4, <1>5 DEF Fits, StaysInForce
  <2> QED BY <1>5, <2>1, <2>2, <2>3 DEF Fits
<1>6. ASSUME Silent PROVE x \in Heard /\ asked'[x[1]] = asked[x[1]]
  BY <1>0, <1>6, SilentHeard
<1>7. x \in Heard => /\ pc[x[1]] # "out"
                     /\ \/ x[1] = Gui /\ asked[x[1]].req.op = "set"
                        \/ /\ x[1] = Poller
                           /\ asked[x[1]].req.op = IF polled = None THEN "state" ELSE "history"
  BY <1>0, HeardOf
<1>8. Poller \in Threads /\ Gui \in Threads /\ Poller # Gui
  BY <1>0, LinkTypes
<1>9. CASE Sample /\ UNCHANGED rpcVars
  <2>1. Silent /\ UNCHANGED <<history, polled, alone, cfg, lost>>
    BY <1>9 DEF Sample, link, gui, Silent
  <2> QED BY <1>5, <1>6, <2>1, ForceKept
<1>10. CASE Dies
  <2>1. Silent /\ UNCHANGED <<history, polled, alone>>
    BY <1>10 DEF Dies, Stop, Crash, CrashInSet, link, gui, Silent
  <2>2. x \in Heard /\ asked'[x[1]] = asked[x[1]]
    BY <1>6, <2>1
  <2>3. CASE UNCHANGED <<cfg, lost>>
    BY <1>5, <2>1, <2>2, <2>3, ForceKept
  <2>4. ASSUME NEW c \in Conns, CrashInSet(c) PROVE Fits(asked[x[1]].req, x[2])'
    <3>1. Run(c) \in Sent /\ Run(c).op = "set" /\ cfg' = Run(c).setting
      BY <1>0, <2>4, RunIsSent DEF CrashInSet, Apply
    <3>2. CASE asked[x[1]].req.op = "set" /\ alone
      <4>1. x[1] = Gui /\ pc[Gui] # "out"
        BY <1>7, <2>2, <3>2
      <4>2. Run(c) = asked[Gui].req
        BY <1>0, <3>1, <3>2, <4>1 DEF Sticks
      <4>3. ~ asked[x[1]].req.op \in {"history"}
        BY <3>2
      <4>4. Seen(x[2])'
        BY <1>2, <1>4, <2>2, <3>2, SeenKept DEF Fits
      <4> QED BY <2>1, <2>2, <3>1, <3>2, <4>1, <4>2, <4>4 DEF Fits, InForce
    <3>3. CASE asked[x[1]].req.op = "set" /\ ~alone
      <4>1. Seen(x[2])'
        BY <1>2, <1>4, <2>2, <3>3, SeenKept DEF Fits
      <4> QED BY <2>1, <2>2, <3>3, <4>1 DEF Fits
    <3>4. CASE asked[x[1]].req.op # "set"
      BY <1>5, <2>1, <2>2, <3>4
    <3> QED BY <3>2, <3>3, <3>4
  <2> QED BY <1>10, <2>3, <2>4 DEF Dies, Stop, Crash, ctl
<1>11. CASE Start /\ ServerStarts
  <2>1. Silent /\ UNCHANGED <<history, polled, alone>>
    BY <1>11 DEF Start, link, gui, Silent
  <2> QED BY <1>5, <1>6, <1>11, <2>1, ForceKept
<1>12. ASSUME NEW c \in Conns, NEW a \in Answers, Serves(c, a)
       PROVE  Fits(asked[x[1]].req, x[2])'
  <2>1. /\ asked' = asked /\ UNCHANGED <<boot, hist, now, n, history, polled, alone>>
        /\ Run(c) \in Sent /\ Reply(c, a)
    BY <1>12 DEF Serves, Reply, client
  <2>2. CASE x \in Heard
    <3>1. CASE UNCHANGED <<cfg, lost>>
      BY <1>5, <2>1, <2>2, <3>1, ForceKept
    <3>2. CASE Run(c).op = "set" /\ cfg' = Run(c).setting /\ asked[x[1]].req.op = "set"
      <4>1. x[1] = Gui /\ pc[Gui] # "out"
        BY <1>7, <2>2, <3>2
      <4>2. alone => Run(c) = asked[Gui].req
        BY <1>0, <2>1, <3>2, <4>1 DEF Sticks
      <4>3. Seen(x[2])'
        BY <1>2, <1>4, <2>2, <3>2, SeenKept DEF Fits
      <4> QED BY <2>1, <3>2, <4>1, <4>2, <4>3 DEF Fits, InForce
    <3>3. CASE asked[x[1]].req.op # "set"
      BY <1>5, <2>1, <2>2, <3>3
    <3> QED BY <1>12, <3>1, <3>2, <3>3 DEF Serves
  <2>3. CASE c = sock /\ x = <<owner, a>> /\ owner \in Threads /\ conns[c].req = <<asked[owner]>>
    <3>1. x[1] = owner /\ x[2] = a /\ Run(c) = asked[owner].req
      BY <2>3 DEF Run
    <3>2. CASE Run(c).op = "state" /\ a = state /\ UNCHANGED state
      <4>1. Seen(state)'
        BY <1>1 DEF Controller
      <4> QED BY <2>1, <3>1, <3>2, <4>1 DEF Fits
    <3>3. CASE Run(c).op = "history" /\ a = hist /\ UNCHANGED state
      <4>1. Told(hist)
        BY <1>0, HistTold
      <4>2. Told(hist)'
        BY <1>2, <1>3, <2>1, <3>3, <4>1, ToldKept
      <4> QED BY <2>1, <3>1, <3>3, <4>2 DEF Fits
    <3>4. CASE Run(c).op = "set" /\ cfg' = Run(c).setting /\ state' = a
      <4>1. Seen(state)'
        BY <1>1 DEF Controller
      <4>2. Seen(a)'
        BY <3>4, <4>1 DEF Seen
      <4> QED BY <2>1, <3>1, <3>4, <4>2 DEF Fits, InForce
    <3> QED BY <1>12, <3>2, <3>3, <3>4 DEF Serves
  <2> QED BY <1>0, <2>1, <2>2, <2>3, ReplyHeard
<1>13. CASE (Poll /\ Call(Poller, [op |-> "state"])) \/ (AskHistory /\ Call(Poller, [op |-> "history"]))
  <2>1. UNCHANGED <<history, polled, alone, cfg, lost>>
    BY <1>13 DEF Poll, AskHistory, ctl, link, gui
  <2>2. Silent
    <3>1. [op |-> "state"] \in Requests /\ [op |-> "history"] \in Requests
      BY LinkConstants DEF Ops
    <3> QED BY <1>8, <1>13, <3>1 DEF Silent
  <2> QED BY <1>5, <1>6, <2>1, <2>2, ForceKept
<1>14. CASE (PollFails \/ Polled \/ Seed) /\ Return(Poller)
  <2>1. UNCHANGED <<alone, cfg, lost>>
    BY <1>14 DEF PollFails, Polled, Seed, ctl, gui
  <2>2. x \in Heard /\ x[1] # Poller /\ asked'[x[1]] = asked[x[1]]
    BY <1>0, <1>8, <1>14, ReturnHeard
  <2>3. asked[x[1]].req.op = "set"
    BY <1>7, <2>2
  <2> QED BY <1>5, <2>1, <2>2, <2>3, ForceKept
<1>15. ASSUME NEW s \in Settings, Set(s), Call(Gui, [op |-> "set", setting |-> s])
       PROVE  Fits(asked[x[1]].req, x[2])'
  <2>1. UNCHANGED <<history, polled>>
    BY <1>15 DEF Set, link
  <2>2. Silent
    <3>1. [op |-> "set", setting |-> s] \in Requests
      BY LinkConstants DEF Ops
    <3> QED BY <1>8, <1>15, <3>1 DEF Silent
  <2>3. pc[Gui] = "out"
    BY <1>15 DEF Call
  <2>4. x \in Heard /\ asked'[x[1]] = asked[x[1]]
    BY <1>6, <2>2
  <2>5. asked[x[1]].req.op # "set"
    BY <1>7, <2>3, <2>4
  <2> QED BY <1>5, <2>1, <2>4, <2>5
<1>16. CASE SetDone /\ Return(Gui)
  <2>1. UNCHANGED <<history, polled>>
    BY <1>16 DEF SetDone
  <2>2. x \in Heard /\ x[1] # Gui /\ asked'[x[1]] = asked[x[1]]
    BY <1>0, <1>8, <1>16, ReturnHeard
  <2>3. asked[x[1]].req.op # "set"
    BY <1>7, <2>2
  <2> QED BY <1>5, <2>1, <2>2, <2>3
<1>17. CASE ClientDies
  BY <1>0, <1>17, DeadHeard
<1>18. CASE Steady
  <2>1. UNCHANGED <<history, polled, alone, cfg, lost>>
    BY <1>18 DEF Steady, Known, ctl, link, gui
  <2>2. Silent
    BY <1>18 DEF Steady, Own, Silent
  <2> QED BY <1>5, <1>6, <2>1, <2>2, ForceKept
<1> QED BY <1>0, <1>9, <1>10, <1>11, <1>12, <1>13, <1>14, <1>15, <1>16, <1>17, <1>18, LinkSteps

-----------------------------------------------------------------------------
(* The copy *)

\* What the poller takes is what its request asked for.
LEMMA PollerHears ==
  ASSUME LinkSafe, Polled \/ Seed
  PROVE  /\ polled = None => Seen(Answer)
         /\ polled # None => Told(Answer)
<1>0. Safe /\ Asking /\ Answering
  BY DEF LinkSafe
<1>1. Poller \in Threads
  BY LinkConstants
<1>2. got[Poller] # Unavailable /\ pc[Poller] = "done"
  BY DEF Polled, Seed, Unavailable, Return
<1>3. <<Poller, Answer>> \in Heard
  BY <1>1, <1>2, HeardDone DEF Answer
<1>4. Fits(asked[Poller].req, Answer)
  BY <1>0, <1>3 DEF Answering
<1>5. asked[Poller].req.op = IF polled = None THEN "state" ELSE "history"
  BY <1>0, <1>2 DEF Asking
<1> QED BY <1>4, <1>5 DEF Fits

LEMMA PolledStep ==
  ASSUME LinkSafe, Polled
  PROVE  /\ now' = now /\ boot' = boot /\ UNCHANGED <<acked, alone>>
         /\ history' \in Seq(1..now) /\ Ordered(history') /\ ToSet(history) \subseteq ToSet(history')
         /\ latest' = latest \/ latest' \in States
         /\ polled' # None => Seen(polled')
         /\ linkBoot' = linkBoot
<1>0. now \in Nat /\ history \in Seq(1..now) /\ Ordered(history)
  BY DEF LinkSafe, Controller, Copy
<1>1. Seen(Answer)
  BY PollerHears DEF Polled
<1>2. Answer \in States /\ Answer.t \in 0..now
  BY <1>0, <1>1 DEF Seen, States
<1>3. /\ Extended(history, Answer) \in Seq(1..now) /\ Ordered(Extended(history, Answer))
      /\ ToSet(history) \subseteq ToSet(Extended(history, Answer))
  BY <1>0, <1>2, ExtendedOrdered
<1>4. now' = now /\ boot' = boot /\ UNCHANGED <<acked, alone>>
  BY DEF Polled, ctl, gui
<1>5. CASE Answer.boot = linkBoot
  BY <1>2, <1>3, <1>4, <1>5 DEF Polled, Publish
<1>6. CASE Answer.boot # linkBoot
  <2>1. polled' = Answer /\ UNCHANGED <<latest, history, linkBoot>>
    BY <1>6 DEF Polled
  <2> QED BY <1>0, <1>1, <1>4, <2>1
<1> QED BY <1>5, <1>6

LEMMA SeedStep ==
  ASSUME LinkSafe, Seed
  PROVE  /\ now' = now /\ boot' = boot /\ UNCHANGED <<acked, alone>>
         /\ history' \in Seq(1..now) /\ Ordered(history') /\ ToSet(history) \subseteq ToSet(history')
         /\ latest' \in States /\ polled' = None
         /\ linkBoot' = polled.boot /\ Seen(polled)
         /\ linkBoot' = boot => Brought \subseteq ToSet(history')
<1>0. now \in Nat /\ history \in Seq(1..now) /\ Ordered(history)
  BY DEF LinkSafe, Controller, Copy
<1>1. polled # None /\ Seen(polled)
  BY DEF Seed, LinkSafe, Copy
<1>2. polled \in States /\ polled.t \in 0..now
  BY <1>0, <1>1 DEF Seen, States
<1>3. Told(Answer)
  BY <1>1, PollerHears
<1>4. /\ Merged(Answer) \in Seq(1..now) /\ Ordered(Merged(Answer))
      /\ ToSet(Answer) \subseteq ToSet(Merged(Answer))
      /\ \A i \in DOMAIN history : \/ history[i] \in ToSet(Merged(Answer))
                                   \/ Answer # <<>> /\ history[i] >= Answer[1]
  BY <1>0, <1>3, MergedOrdered DEF Told
<1>5. ASSUME NEW i \in DOMAIN history PROVE history[i] \in ToSet(Merged(Answer))
  <2>1. CASE Answer # <<>> /\ history[i] >= Answer[1]
    <3>1. Answer \in Seq(1..now) /\ (history[i] < Answer[1] \/ history[i] \in ToSet(Answer))
      BY <1>3, <2>1 DEF Told
    <3>2. history[i] \in Nat /\ Answer[1] \in Nat
      BY <1>0, <2>1, <3>1
    <3> QED BY <1>4, <2>1, <3>1, <3>2
  <2> QED BY <1>4, <2>1
<1>6. ToSet(history) \subseteq ToSet(Merged(Answer))
  BY <1>5 DEF ToSet
<1> DEFINE new == Extended(Merged(Answer), polled)
<1>7. /\ new \in Seq(1..now) /\ Ordered(new)
      /\ ToSet(Merged(Answer)) \subseteq ToSet(new)
  BY <1>0, <1>2, <1>4, ExtendedOrdered
<1>8. /\ latest' = polled /\ polled' = None /\ linkBoot' = polled.boot /\ history' = new
      /\ now' = now /\ boot' = boot /\ UNCHANGED <<acked, alone>>
  BY DEF Seed, Publish, ctl, gui
<1>9. polled.boot = boot => Brought \subseteq ToSet(Answer)
  BY <1>1, <1>3 DEF Told
<1> HIDE DEF new
<1> QED BY <1>1, <1>2, <1>4, <1>6, <1>7, <1>8, <1>9

\* The copy of the history, while it is changed by the poller only.
LEMMA CopyUnchanged ==
  ASSUME AsLink, Safe, Controller, [LinkNext]_linkVars, ~Polled, ~Seed, ~WebRestart
  PROVE  UNCHANGED <<history, linkBoot>> /\ (polled' = polled \/ polled' = None)
<1>1. CASE Sample \/ Dies \/ Start \/ Steady \/ \E c \in Conns, a \in Answers : Serves(c, a)
  BY <1>1 DEF Sample, Dies, Stop, Crash, CrashInSet, Start, Steady, Known, Serves, link
<1>2. CASE Poll \/ AskHistory \/ (\E s \in Settings : Set(s)) \/ PollFails \/ SetDone
  BY <1>2 DEF Poll, AskHistory, Set, PollFails, SetDone, link
<1> QED BY <1>1, <1>2, LinkSteps

LEMMA CopyStep ==
  ASSUME AsLink, LinkSafe, [LinkNext]_linkVars
  PROVE  Copy'
<1>0. /\ Safe /\ Controller /\ Asking /\ Answering
      /\ history \in Seq(1..now) /\ Ordered(history)
      /\ latest = None \/ latest \in States
      /\ polled # None => Seen(polled)
      /\ linkBoot \in 0..boot
      /\ acked \in Settings \cup {None} /\ alone \in BOOLEAN
      /\ boot \in Nat /\ now \in Nat
  BY DEF LinkSafe, Copy, Controller
<1>1. boot <= boot' /\ now <= now' /\ now' \in Nat /\ boot' \in Nat
  BY <1>0, BroughtStep, ControllerStep DEF Controller
<1>2. CASE Polled
  <2>1. (polled # None => Seen(polled))'
    BY <1>2, PolledStep DEF Seen
  <2>2. linkBoot' \in 0..boot'
    BY <1>0, <1>2, PolledStep
  <2>3. Ordered(history)'
    BY <1>2, PolledStep DEF Ordered
  <2> QED BY <1>0, <1>2, <2>1, <2>2, <2>3, PolledStep DEF Copy
<1>3. CASE Seed
  <2>1. linkBoot' \in 0..boot'
    BY <1>0, <1>3, SeedStep DEF Seen, States
  <2>2. Ordered(history)'
    BY <1>3, SeedStep DEF Ordered
  <2> QED BY <1>0, <1>3, <2>1, <2>2, SeedStep DEF Copy
<1>4. CASE WebRestart
  <2>1. history' = <<>> /\ latest' = None /\ polled' = None /\ acked' = None /\ alone' = TRUE /\ linkBoot' = 0
    BY <1>4 DEF WebRestart
  <2>2. <<>> \in Seq(1..now') /\ Ordered(<<>>)
    BY DEF Ordered
  <2>3. Ordered(history)'
    BY <2>1 DEF Ordered
  <2> QED BY <1>0, <1>1, <2>1, <2>2, <2>3 DEF Copy
<1>5. CASE ~Polled /\ ~Seed /\ ~WebRestart
  <2>1. UNCHANGED <<history, linkBoot>> /\ (polled' = polled \/ polled' = None)
    BY <1>0, <1>5, CopyUnchanged
  <2>2. history' \in Seq(1..now')
    BY <1>0, <1>1, <2>1
  <2>3. (polled # None => Seen(polled))'
    <3>1. PICK st : st = polled
      OBVIOUS
    <3>2. st # None => Seen(st)'
      BY <1>0, <1>1, <3>1, SeenKept
    <3>3. polled' # None => polled' = st
      BY <2>1, <3>1
    <3> QED BY <3>2, <3>3 DEF Seen
  <2>4. linkBoot' \in 0..boot'
    BY <1>0, <1>1, <2>1
  <2>5. Ordered(history)'
    BY <1>0, <2>1 DEF Ordered
  <2>6. /\ latest' = None \/ latest' \in States
        /\ acked' \in Settings \cup {None} /\ alone' \in BOOLEAN
    <3>1. CASE UNCHANGED <<latest, acked, alone>>
      BY <1>0, <3>1
    <3>2. CASE Sample \/ Dies \/ Start \/ Steady \/ \E c \in Conns, a \in Answers : Serves(c, a)
      BY <3>1, <3>2 DEF Sample, Dies, Stop, Crash, CrashInSet, Start, Steady, Known, Serves,
                        link, gui
    <3>3. CASE Poll \/ AskHistory \/ PollFails
      BY <1>0, <3>3 DEF Poll, AskHistory, PollFails, link, gui
    <3>4. ASSUME NEW s \in Settings, Set(s)
          PROVE  latest' = latest /\ acked' = acked /\ alone' \in BOOLEAN
      BY <1>0, <3>4 DEF Set, link, Astray
    <3>5. CASE SetDone /\ Return(Gui)
      <4>1. alone' = TRUE
        BY <3>5 DEF SetDone
      <4>2. CASE got[Gui] = Unavailable
        BY <1>0, <3>5, <4>1, <4>2 DEF SetDone, Unavailable
      <4>3. CASE got[Gui] # Unavailable
        <5>1. Gui \in Threads /\ pc[Gui] = "done"
          BY <3>5, LinkConstants DEF Return
        <5>2. Fits(asked[Gui].req, got[Gui].answer)
          BY <1>0, <4>3, <5>1, HeardDone DEF Answering
        <5>3. asked[Gui].req.op = "set" /\ asked[Gui].req.setting \in Settings
          BY <1>0, <5>1 DEF Asking
        <5>4. got[Gui].answer \in States
          BY <5>2, <5>3 DEF Fits, Seen
        <5> QED BY <3>5, <4>1, <4>3, <5>3, <5>4 DEF SetDone, Unavailable
      <4> QED BY <4>2, <4>3
    <3> QED BY <1>0, <1>5, <3>2, <3>3, <3>4, <3>5, LinkSteps
  <2> QED BY <2>1, <2>2, <2>3, <2>4, <2>5, <2>6 DEF Copy
<1> QED BY <1>2, <1>3, <1>4, <1>5

LEMMA ShownStep ==
  ASSUME AsLink, LinkSafe, [LinkNext]_linkVars
  PROVE  Shown'
<1>0. /\ Safe /\ Controller /\ Copy /\ Shown /\ boot \in Nat /\ boot > 0 /\ linkBoot \in 0..boot
  BY DEF LinkSafe, Controller, Copy
<1>1. /\ boot <= boot'
      /\ boot' # boot => boot' = boot + 1 /\ UNCHANGED <<history, polled, linkBoot, alone>>
      /\ boot' = boot => Brought' = Brought
  BY <1>0, BroughtStep
<1>2. CASE boot' # boot
  BY <1>0, <1>1, <1>2 DEF Shown
<1>3. CASE boot' = boot /\ Polled
  BY <1>0, <1>1, <1>3, PolledStep DEF Shown
<1>4. CASE boot' = boot /\ Seed
  BY <1>0, <1>1, <1>4, SeedStep DEF Shown
<1>5. CASE boot' = boot /\ WebRestart
  <2>1. linkBoot' = 0
    BY <1>5 DEF WebRestart
  <2> QED BY <1>0, <1>5, <2>1 DEF Shown
<1>6. CASE boot' = boot /\ ~Polled /\ ~Seed /\ ~WebRestart
  BY <1>0, <1>1, <1>6, CopyUnchanged DEF Shown
<1> QED BY <1>2, <1>3, <1>4, <1>5, <1>6

-----------------------------------------------------------------------------
(* The settings *)

LEMMA SetsSent ==
  ASSUME Safe, Asking, Step, NEW r \in Sent', r.op = "set"
  PROVE  r \in Sent \/ (pc[Gui] = "send" /\ asked' = asked /\ r = asked[Gui].req)
<1>1. ASSUME NEW t \in Threads, pc[t] = "send", asked' = asked, r = asked[t].req
      PROVE  t = Gui
  <2>1. t # Poller
    BY <1>1 DEF Asking
  <2> QED BY <2>1, LinkTypes
<1> QED BY <1>1, SentStep

LEMMA AstraySent == Astray <=> \E r \in Sent : r.op = "set"
BY InSent DEF Astray

LEMMA SticksStep ==
  ASSUME AsLink, LinkSafe, [LinkNext]_linkVars
  PROVE  Sticks'
<1>0. /\ Safe /\ Controller /\ Asking /\ Answering /\ Sticks /\ Step
      /\ Gui \in Threads /\ Poller \in Threads /\ Gui # Poller
      /\ pc \in [Threads -> {"out", "lock", "send", "read", "done"}]
      /\ asked \in [Threads -> RequestLine \cup {Idle}]
  BY LinkStep, LinkTypes DEF LinkSafe
<1>1. ASSUME NEW r \in Sent', r.op = "set"
      PROVE  r \in Sent \/ (pc[Gui] = "send" /\ asked' = asked /\ r = asked[Gui].req)
  BY <1>0, <1>1, SetsSent
<1>2. ASSUME conns' = conns PROVE Sent' = Sent
  BY <1>2 DEF Sent
\* The steps that are not of the GUI's own.
<1>3. ASSUME (pc'[Gui] = "out") <=> (pc[Gui] = "out"), asked'[Gui] = asked[Gui],
             UNCHANGED <<acked, alone>>, StaysInForce \/ \E r \in Sent : r.op = "set"
      PROVE  Sticks'
  <2>1. ASSUME pc'[Gui] = "out", acked' # None
        PROVE  InForce(acked)' /\ \A r \in Sent' : r.op # "set"
    <3>1. pc[Gui] = "out" /\ InForce(acked) /\ \A r \in Sent : r.op # "set"
      BY <1>0, <1>3, <2>1 DEF Sticks
    <3>2. InForce(acked)'
      BY <1>3, <3>1 DEF StaysInForce, InForce
    <3> QED BY <1>1, <1>3, <3>1, <3>2
  <2>2. ASSUME pc'[Gui] # "out", alone', NEW r \in Sent', r.op = "set"
        PROVE  r = asked'[Gui].req
    <3>1. r \in Sent => r = asked[Gui].req
      BY <1>0, <1>3, <2>2 DEF Sticks
    <3> QED BY <1>1, <1>3, <2>2, <3>1
  <2> QED BY <2>1, <2>2 DEF Sticks
<1>4. CASE (Sample /\ UNCHANGED rpcVars) \/ (Start /\ ServerStarts)
  <2>1. UNCHANGED <<acked, alone>> /\ (UNCHANGED <<cfg, lost>> \/ Start)
    BY <1>4 DEF Sample, Start, gui
  <2>2. UNCHANGED <<pc, asked>>
    BY <1>4 DEF ServerStarts, rpcVars, client
  <2> QED BY <1>3, <2>1, <2>2, ForceKept
<1>5. CASE Dies
  <2>1. UNCHANGED <<acked, alone>>
    BY <1>5 DEF Dies, Stop, Crash, CrashInSet, gui
  <2>2. UNCHANGED <<pc, asked>>
    BY <1>5 DEF Dies, ServerDies, client
  <2>3. CASE Stop \/ Crash
    <3>1. UNCHANGED <<cfg, lost>>
      BY <2>3 DEF Stop, Crash, ctl
    <3> QED BY <1>3, <2>1, <2>2, <3>1, ForceKept
  <2>4. ASSUME NEW c \in Conns, CrashInSet(c) PROVE \E r \in Sent : r.op = "set"
    BY <1>0, <2>4, RunIsSent DEF CrashInSet
  <2> QED BY <1>3, <1>5, <2>1, <2>2, <2>3, <2>4 DEF Dies
<1>6. ASSUME NEW c \in Conns, NEW a \in Answers, Serves(c, a) PROVE Sticks'
  <2>1. UNCHANGED <<acked, alone>> /\ (UNCHANGED <<cfg, lost>> \/ \E r \in Sent : r.op = "set")
    BY <1>6 DEF Serves
  <2>2. UNCHANGED <<pc, asked>>
    BY <1>6 DEF Serves, Reply, client
  <2> QED BY <1>3, <2>1, <2>2, ForceKept
<1>7. CASE \/ Poll /\ Call(Poller, [op |-> "state"])
           \/ AskHistory /\ Call(Poller, [op |-> "history"])
  <2>1. UNCHANGED <<acked, alone, cfg, lost>>
    BY <1>7 DEF Poll, AskHistory, gui, ctl
  <2>2. pc'[Gui] = pc[Gui] /\ asked'[Gui] = asked[Gui]
    BY <1>0, <1>7 DEF Call, Goto
  <2> QED BY <1>3, <2>1, <2>2, ForceKept
<1>8. CASE (PollFails \/ Polled \/ Seed) /\ Return(Poller)
  <2>1. UNCHANGED <<acked, alone, cfg, lost>>
    BY <1>8 DEF PollFails, Polled, Seed, gui, ctl
  <2>2. pc'[Gui] = pc[Gui] /\ asked'[Gui] = asked[Gui]
    BY <1>0, <1>8 DEF Return, Goto
  <2> QED BY <1>3, <2>1, <2>2, ForceKept
<1>9. ASSUME NEW s \in Settings, Set(s), Call(Gui, [op |-> "set", setting |-> s])
      PROVE  Sticks'
  <2>1. pc'[Gui] = "lock" /\ Sent' = Sent
    BY <1>0, <1>2, <1>9 DEF Call, Goto
  <2>2. alone' = ~Astray
    BY <1>9 DEF Set
  <2>3. alone' => \A r \in Sent' : r.op # "set"
    BY <2>1, <2>2, AstraySent
  <2> QED BY <2>1, <2>3 DEF Sticks
<1>10. CASE SetDone /\ Return(Gui)
  <2>1. pc[Gui] = "done" /\ pc'[Gui] = "out" /\ Sent' = Sent /\ UNCHANGED <<cfg, lost>>
    BY <1>0, <1>2, <1>10 DEF SetDone, Return, Goto, ctl
  <2>2. ASSUME acked' # None
        PROVE  got[Gui] # Unavailable /\ alone /\ ~Astray /\ acked' = asked[Gui].req.setting
    BY <1>10, <2>2 DEF SetDone, Unavailable
  <2>3. ASSUME acked' # None PROVE InForce(acked)' /\ \A r \in Sent' : r.op # "set"
    <3>1. Fits(asked[Gui].req, got[Gui].answer)
      BY <1>0, <2>1, <2>2, <2>3, HeardDone DEF Answering
    <3>2. asked[Gui].req.op = "set"
      BY <1>0, <2>1 DEF Asking
    <3>3. InForce(acked)'
      BY <2>1, <2>2, <2>3, <3>1, <3>2 DEF Fits, InForce
    <3> QED BY <2>1, <2>2, <2>3, <3>3, AstraySent
  <2> QED BY <2>1, <2>3 DEF Sticks
<1>11. CASE WebRestart /\ ClientDies
  <2>1. acked' = None /\ pc'[Gui] = "out"
    BY <1>0, <1>11 DEF WebRestart, ClientDies
  <2> QED BY <2>1 DEF Sticks
<1>12. CASE Steady
  <2>1. UNCHANGED <<acked, alone, cfg, lost>>
    BY <1>12 DEF Steady, Known, gui, ctl
  <2>2. ASSUME NEW t \in Threads, Own(t)
        PROVE  asked' = asked /\ ((pc'[Gui] = "out") <=> (pc[Gui] = "out"))
    BY <1>0, <2>2, OwnPlaces
  <2>3. ASSUME UNCHANGED rpcVars PROVE asked' = asked /\ pc' = pc
    BY <2>3 DEF rpcVars, client
  <2>4. asked' = asked /\ ((pc'[Gui] = "out") <=> (pc[Gui] = "out"))
    BY <1>12, <2>2, <2>3 DEF Steady
  <2> QED BY <1>3, <2>1, <2>4, ForceKept
<1> QED BY <1>0, <1>4, <1>5, <1>6, <1>7, <1>8, <1>9, <1>10, <1>11, <1>12, LinkSteps

-----------------------------------------------------------------------------
LEMMA LinkBegins ==
  ASSUME LinkInit PROVE LinkSafe
<1>0. /\ Init /\ Poller \in Threads /\ Gui \in Threads
      /\ Default \in Settings /\ MaxTime \in Nat
  BY LinkConstants DEF LinkInit
<1>1. Safe
  BY <1>0, SafeInit
<1>2. /\ boot = 1 /\ cfg = Default /\ disk = Default /\ lost = FALSE /\ hist = <<>> /\ file = None /\ n = 0 /\ now = 0
      /\ state = [boot |-> 1, t |-> 0, cfg |-> Default]
      /\ latest = None /\ history = <<>> /\ linkBoot = 0 /\ polled = None
      /\ acked = None /\ alone = TRUE
  BY DEF LinkInit
<1>3. Sent = {}
  BY <1>0 DEF Init, Closed, Sent
<1>4. Heard = {}
  <2> SUFFICES ASSUME NEW x \in Heard PROVE FALSE
    OBVIOUS
  <2> QED BY <1>0, <1>1, InHeard DEF Init
<1>5. pc[Poller] = "out" /\ pc[Gui] = "out"
  BY <1>0 DEF Init
<1>6. \A T : <<>> \in Seq(T) /\ Len(<<>>) = 0 /\ DOMAIN <<>> = {}
  OBVIOUS
<1>7. Controller
  <2>1. boot \in Nat /\ boot > 0 /\ now \in 0..MaxTime /\ n \in 0..Len(hist) /\ Unbroken(hist)
    BY <1>0, <1>2, <1>6 DEF Unbroken
  <2>2. Seen(state)
    BY <1>0, <1>2 DEF Seen, States
  <2>3. cfg \in Settings /\ disk \in Settings /\ lost \in BOOLEAN /\ file = None
    BY <1>0, <1>2
  <2> QED BY <2>1, <2>2, <2>3 DEF Controller
<1>8. Copy
  BY <1>0, <1>2, <1>6 DEF Copy, Ordered
<1>9. Asking /\ Answering /\ Sticks
  BY <1>2, <1>3, <1>4, <1>5 DEF Asking, Answering, Sticks
<1>10. Shown
  BY <1>2 DEF Shown
<1> QED BY <1>1, <1>7, <1>8, <1>9, <1>10 DEF LinkSafe

LEMMA LinkKept ==
  ASSUME AsLink, LinkSafe, [LinkNext]_linkVars PROVE LinkSafe'
<1>1. Safe /\ Controller /\ Asking
  BY DEF LinkSafe
<1>2. Safe'
  BY <1>1, LinkStep, SafeStep
<1> QED BY <1>1, <1>2, ControllerStep, CopyStep, AskingStep, AnsweringStep, SticksStep, ShownStep
        DEF LinkSafe

LEMMA AlwaysLinkSafe ==
  ASSUME AsLink PROVE LinkSpec => []LinkSafe
<1>1. LinkInit => LinkSafe
  BY LinkBegins
<1>2. LinkSafe /\ [LinkNext]_linkVars => LinkSafe'
  BY LinkKept
<1> QED BY <1>1, <1>2, PTL DEF LinkSpec

\* The types of the link, with the samples and settings there are.
THEOREM LinkTypeCorrect ==
  ASSUME AsLink PROVE LinkSpec => []LinkTypeOK
<1>1. LinkSafe => LinkTypeOK
  BY DEF LinkSafe, Controller, Copy, Seen, Unbroken, LinkTypeOK
<1> QED BY <1>1, AlwaysLinkSafe, PTL

\* The plot is in the order of time and shows no sample twice.
THEOREM PlotInOrder ==
  ASSUME AsLink PROVE LinkSpec => []HistoryOrdered
<1>1. LinkSafe => HistoryOrdered
  BY DEF LinkSafe, Copy, Ordered, HistoryOrdered
<1> QED BY <1>1, AlwaysLinkSafe, PTL

\* What the controller brought over from its last clean stop is in the plot.
THEOREM BroughtIsShown ==
  ASSUME AsLink PROVE LinkSpec => []SavedShown
<1>1. ASSUME LinkSafe PROVE SavedShown
  <2> DEFINE old == Len(hist) - n
  <2>1. hist \in Seq(1..now) /\ Len(hist) \in Nat /\ old \in 0..Len(hist) /\ old \in Int
    BY <1>1 DEF LinkSafe, Controller, Unbroken
  <2> HIDE DEF old
  <2>2. \A i \in 1..old : hist[i] \in 1..now
    <3>1. \A i \in 1..Len(hist) : hist[i] \in 1..now
      BY <2>1, ElementOfSeq
    <3>2. \A i \in 1..old : i \in 1..Len(hist)
      BY <2>1
    <3> QED BY <3>1, <3>2
  <2>3. /\ SubSeq(hist, 1, old) \in Seq(1..now)
        /\ Len(SubSeq(hist, 1, old)) = IF 1 <= old THEN old - 1 + 1 ELSE 0
        /\ \A i \in 1..old - 1 + 1 : SubSeq(hist, 1, old)[i] = hist[1 + i - 1]
    BY <2>1, <2>2, SubSeqProperties
  <2>4. DOMAIN SubSeq(hist, 1, old) = 1..old
    <3>1. Len(SubSeq(hist, 1, old)) = old
      <4>1. old \in Nat
        BY <2>1
      <4> QED BY <2>3, <4>1
    <3>2. \A T : \A g \in Seq(T) : DOMAIN g = 1..Len(g)
      OBVIOUS
    <3> QED BY <2>3, <3>1, <3>2
  <2>5. \A i \in 1..old : SubSeq(hist, 1, old)[i] = hist[i]
    BY <2>1, <2>3
  <2>6. ToSet(SubSeq(hist, 1, old)) = Brought
    BY <2>4, <2>5 DEF ToSet, Brought, old
  <2> QED BY <1>1, <2>6 DEF LinkSafe, Shown, SavedShown, old
<1>2. LinkSafe => SavedShown
  BY <1>1
<1> QED BY <1>2, AlwaysLinkSafe, PTL

\* A setting that was acknowledged stays until the next request, unless its
\* save had failed and the controller was started again.
THEOREM AcknowledgedSticks ==
  ASSUME AsLink PROVE LinkSpec => []AckedSticks
<1>1. LinkSafe => AckedSticks
  BY DEF LinkSafe, Sticks, AckedSticks
<1> QED BY <1>1, AlwaysLinkSafe, PTL

\* The plot loses no sample it has shown until the web server starts again.
THEOREM PlotForgetsNothing ==
  ASSUME AsLink PROVE LinkSpec => NothingForgotten
<1>1. ASSUME LinkSafe, [LinkNext]_linkVars
      PROVE  linkBoot' = 0 \/ ToSet(history) \subseteq ToSet(history')
  <2>1. CASE Polled
    BY <1>1, <2>1, PolledStep
  <2>2. CASE Seed
    BY <1>1, <2>2, SeedStep
  <2>3. CASE WebRestart
    BY <2>3 DEF WebRestart
  <2>4. CASE ~Polled /\ ~Seed /\ ~WebRestart
    <3>1. history' = history
      BY <1>1, <2>4, CopyUnchanged DEF LinkSafe
    <3> QED BY <3>1
  <2> QED BY <2>1, <2>2, <2>3, <2>4
<1>2. LinkSafe /\ [LinkNext]_linkVars => [linkBoot' = 0 \/ ToSet(history) \subseteq ToSet(history')]_linkVars
  BY <1>1
<1> QED BY <1>2, AlwaysLinkSafe, PTL DEF LinkSpec, NothingForgotten

=============================================================================
