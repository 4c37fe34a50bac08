----------------------------- MODULE RpcClient -----------------------------
(***************************************************************************)
(* The request/reply protocol of the three processes on the board: one     *)
(* line of JSON per request and reply over a Unix socket, with a server    *)
(* thread per connection (serve in fpga_access.py and in temp_control.py)  *)
(* and, in a client process, one connection that its threads share under a *)
(* lock (FpgaClient.call_raw, ControlClient.call).                         *)
(*                                                                         *)
(* What a client does when an exchange fails is the difference of the two  *)
(* clients, the constant Resends: FpgaClient sends a request again only    *)
(* when the connection was dropped, ControlClient also after a timeout.    *)
(*                                                                         *)
(* The name of a call is carried by its request and its reply to say which *)
(* belongs to which; the code has no such name.                            *)
(***************************************************************************)
EXTENDS Naturals, Sequences, FiniteSets

CONSTANTS
  Threads,      \* the client's threads
  NoOne,
  Conns,        \* names for connections: one is used again once it is over
  NoConn,
  Requests,
  Answers,
  Resends,      \* the failures after which a request is sent once more
  Names,        \* names of calls, used again like those of connections
  NoName,
  MaxFaults     \* bound: deaths of either process, handlers that raise

ASSUME RpcConstants ==
  /\ NoOne \notin Threads
  /\ NoConn \notin Conns
  /\ Resends \subseteq {"dropped", "timeout"}
  /\ NoName \notin Names
  /\ MaxFaults \in Nat

VARIABLES
  pc,       \* where each thread is: "out" of a call, at the "lock", about to
            \* "send", at the "read" of the reply, "done"
  asked,    \* the request of each thread's call
  got,      \* what its call returned
  owner,    \* the thread that holds the client's lock
  attempt,  \* the owner's attempt, 0 or 1
  sock,     \* the client's connection
  conns,    \* of each connection: is the server's side open, the requests
            \* that are not answered - the server's thread works on the first -
            \* and the replies on their way
  up,       \* the server process runs
  faults    \* deaths and exceptions so far

client == <<pc, asked, got, owner, attempt, sock>>
rpcVars == <<client, conns, up, faults>>

Idle == [id |-> NoName]
Unavailable == [id |-> NoName]
Closed == [open |-> FALSE, req |-> <<>>, rep |-> <<>>]

Init ==
  /\ pc = [t \in Threads |-> "out"]
  /\ asked = [t \in Threads |-> Idle]
  /\ got = [t \in Threads |-> Unavailable]
  /\ owner = NoOne /\ attempt = 0
  /\ sock = NoConn
  /\ conns = [c \in Conns |-> Closed]
  /\ up = TRUE
  /\ faults = 0

-----------------------------------------------------------------------------
(* The client *)

Goto(t, at) == pc' = [pc EXCEPT ![t] = at]

\* The calls of a connection that are not answered yet.
AtWork(c) == {conns[c].req[i].id : i \in DOMAIN conns[c].req}

\* The names in use: of a thread's call, at work, or of a reply on its way.
InUse ==
  {asked[t].id : t \in Threads}
    \cup (UNION {AtWork(c) : c \in Conns})
    \cup (UNION {{conns[c].rep[i].id : i \in DOMAIN conns[c].rep} : c \in Conns})

Free == Names \ InUse

Call(t, req) ==
  /\ pc[t] = "out" /\ Free # {}
  /\ Goto(t, "lock")
  /\ asked' = [asked EXCEPT ![t] = [id |-> CHOOSE n \in Free : TRUE, req |-> req]]
  /\ UNCHANGED <<got, owner, attempt, sock, conns, up, faults>>

Acquire(t) ==
  /\ pc[t] = "lock" /\ owner = NoOne
  /\ owner' = t /\ attempt' = 0
  /\ Goto(t, "send")
  /\ UNCHANGED <<asked, got, sock, conns, up, faults>>

\* The call of the owner is over, and the lock free.
Finish(t, result) ==
  /\ got' = [got EXCEPT ![t] = result]
  /\ Goto(t, "done")
  /\ owner' = NoOne

(***************************************************************************)
(* The except clause: the connection is closed whatever went wrong on it.  *)
(* Requests that the server has not read yet stay readable to it.          *)
(***************************************************************************)
Hung == [conns EXCEPT ![sock].rep = <<>>]

\* Mutant of GivesUp: a second attempt whatever went wrong.
GivesUpSecond(why) == attempt = 1

GivesUp(why) == attempt = 1 \/ why \notin Resends

\* Mutant of Failed: a connection whose reply is only late is kept.
FailedKeeps(t, why) ==
  /\ sock' = IF why = "timeout" THEN sock ELSE NoConn
  /\ conns' = IF sock = NoConn \/ why = "timeout" THEN conns ELSE Hung
  /\ \/ GivesUp(why) /\ Finish(t, Unavailable) /\ UNCHANGED attempt
     \/ ~GivesUp(why) /\ attempt' = attempt + 1 /\ Goto(t, "send") /\ UNCHANGED <<got, owner>>

Failed(t, why) ==
  /\ sock' = NoConn
  /\ conns' = IF sock = NoConn THEN conns ELSE Hung
  /\ \/ GivesUp(why) /\ Finish(t, Unavailable) /\ UNCHANGED attempt
     \/ ~GivesUp(why) /\ attempt' = attempt + 1 /\ Goto(t, "send") /\ UNCHANGED <<got, owner>>

\* A connection nobody uses: not the client's, and nothing left to work on.
Over(c) == c # sock /\ conns[c].req = <<>>

Connect(t) ==
  /\ pc[t] = "send" /\ sock = NoConn /\ up
  /\ \E c \in Conns : Over(c)
  /\ sock' = CHOOSE c \in Conns : Over(c)
  /\ conns' = [conns EXCEPT ![sock'] = [open |-> TRUE, req |-> <<asked[t]>>, rep |-> <<>>]]
  /\ Goto(t, "read")
  /\ UNCHANGED <<asked, got, owner, attempt, up, faults>>

Refused(t) ==
  /\ pc[t] = "send" /\ sock = NoConn /\ ~up
  /\ Failed(t, "dropped")
  /\ UNCHANGED <<asked, up, faults>>

Send(t) ==
  /\ pc[t] = "send" /\ sock # NoConn /\ conns[sock].open
  /\ conns' = [conns EXCEPT ![sock].req = Append(@, asked[t])]
  /\ Goto(t, "read")
  /\ UNCHANGED <<asked, got, owner, attempt, sock, up, faults>>

BrokenPipe(t) ==
  /\ pc[t] = "send" /\ sock # NoConn /\ ~conns[sock].open
  /\ Failed(t, "dropped")
  /\ UNCHANGED <<asked, up, faults>>

Receive(t) ==
  /\ pc[t] = "read" /\ conns[sock].rep # <<>>
  /\ Finish(t, Head(conns[sock].rep))
  /\ conns' = [conns EXCEPT ![sock].rep = Tail(@)]
  /\ UNCHANGED <<asked, attempt, sock, up, faults>>

EndOfFile(t) ==
  /\ pc[t] = "read" /\ conns[sock].rep = <<>> /\ ~conns[sock].open
  /\ Failed(t, "dropped")
  /\ UNCHANGED <<asked, up, faults>>

\* Mutant of Timeout: a socket without settimeout.
NoTimeout(t) == FALSE /\ UNCHANGED rpcVars

Timeout(t) ==
  /\ pc[t] = "read" /\ conns[sock].rep = <<>> /\ conns[sock].open
  /\ Failed(t, "timeout")
  /\ UNCHANGED <<asked, up, faults>>

Return(t) ==
  /\ pc[t] = "done"
  /\ Goto(t, "out")
  /\ asked' = [asked EXCEPT ![t] = Idle]
  /\ got' = [got EXCEPT ![t] = Unavailable]
  /\ UNCHANGED <<owner, attempt, sock, conns, up, faults>>

Fault == faults < MaxFaults /\ faults' = faults + 1

\* The client's process dies and is started again.
ClientDies ==
  /\ Fault
  /\ pc' = [t \in Threads |-> "out"]
  /\ asked' = [t \in Threads |-> Idle]
  /\ got' = [t \in Threads |-> Unavailable]
  /\ owner' = NoOne
  /\ sock' = NoConn
  /\ conns' = IF sock = NoConn THEN conns ELSE Hung
  /\ UNCHANGED <<attempt, up>>

-----------------------------------------------------------------------------
(* The server: a thread for each connection *)

(***************************************************************************)
(* The thread has handled the request and writes the reply. A reply to a   *)
(* client that has closed its side ends the thread, with all it had not    *)
(* read.                                                                   *)
(***************************************************************************)
Answered(c, answer) ==
  IF c = sock
    THEN [conns[c] EXCEPT !.req = Tail(@),
                          !.rep = Append(@, [id |-> Head(conns[c].req).id, answer |-> answer])]
    ELSE Closed

Reply(c, answer) ==
  /\ conns[c].req # <<>>
  /\ conns' = [conns EXCEPT ![c] = Answered(c, answer)]
  /\ UNCHANGED <<client, up, faults>>

\* An exception handle() does not catch ends the thread and its connection.
Raise(c) ==
  /\ conns[c].req # <<>> /\ Fault
  /\ conns' = [conns EXCEPT ![c] = Closed]
  /\ UNCHANGED <<client, up>>

ServerDies ==
  /\ up /\ Fault
  /\ up' = FALSE
  /\ conns' = [c \in Conns |-> [Closed EXCEPT !.rep = conns[c].rep]]
  /\ UNCHANGED <<client>>

ServerStarts ==
  /\ ~up
  /\ up' = TRUE
  /\ UNCHANGED <<client, conns, faults>>

-----------------------------------------------------------------------------
Exchange(t) ==
  \/ Connect(t) \/ Refused(t) \/ Send(t) \/ BrokenPipe(t)
  \/ Receive(t) \/ EndOfFile(t) \/ Timeout(t)

\* Bound: a call begins while there are connections left for every call.
Room == Cardinality({c \in Conns : Over(c)}) > Cardinality({t \in Threads : pc[t] # "out"})

Thread(t) ==
  \/ Room /\ \E req \in Requests : Call(t, req)
  \/ Acquire(t)
  \/ Exchange(t)
  \/ Return(t)

Server(c) ==
  \/ \E answer \in Answers : Reply(c, answer)
  \/ Raise(c)

Next ==
  \/ \E t \in Threads : Thread(t)
  \/ \E c \in Conns : Server(c)
  \/ ClientDies \/ ServerDies \/ ServerStarts

Spec == Init /\ [][Next]_rpcVars

\* A thread at the socket goes on: no call of it blocks for longer than the
\* timeout of two seconds. Nothing is assumed of the server.
FairSpec == Spec /\ \A t \in Threads : WF_rpcVars(Exchange(t))

-----------------------------------------------------------------------------
(* Properties *)

RequestLine == [id : Names, req : Requests]
ReplyLine == [id : Names, answer : Answers]
Connection == [open : BOOLEAN, req : Seq(RequestLine), rep : Seq(ReplyLine)]

\* The threads, the connection and what is on it are of their types.
TypeOK ==
  /\ pc \in [Threads -> {"out", "lock", "send", "read", "done"}]
  /\ asked \in [Threads -> RequestLine \cup {Idle}]
  /\ got \in [Threads -> ReplyLine \cup {Unavailable}]
  /\ owner \in Threads \cup {NoOne}
  /\ attempt \in {0, 1}
  /\ sock \in Conns \cup {NoConn}
  /\ conns \in [Conns -> Connection]
  /\ up \in BOOLEAN
  /\ faults \in 0..MaxFaults

(***************************************************************************)
(* A call that returns a reply returns the one to its own request, never   *)
(* a late one to a request that timed out (fpga_access.py:1247, the        *)
(* _close() on every failure).                                             *)
(***************************************************************************)
RepliesMatch ==
  \A t \in Threads :
    pc[t] = "done" /\ got[t] # Unavailable => got[t].id = asked[t].id

(***************************************************************************)
(* A client that resends only after a dropped connection never has the     *)
(* same request worked on twice at the same time: "the request may be      *)
(* running (a core load)" (fpga_access.py:1248-1249).                      *)
(***************************************************************************)
NeverTwiceAtOnce ==
  "timeout" \notin Resends =>
    \A c, d \in Conns : c # d => AtWork(c) \cap AtWork(d) = {}

(***************************************************************************)
(* A call does not hang, whatever the server does: the two attempts end,   *)
(* and the lock is given back (fpga_access.py:1233, 1250).                 *)
(***************************************************************************)
CallsEnd == \A t \in Threads : pc[t] = "send" ~> pc[t] \in {"done", "out"}

=============================================================================
