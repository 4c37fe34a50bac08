----------------------------- MODULE TftpServer ----------------------------
(***************************************************************************)
(* The TFTP server a board is recovered from (linux/tools/tftp_server.py): *)
(* main starts a thread with a socket of its own for every read request,   *)
(* also for one that the client or the network repeats, and each thread    *)
(* sends the file block by block, one acknowledgement at a time.           *)
(*                                                                         *)
(* The network loses, repeats and reorders packets. It does not keep one   *)
(* for as long as the transfer takes for MaxAge blocks: block numbers are  *)
(* sent modulo Wrap (2^16 in the code), and no protocol with such numbers  *)
(* stands packets that come back after Wrap blocks. Packets carry the full *)
(* number as well, to say what was delivered and when a packet expires.    *)
(*                                                                         *)
(* The client is U-Boot, which is not in the repository: it keeps to the   *)
(* thread that answered it first, and acknowledges what it has.            *)
(***************************************************************************)
EXTENDS Naturals, Sequences, FiniteSets

CONSTANTS
  Size, BlkSize,  \* of the file, and the size of a block
  Wrap,           \* 0x10000
  MaxAge,
  Retries,        \* RETRIES
  Tids,           \* bound: the transfers, numbered
  NoTid

ASSUME TftpConstants ==
  /\ Size \in Nat /\ BlkSize \in Nat \ {0}
  /\ Wrap \in Nat /\ MaxAge \in 1..Wrap - 1
  /\ Retries \in Nat \ {0}
  /\ NoTid \notin Tids

VARIABLES
  transfers,  \* of each thread: what it sends, which block, and how often
  net,        \* the packets on their way
  serving,    \* main runs
  tid,        \* the client: the transfer it reads
  file,       \* the blocks it has
  whole       \* it has seen the last block

client == <<tid, file, whole>>
vars == <<transfers, net, serving, client>>

-----------------------------------------------------------------------------
(* Blocks and packets *)

Smaller(a, b) == IF a < b THEN a ELSE b

\* f.read(blksize): full blocks, then the rest, which may be empty.
Chunk(b) ==
  IF (b - 1) * BlkSize > Size THEN 0 ELSE Smaller(BlkSize, Size - (b - 1) * BlkSize)

LastBlock == Size \div BlkSize + 1

\* Mutant of Number: fewer numbers than on the wire.
NumberLess(b) == b % (Wrap - 1)

Number(b) == b % Wrap

Request(options) == [kind |-> "RRQ", options |-> options]
Other == [kind |-> "other"]
Oack(t) == [kind |-> "OACK", tid |-> t, block |-> 0]
Data(t, b) == [kind |-> "DATA", tid |-> t, block |-> b, num |-> Number(b), len |-> Chunk(b)]
Ack(t, b) == [kind |-> "ACK", tid |-> t, block |-> b, num |-> Number(b)]
Error(t) == [kind |-> "ERROR", tid |-> t]

Blocks == 0..LastBlock
Packets ==
  {Request(o) : o \in BOOLEAN} \cup {Other} \cup {Oack(t) : t \in Tids}
    \cup {Data(p[1], p[2]) : p \in Tids \X Blocks} \cup {Ack(p[1], p[2]) : p \in Tids \X Blocks}
    \cup {Error(t) : t \in Tids}

Aged(p, t, b) ==
  /\ p.kind \in {"OACK", "DATA", "ACK"}
  /\ p.tid = t /\ p.block + MaxAge <= b

Init ==
  /\ transfers = [t \in Tids |-> [at |-> "none", block |-> 0, tries |-> 0]]
  /\ net = {}
  /\ serving = TRUE
  /\ tid = NoTid /\ file = <<>> /\ whole = FALSE

-----------------------------------------------------------------------------
(* The server *)

Waits(t) == transfers[t].at \in {"oack", "data"}

Packet(t) == IF transfers[t].at = "oack" THEN Oack(t) ELSE Data(t, transfers[t].block)

Ends(t, how) == transfers' = [transfers EXCEPT ![t].at = how]

\* The first sendto of send_wait for block b; what is too old has gone.
SendBlock(t, b) ==
  /\ transfers' = [transfers EXCEPT ![t] = [at |-> "data", block |-> b, tries |-> 1]]
  /\ net' = {p \in net : ~Aged(p, t, b)} \cup {Data(t, b)}

\* main: a read request gets a thread, whichever client sent it before.
Serve(p, t) ==
  /\ serving /\ p \in net /\ p.kind = "RRQ"
  /\ transfers[t].at = "none" /\ \A s \in Tids : s < t => transfers[s].at # "none"
  /\ IF p.options
       THEN /\ transfers' = [transfers EXCEPT ![t] = [at |-> "oack", block |-> 0, tries |-> 1]]
            /\ net' = net \cup {Oack(t)}
       ELSE SendBlock(t, 1)
  /\ UNCHANGED <<serving, client>>

\* main: writes, other packets and files that are not there get an error.
Refuse ==
  /\ serving /\ Other \in net
  /\ net' = net \ {Other}
  /\ UNCHANGED <<transfers, serving, client>>

\* Mutant of Wanted: any acknowledgement.
WantedAny(t, p) == TRUE

\* The acknowledgement that send_wait waits for.
Wanted(t, p) == p.num = Number(transfers[t].block)

Acked(t, p) ==
  /\ Waits(t) /\ p \in net /\ p.kind = "ACK" /\ p.tid = t
  /\ Wanted(t, p)
  /\ IF transfers[t].at = "data" /\ Chunk(transfers[t].block) < BlkSize
       THEN Ends(t, "sent") /\ UNCHANGED net
       ELSE SendBlock(t, transfers[t].block + 1)
  /\ UNCHANGED <<serving, client>>

Aborted(t) ==
  /\ Waits(t) /\ Error(t) \in net
  /\ Ends(t, "failed")
  /\ UNCHANGED <<net, serving, client>>

\* Mutant of Resend: without counting.
ResendForever(t) ==
  /\ Waits(t) /\ transfers[t].tries < Retries
  /\ net' = net \cup {Packet(t)}
  /\ UNCHANGED <<transfers, serving, client>>

\* A second without it: the same packet again, RETRIES times in all.
Resend(t) ==
  /\ Waits(t) /\ transfers[t].tries < Retries
  /\ transfers' = [transfers EXCEPT ![t].tries = @ + 1]
  /\ net' = net \cup {Packet(t)}
  /\ UNCHANGED <<serving, client>>

GiveUp(t) ==
  /\ Waits(t) /\ transfers[t].tries = Retries
  /\ Ends(t, "failed")
  /\ UNCHANGED <<net, serving, client>>

\* --lifetime, or the job that started the server is over: the threads are
\* daemons and end with it.
Exit ==
  /\ serving
  /\ serving' = FALSE
  /\ transfers' = [t \in Tids |-> IF Waits(t) THEN [transfers[t] EXCEPT !.at = "failed"]
                                             ELSE transfers[t]]
  /\ UNCHANGED <<net, client>>

-----------------------------------------------------------------------------
(* The client and the network *)

Ask ==
  /\ tid = NoTid
  /\ \E p \in {Request(o) : o \in BOOLEAN} \cup {Other} : net' = net \cup {p}
  /\ UNCHANGED <<transfers, serving, client>>

Mine(p) == tid \in {NoTid, p.tid}

TakeOack(p) ==
  /\ p \in net /\ p.kind = "OACK" /\ Mine(p) /\ file = <<>>
  /\ tid' = p.tid
  /\ net' = net \cup {Ack(p.tid, 0)}
  /\ UNCHANGED <<transfers, serving, file, whole>>

TakeData(p) ==
  /\ p \in net /\ p.kind = "DATA" /\ Mine(p)
  /\ ~whole /\ p.num = Number(Len(file) + 1)
  /\ tid' = p.tid
  /\ file' = Append(file, p.block) /\ whole' = (p.len < BlkSize)
  /\ net' = net \cup {Ack(p.tid, Len(file) + 1)}
  /\ UNCHANGED <<transfers, serving>>

\* Once more what it has: for a block that comes again, or after a timeout.
AckAgain ==
  /\ tid # NoTid
  /\ net' = net \cup {Ack(tid, Len(file))}
  /\ UNCHANGED <<transfers, serving, client>>

Abort ==
  /\ tid # NoTid
  /\ net' = net \cup {Error(tid)}
  /\ UNCHANGED <<transfers, serving, client>>

\* A packet that is received stays in net, and may be received again.
Lose(p) ==
  /\ p \in net
  /\ net' = net \ {p}
  /\ UNCHANGED <<transfers, serving, client>>

-----------------------------------------------------------------------------
Transfer(t) ==
  \/ \E p \in net : Serve(p, t) \/ Acked(t, p)
  \/ Aborted(t) \/ Resend(t) \/ GiveUp(t)

Next ==
  \/ \E t \in Tids : Transfer(t)
  \/ Refuse \/ Exit
  \/ Ask \/ AckAgain \/ Abort
  \/ \E p \in net : TakeOack(p) \/ TakeData(p) \/ Lose(p)

Spec == Init /\ [][Next]_vars

\* The wait of send_wait ends, whatever else arrives: it has a deadline.
FairSpec == Spec /\ \A t \in Tids : WF_vars(Resend(t) \/ GiveUp(t))

-----------------------------------------------------------------------------
(* Properties *)

TypeOK ==
  /\ transfers \in [Tids -> [at : {"none", "oack", "data", "sent", "failed"},
                             block : Blocks, tries : 0..Retries]]
  /\ net \subseteq Packets
  /\ serving \in BOOLEAN /\ whole \in BOOLEAN
  /\ tid \in Tids \cup {NoTid}
  /\ file \in Seq(Blocks)

(***************************************************************************)
(* What the client has is the file from its beginning, each block once and *)
(* in its place, over the wrap of the block numbers and with the answers   *)
(* to a repeated request mixed in, and all of the file when it has seen a  *)
(* short block, also when the size is a multiple of the block size         *)
(* (tftp_server.py:98-103, 155).                                           *)
(***************************************************************************)
FileInOrder ==
  /\ \A i \in DOMAIN file : file[i] = i
  /\ whole => Len(file) = LastBlock

(***************************************************************************)
(* A transfer that is logged as sent was received by its client            *)
(* (tftp_server.py:81, 105): a late acknowledgement never counts for a     *)
(* later block.                                                            *)
(***************************************************************************)
SentIsReceived == \A t \in Tids : transfers[t].at = "sent" => tid = t /\ whole

\* No thread stays: every transfer ends, sent or given up, also one that the
\* client does not read (tftp_server.py:70-86).
TransfersEnd == \A t \in Tids : Waits(t) ~> ~Waits(t)
=============================================================================
