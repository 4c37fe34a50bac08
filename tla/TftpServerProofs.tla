-------------------------- MODULE TftpServerProofs -------------------------
(***************************************************************************)
(* Proofs about TftpServer, for any file, block size, number of transfers  *)
(* and numbers of blocks that wrap: what the client has is the file in     *)
(* order, and what is logged as sent was received.                         *)
(***************************************************************************)
EXTENDS TftpServer, SequenceTheorems, TLAPS

-----------------------------------------------------------------------------
(* Arithmetic *)

LEMMA DivMod ==
  ASSUME NEW a \in Nat, NEW w \in Nat \ {0}
  PROVE  /\ a \div w \in Nat /\ a % w \in Nat /\ a % w < w
         /\ a = w * (a \div w) + (a % w)
OBVIOUS

LEMMA Multiple ==
  ASSUME NEW w \in Nat \ {0}, NEW q \in Nat, NEW r \in Nat, q < r
  PROVE  w * r >= w * q + w
<1>1. ASSUME NEW k \in Nat PROVE w * k >= 0
  OBVIOUS
<1>2. w * (r - q - 1) >= 0
  BY <1>1
<1>3. w * r = w * q + w + w * (r - q - 1)
  OBVIOUS
<1>4. w * q \in Nat /\ w * r \in Nat /\ w * (r - q - 1) \in Nat
  OBVIOUS
<1> QED BY <1>2, <1>3, <1>4

\* Numbers that are closer than one round differ modulo the round.
LEMMA SameNumber ==
  ASSUME NEW a \in Nat, NEW b \in Nat, NEW w \in Nat \ {0}, a % w = b % w,
         a < b + w, b < a + w
  PROVE  a = b
<1>1. /\ a = w * (a \div w) + (a % w) /\ a \div w \in Nat
      /\ b = w * (b \div w) + (b % w) /\ b \div w \in Nat
      /\ w * (a \div w) \in Nat /\ w * (b \div w) \in Nat
  BY DivMod
<1>2. ~(a \div w < b \div w)
  BY <1>1, Multiple
<1>3. ~(b \div w < a \div w)
  BY <1>1, Multiple
<1>4. a \div w = b \div w
  BY <1>1, <1>2, <1>3
<1> QED BY <1>1, <1>4

\* A block is short from the last one on.
LEMMA ShortBlock ==
  /\ LastBlock \in Nat \ {0}
  /\ \A b \in Nat \ {0} : Chunk(b) < BlkSize <=> b >= LastBlock
<1> DEFINE q == Size \div BlkSize
<1>1. Size \in Nat /\ BlkSize \in Nat \ {0}
  BY TftpConstants
<1>2. q \in Nat /\ BlkSize * q <= Size /\ Size < BlkSize * q + BlkSize
  BY <1>1, DivMod
<1>3. LastBlock = q + 1
  BY DEF LastBlock
<1> HIDE DEF q
<1>4. ASSUME NEW b \in Nat \ {0} PROVE Chunk(b) < BlkSize <=> b * BlkSize > Size
  <2>1. (b - 1) * BlkSize \in Nat /\ b * BlkSize = (b - 1) * BlkSize + BlkSize
    BY <1>1
  <2> QED BY <1>1, <2>1 DEF Chunk, Smaller
<1>5. ASSUME NEW b \in Nat \ {0} PROVE b * BlkSize > Size <=> b > q
  <2>1. BlkSize * b = b * BlkSize /\ BlkSize * b \in Nat /\ BlkSize * q \in Nat
    BY <1>1, <1>2
  <2>2. b > q => BlkSize * b >= BlkSize * q + BlkSize
    BY <1>1, <1>2, Multiple
  <2>3. b < q => BlkSize * q >= BlkSize * b + BlkSize
    BY <1>1, <1>2, Multiple
  <2>4. b = q => BlkSize * b = BlkSize * q
    OBVIOUS
  <2>5. b > q \/ b < q \/ b = q
    BY <1>2
  <2> QED BY <1>1, <1>2, <2>1, <2>2, <2>3, <2>4, <2>5
<1> QED BY <1>2, <1>3, <1>4, <1>5

-----------------------------------------------------------------------------
(* The invariant *)

Have(t) == IF tid = t THEN Len(file) ELSE 0

\* The server is never ahead of what its client has acknowledged, and has sent
\* all that the client has.
LockStep ==
  /\ \A t \in Tids : transfers[t].block <= 1 + Have(t)
  /\ tid \in Tids => transfers[tid].at # "none" /\ Len(file) <= transfers[tid].block
  /\ tid = NoTid => file = <<>> /\ ~whole

Counted ==
  \A t \in Tids :
    /\ transfers[t].at \in {"none", "oack"} => transfers[t].block = 0
    /\ transfers[t].at = "data" => transfers[t].block >= 1

\* What is on its way is of a transfer there is, and of a block near its present one.
Known(p) ==
  /\ p.kind = "OACK" => transfers[p.tid].at # "none"
  /\ p.kind = "DATA" => /\ transfers[p.tid].at # "none"
                        /\ 1 <= p.block /\ p.block <= transfers[p.tid].block
                        /\ transfers[p.tid].block < p.block + MaxAge
  /\ p.kind = "ACK" => /\ p.tid = tid /\ p.block <= Len(file)
                       /\ transfers[p.tid].block <= p.block + MaxAge

NetKnown == \A p \in net : Known(p)

\* The client has the blocks from the first on, and knows the last one.
InOrder ==
  /\ \A i \in DOMAIN file : file[i] = i
  /\ whole <=> Len(file) >= 1 /\ Len(file) >= LastBlock

IInv == TypeOK /\ LockStep /\ Counted /\ NetKnown /\ InOrder /\ SentIsReceived

-----------------------------------------------------------------------------
(* Packets *)

LEMMA Constants ==
  /\ Wrap \in Nat \ {0} /\ MaxAge \in Nat /\ 1 <= MaxAge /\ MaxAge < Wrap
  /\ Retries \in Nat \ {0} /\ NoTid \notin Tids
  /\ LastBlock \in Nat \ {0} /\ Blocks \subseteq Nat
  /\ 0 \in Blocks /\ 1 \in Blocks
<1>1. MaxAge \in 1..Wrap - 1 /\ Wrap \in Nat
  BY TftpConstants
<1>2. LastBlock \in Nat \ {0}
  BY ShortBlock
<1> QED BY <1>1, <1>2, TftpConstants DEF Blocks

LEMMA PacketForms ==
  ASSUME NEW p \in Packets
  PROVE  /\ p.kind \in {"OACK", "DATA", "ACK", "ERROR"} => p.tid \in Tids
         /\ p.kind = "DATA" => p.block \in Blocks /\ p.num = Number(p.block) /\ p.len = Chunk(p.block)
         /\ p.kind = "ACK" => p.block \in Blocks /\ p.num = Number(p.block)
         /\ p.kind = "OACK" => p.block = 0
<1>1. CASE p \in {Request(o) : o \in BOOLEAN} \cup {Other}
  BY <1>1 DEF Request, Other
<1>2. CASE p \in {Oack(t) : t \in Tids} \cup {Error(t) : t \in Tids}
  BY <1>2 DEF Oack, Error
<1>3. CASE p \in {Data(q[1], q[2]) : q \in Tids \X Blocks}
  BY <1>3 DEF Data
<1>4. CASE p \in {Ack(q[1], q[2]) : q \in Tids \X Blocks}
  BY <1>4 DEF Ack
<1> QED BY <1>1, <1>2, <1>3, <1>4 DEF Packets

LEMMA PacketsThere ==
  ASSUME NEW t \in Tids, NEW b \in Blocks
  PROVE  /\ Data(t, b) \in Packets /\ Ack(t, b) \in Packets
         /\ Oack(t) \in Packets /\ Error(t) \in Packets
<1>1. <<t, b>> \in Tids \X Blocks /\ <<t, b>>[1] = t /\ <<t, b>>[2] = b
  OBVIOUS
<1> QED BY <1>1 DEF Packets

LEMMA NewPackets ==
  ASSUME NEW t, NEW b
  PROVE  /\ Data(t, b).kind = "DATA" /\ Data(t, b).tid = t /\ Data(t, b).block = b
         /\ Ack(t, b).kind = "ACK" /\ Ack(t, b).tid = t /\ Ack(t, b).block = b
         /\ Oack(t).kind = "OACK" /\ Oack(t).tid = t
         /\ Error(t).kind = "ERROR" /\ Other.kind = "other"
         /\ \A o \in BOOLEAN : Request(o).kind = "RRQ"
BY DEF Data, Ack, Oack, Error, Other, Request

\* An acknowledgement with the number of the present block is of this block.
LEMMA AckIsOfBlock ==
  ASSUME IInv, NEW t \in Tids, NEW p \in net, p.kind = "ACK", p.tid = t, Wanted(t, p)
  PROVE  /\ p.block = transfers[t].block /\ tid = t /\ transfers[t].block <= Len(file)
<1>1. p \in Packets /\ transfers[t].block \in Blocks
  BY DEF IInv, TypeOK
<1>2. p.block \in Nat /\ transfers[t].block \in Nat /\ p.num = Number(p.block)
  BY <1>1, PacketForms, Constants
<1>3. p.tid = tid /\ p.block <= Len(file) /\ transfers[t].block <= p.block + MaxAge
  BY DEF IInv, NetKnown, Known
<1>4. transfers[t].block <= 1 + Len(file) /\ Len(file) <= transfers[t].block /\ Len(file) \in Nat
  BY <1>3 DEF IInv, LockStep, Have, TypeOK
<1>5. p.block % Wrap = transfers[t].block % Wrap
  BY <1>2 DEF Wanted, Number
<1>6. p.block < transfers[t].block + Wrap /\ transfers[t].block < p.block + Wrap
  BY <1>2, <1>3, <1>4, Constants
<1>7. p.block = transfers[t].block
  BY <1>2, <1>5, <1>6, SameNumber, Constants
<1> QED BY <1>3, <1>7

\* A block with the next number is the next block.
LEMMA DataIsNext ==
  ASSUME IInv, NEW p \in net, p.kind = "DATA", Mine(p), p.num = Number(Len(file) + 1)
  PROVE  /\ p.tid \in Tids /\ p.block = Len(file) + 1 /\ p.block \in Blocks
         /\ p.block <= transfers[p.tid].block /\ transfers[p.tid].at # "none"
         /\ transfers[p.tid].block < p.block + MaxAge
<1>1. p \in Packets /\ Len(file) \in Nat
  BY DEF IInv, TypeOK
<1>2. p.tid \in Tids /\ p.block \in Blocks /\ p.block \in Nat /\ p.num = Number(p.block)
  BY <1>1, PacketForms, Constants
<1>3. transfers[p.tid].block \in Nat
  BY <1>2, Constants DEF IInv, TypeOK
<1>4. /\ 1 <= p.block /\ p.block <= transfers[p.tid].block /\ transfers[p.tid].at # "none"
      /\ transfers[p.tid].block < p.block + MaxAge
  BY DEF IInv, NetKnown, Known
<1>5. transfers[p.tid].block <= 1 + Len(file)
  <2>1. CASE tid = p.tid
    BY <1>2, <2>1 DEF IInv, LockStep, Have
  <2>2. CASE tid # p.tid
    BY <1>1, <1>2, <1>3, <2>2 DEF IInv, LockStep, Have
  <2> QED BY <2>1, <2>2
<1>6. Len(file) <= transfers[p.tid].block
  <2>1. CASE tid = p.tid
    BY <1>2, <2>1 DEF IInv, LockStep
  <2>2. CASE tid = NoTid
    BY <1>3, <2>2 DEF IInv, LockStep
  <2> QED BY <2>1, <2>2 DEF Mine
<1>7. p.block % Wrap = (Len(file) + 1) % Wrap
  BY <1>2 DEF Number
<1>8. p.block < Len(file) + 1 + Wrap /\ Len(file) + 1 < p.block + Wrap
  BY <1>1, <1>2, <1>3, <1>4, <1>5, <1>6, Constants
<1>9. p.block = Len(file) + 1
  <2>1. Len(file) + 1 \in Nat
    BY <1>1
  <2> QED BY <2>1, <1>2, <1>7, <1>8, SameNumber, Constants
<1> QED BY <1>2, <1>4, <1>9

-----------------------------------------------------------------------------
(* The steps *)

LEMMA BlocksAre ==
  ASSUME TypeOK
  PROVE  /\ \A t \in Tids : transfers[t].block \in Blocks /\ transfers[t].block \in Nat
         /\ Len(file) \in Nat
<1>1. \A t \in Tids : transfers[t].block \in Blocks
  BY DEF TypeOK
<1>2. Len(file) \in Nat
  BY DEF TypeOK
<1> QED BY <1>1, <1>2, Constants

LEMMA InvInit == Init => IInv
<1> SUFFICES ASSUME Init PROVE IInv
  OBVIOUS
<1>1. TypeOK
  <2>1. [at |-> "none", block |-> 0, tries |-> 0] \in
           [at : {"none", "oack", "data", "sent", "failed"}, block : Blocks, tries : 0..Retries]
    BY Constants
  <2>2. transfers \in [Tids -> [at : {"none", "oack", "data", "sent", "failed"},
                               block : Blocks, tries : 0..Retries]]
    BY <2>1 DEF Init
  <2>3. <<>> \in Seq(Blocks)
    OBVIOUS
  <2> QED BY <2>2, <2>3 DEF Init, TypeOK
<1>2. LockStep /\ Counted /\ SentIsReceived
  BY Constants DEF Init, LockStep, Counted, SentIsReceived, Have
<1>3. NetKnown /\ InOrder
  BY Constants DEF Init, NetKnown, InOrder
<1> QED BY <1>1, <1>2, <1>3 DEF IInv

\* Steps that change neither a block nor the client.
LEMMA SameBlocks ==
  ASSUME IInv, UNCHANGED client, serving' \in BOOLEAN, net' \subseteq Packets,
         transfers' \in [Tids -> [at : {"none", "oack", "data", "sent", "failed"},
                                  block : Blocks, tries : 0..Retries]],
         \A t \in Tids : /\ transfers'[t].block = transfers[t].block
                         /\ \/ transfers'[t].at = transfers[t].at
                            \/ Waits(t) /\ transfers'[t].at = "failed",
         \A p \in net' : p \in net \/ Known(p)
  PROVE  IInv'
<1>1. TypeOK'
  BY DEF IInv, TypeOK, client
<1>2. LockStep' /\ Counted'
  BY DEF IInv, LockStep, Counted, Have, client, Waits
<1>3. ASSUME NEW p \in net' PROVE Known(p)'
  <2>1. Known(p) /\ p \in Packets
    BY <1>3 DEF IInv, NetKnown
  <2>2. p.kind \in {"OACK", "DATA", "ACK"} =>
          /\ transfers'[p.tid].block = transfers[p.tid].block
          /\ transfers[p.tid].at # "none" => transfers'[p.tid].at # "none"
    BY <2>1, PacketForms
  <2> QED BY <2>1, <2>2 DEF Known, client
<1>4. InOrder' /\ SentIsReceived'
  BY DEF IInv, InOrder, SentIsReceived, client
<1> QED BY <1>1, <1>2, <1>3, <1>4 DEF IInv, NetKnown

LEMMA SendBlockStep ==
  ASSUME IInv, NEW t \in Tids, NEW b \in Blocks, SendBlock(t, b), UNCHANGED <<serving, client>>,
         b = transfers[t].block + 1, b <= 1 + Have(t)
  PROVE  IInv'
<1>1. b \in Nat /\ b >= 1 /\ transfers[t].block \in Nat
  BY BlocksAre, Constants DEF IInv
<1>2. /\ transfers'[t].at = "data" /\ transfers'[t].block = b
      /\ \A u \in Tids \ {t} : transfers'[u] = transfers[u]
  BY DEF SendBlock, IInv, TypeOK
<1>3. TypeOK'
  <2>1. transfers' \in [Tids -> [at : {"none", "oack", "data", "sent", "failed"},
                                block : Blocks, tries : 0..Retries]]
    BY Constants DEF SendBlock, IInv, TypeOK
  <2>2. net' \subseteq Packets
    BY PacketsThere DEF SendBlock, IInv, TypeOK
  <2> QED BY <2>1, <2>2 DEF IInv, TypeOK, client
<1>4. LockStep'
  <2>1. \A u \in Tids : transfers'[u].block <= 1 + Have(u)
    BY <1>2 DEF IInv, LockStep
  <2>2. tid \in Tids => transfers'[tid].at # "none" /\ Len(file) <= transfers'[tid].block
    <3>1. Len(file) \in Nat
      BY DEF IInv, TypeOK
    <3> QED BY <1>1, <1>2, <3>1 DEF IInv, LockStep
  <2> QED BY <2>1, <2>2 DEF IInv, LockStep, Have, client
<1>5. Counted'
  BY <1>1, <1>2 DEF IInv, Counted
<1>6. ASSUME NEW p \in net' PROVE Known(p)'
  <2>1. CASE p = Data(t, b)
    BY <1>1, <1>2, <2>1, NewPackets, Constants DEF Known
  <2>2. CASE p # Data(t, b)
    <3>1. p \in net /\ ~Aged(p, t, b) /\ p \in Packets /\ Known(p)
      BY <2>2, <1>6 DEF SendBlock, IInv, NetKnown, TypeOK
    <3>2. CASE p.kind \in {"OACK", "DATA", "ACK"} /\ p.tid = t
      <4>1. p.block \in Nat
        BY <3>1, <3>2, PacketForms, Constants
      <4>2. b < p.block + MaxAge
        BY <1>1, <3>1, <3>2, <4>1, Constants DEF Aged
      <4> QED BY <1>1, <1>2, <3>1, <3>2, <4>1, <4>2, Constants DEF Known, client
    <3>3. CASE p.kind \in {"OACK", "DATA", "ACK"} /\ p.tid # t
      <4>1. transfers'[p.tid] = transfers[p.tid]
        BY <1>2, <3>1, <3>3, PacketForms
      <4> QED BY <3>1, <4>1 DEF Known, client
    <3>4. CASE p.kind \notin {"OACK", "DATA", "ACK"}
      BY <3>4 DEF Known
    <3> QED BY <3>2, <3>3, <3>4
  <2> QED BY <2>1, <2>2
<1>7. InOrder' /\ SentIsReceived'
  BY <1>2 DEF IInv, InOrder, SentIsReceived, client
<1> QED BY <1>3, <1>4, <1>5, <1>6, <1>7 DEF IInv, NetKnown

LEMMA ServeStep ==
  ASSUME IInv, NEW p \in net, NEW t \in Tids, Serve(p, t)
  PROVE  IInv'
<1>1. transfers[t].at = "none" /\ transfers[t].block = 0 /\ tid # t
  BY DEF Serve, IInv, Counted, LockStep
<1>2. CASE p.options
  <2>1. /\ transfers'[t].at = "oack" /\ transfers'[t].block = 0
        /\ \A u \in Tids \ {t} : transfers'[u] = transfers[u]
        /\ net' = net \cup {Oack(t)} /\ UNCHANGED <<serving, client>>
    BY <1>2 DEF Serve, IInv, TypeOK
  <2>2. TypeOK'
    <3>1. transfers' \in [Tids -> [at : {"none", "oack", "data", "sent", "failed"},
                                  block : Blocks, tries : 0..Retries]]
      BY <1>2, Constants DEF Serve, IInv, TypeOK
    <3>2. net' \subseteq Packets
      BY <2>1, PacketsThere, Constants DEF IInv, TypeOK
    <3> QED BY <2>1, <3>1, <3>2 DEF IInv, TypeOK, client
  <2>3. LockStep' /\ Counted'
    BY <1>1, <2>1 DEF IInv, LockStep, Counted, Have, client
  <2>4. ASSUME NEW q \in net' PROVE Known(q)'
    <3>1. CASE q = Oack(t)
      BY <2>1, <3>1, NewPackets DEF Known
    <3>2. CASE q # Oack(t)
      <4>1. q \in net /\ q \in Packets /\ Known(q)
        BY <2>1, <2>4, <3>2 DEF IInv, NetKnown, TypeOK
      <4>2. q.kind \in {"OACK", "DATA", "ACK"} => transfers'[q.tid] = transfers[q.tid]
        BY <1>1, <2>1, <4>1, PacketForms DEF Known
      <4> QED BY <2>1, <4>1, <4>2 DEF Known, client
    <3> QED BY <3>1, <3>2
  <2>5. InOrder' /\ SentIsReceived'
    BY <2>1 DEF IInv, InOrder, SentIsReceived, client
  <2> QED BY <2>2, <2>3, <2>4, <2>5 DEF IInv, NetKnown
<1>3. CASE ~p.options
  <2>1. SendBlock(t, 1) /\ UNCHANGED <<serving, client>>
    BY <1>3 DEF Serve
  <2>2. Have(t) \in Nat
    BY DEF Have, IInv, TypeOK
  <2> QED BY <1>1, <2>1, <2>2, SendBlockStep, Constants
<1> QED BY <1>2, <1>3

LEMMA AckedStep ==
  ASSUME IInv, NEW p \in net, NEW t \in Tids, Acked(t, p)
  PROVE  IInv'
<1>1. p.block = transfers[t].block /\ tid = t /\ transfers[t].block <= Len(file)
  BY AckIsOfBlock DEF Acked
<1>2. transfers[t].block \in Blocks /\ transfers[t].block \in Nat /\ Len(file) \in Nat
  BY BlocksAre DEF IInv
<1>3. Waits(t)
  BY DEF Acked
<1>4. CASE transfers[t].at = "data" /\ Chunk(transfers[t].block) < BlkSize
  <2>1. transfers[t].block >= LastBlock /\ transfers[t].block >= 1
    BY <1>2, <1>4, ShortBlock DEF IInv, Counted
  <2>2. whole
    BY <1>1, <1>2, <2>1, Constants DEF IInv, InOrder
  <2>3. /\ transfers' = [transfers EXCEPT ![t].at = "sent"] /\ UNCHANGED <<net, serving, client>>
    BY <1>4 DEF Acked, Ends
  <2>4. /\ transfers'[t].at = "sent" /\ transfers'[t].block = transfers[t].block
        /\ \A u \in Tids \ {t} : transfers'[u] = transfers[u]
    BY <2>3 DEF IInv, TypeOK
  <2>5. TypeOK'
    BY <2>3 DEF IInv, TypeOK, client
  <2>6. LockStep' /\ Counted'
    BY <2>3, <2>4 DEF IInv, LockStep, Counted, Have, client
  <2>7. ASSUME NEW q \in net' PROVE Known(q)'
    <3>1. Known(q) /\ q \in Packets
      BY <2>3, <2>7 DEF IInv, NetKnown, TypeOK
    <3>2. q.kind \in {"OACK", "DATA", "ACK"} =>
            /\ transfers'[q.tid].block = transfers[q.tid].block
            /\ transfers[q.tid].at # "none" => transfers'[q.tid].at # "none"
      BY <2>4, <3>1, PacketForms
    <3> QED BY <2>3, <3>1, <3>2 DEF Known, client
  <2>8. InOrder' /\ SentIsReceived'
    BY <1>1, <2>2, <2>3, <2>4 DEF IInv, InOrder, SentIsReceived, client
  <2> QED BY <2>5, <2>6, <2>7, <2>8 DEF IInv, NetKnown
<1>5. CASE ~(transfers[t].at = "data" /\ Chunk(transfers[t].block) < BlkSize)
  <2>1. SendBlock(t, transfers[t].block + 1) /\ UNCHANGED <<serving, client>>
    BY <1>5 DEF Acked
  <2>2. transfers[t].block + 1 <= LastBlock
    <3>1. CASE transfers[t].at = "oack"
      BY <3>1, Constants DEF IInv, Counted
    <3>2. CASE transfers[t].at = "data"
      <4>1. transfers[t].block \in Nat \ {0}
        BY <1>2, <3>2 DEF IInv, Counted
      <4>2. ~(transfers[t].block >= LastBlock)
        BY <1>5, <3>2, <4>1, ShortBlock
      <4> QED BY <4>1, <4>2, Constants
    <3> QED BY <1>3, <3>1, <3>2 DEF Waits
  <2>3. transfers[t].block + 1 \in Blocks
    BY <1>2, <2>2, Constants DEF Blocks
  <2>4. transfers[t].block + 1 <= 1 + Have(t)
    BY <1>1, <1>2 DEF Have
  <2> QED BY <2>1, <2>3, <2>4, SendBlockStep
<1> QED BY <1>4, <1>5

LEMMA TakeOackStep ==
  ASSUME IInv, NEW p \in net, TakeOack(p)
  PROVE  IInv'
<1>1. p \in Packets /\ p.kind = "OACK" /\ p.tid \in Tids /\ transfers[p.tid].at # "none"
  BY PacketForms DEF TakeOack, IInv, TypeOK, NetKnown, Known
<1>2. /\ tid' = p.tid /\ file = <<>> /\ net' = net \cup {Ack(p.tid, 0)}
      /\ UNCHANGED <<transfers, serving, file, whole>> /\ (tid = NoTid \/ tid = p.tid)
  BY DEF TakeOack, Mine
<1>3. \A t \in Tids : transfers[t].block \in Nat
  BY Constants DEF IInv, TypeOK
<1>4. \A t \in Tids : Have(t) = 0 /\ Have(t)' = 0
  BY <1>2 DEF Have
<1>5. TypeOK'
  BY <1>1, <1>2, PacketsThere, Constants DEF IInv, TypeOK
<1>6. LockStep' /\ Counted'
  <2>1. \A t \in Tids : transfers[t].block <= 1
    BY <1>4 DEF IInv, LockStep
  <2> QED BY <1>1, <1>2, <1>3, <1>4, <2>1, Constants DEF IInv, LockStep, Counted
<1>7. ASSUME NEW q \in net' PROVE Known(q)'
  <2>1. CASE q = Ack(p.tid, 0)
    <3>1. transfers[p.tid].block <= 1 /\ transfers[p.tid].block \in Nat
      BY <1>1, <1>3, <1>4 DEF IInv, LockStep
    <3> QED BY <1>2, <2>1, <3>1, NewPackets, Constants DEF Known
  <2>2. CASE q # Ack(p.tid, 0)
    <3>1. Known(q) /\ q \in Packets
      BY <1>2, <1>7, <2>2 DEF IInv, NetKnown, TypeOK
    <3>2. q.kind = "ACK" => q.tid \in Tids /\ q.tid = tid /\ tid' = tid
      BY <1>2, <3>1, PacketForms, Constants DEF Known
    <3> QED BY <1>2, <3>1, <3>2 DEF Known
  <2> QED BY <2>1, <2>2
<1>8. InOrder'
  BY <1>2 DEF IInv, InOrder
<1>9. SentIsReceived'
  BY <1>1, <1>2, Constants DEF IInv, SentIsReceived
<1> QED BY <1>5, <1>6, <1>7, <1>8, <1>9 DEF IInv, NetKnown

LEMMA TakeDataStep ==
  ASSUME IInv, NEW p \in net, TakeData(p)
  PROVE  IInv'
<1>1. /\ p.tid \in Tids /\ p.block = Len(file) + 1 /\ p.block \in Blocks
      /\ p.block <= transfers[p.tid].block /\ transfers[p.tid].at # "none"
      /\ transfers[p.tid].block < p.block + MaxAge
  BY DataIsNext DEF TakeData
<1>2. p \in Packets /\ p.len = Chunk(p.block)
  BY PacketForms DEF TakeData, IInv, TypeOK
<1>3. /\ tid' = p.tid /\ file' = Append(file, p.block) /\ whole' = (p.len < BlkSize)
      /\ net' = net \cup {Ack(p.tid, Len(file) + 1)} /\ UNCHANGED <<transfers, serving>>
      /\ (tid = NoTid \/ tid = p.tid) /\ ~whole
  BY DEF TakeData, Mine
<1>4. /\ Len(file) \in Nat /\ file \in Seq(Blocks) /\ file' \in Seq(Blocks)
      /\ Len(file') = Len(file) + 1 /\ file'[Len(file) + 1] = p.block
      /\ \A i \in 1..Len(file) : file'[i] = file[i]
  BY <1>1, <1>3, AppendProperties DEF IInv, TypeOK
<1>5. \A t \in Tids : transfers[t].block \in Nat
  BY Constants DEF IInv, TypeOK
<1>6. TypeOK'
  <2>1. net' \subseteq Packets
    BY <1>1, <1>3, PacketsThere DEF IInv, TypeOK
  <2>2. whole' \in BOOLEAN
    BY <1>3
  <2> QED BY <1>1, <1>3, <1>4, <2>1, <2>2 DEF IInv, TypeOK
<1>7. LockStep' /\ Counted'
  <2>1. ASSUME NEW t \in Tids PROVE transfers'[t].block <= 1 + Have(t)'
    <3>1. transfers[t].block <= 1 + Have(t) /\ (t = p.tid => Have(t) <= Len(file)) /\ (t # p.tid => Have(t) = 0)
      BY <1>3, <1>4, Constants DEF IInv, LockStep, Have
    <3>2. Have(t)' = IF p.tid = t THEN Len(file) + 1 ELSE 0
      BY <1>3, <1>4 DEF Have
    <3>3. Have(t) \in Nat /\ transfers'[t] = transfers[t] /\ transfers[t].block \in Nat
      BY <1>3, <1>4, <1>5 DEF Have
    <3> QED BY <1>4, <3>1, <3>2, <3>3
  <2>2. transfers'[tid'].at # "none" /\ Len(file') <= transfers'[tid'].block
    BY <1>1, <1>3, <1>4
  <2> QED BY <1>1, <1>3, <2>1, <2>2, Constants DEF IInv, LockStep, Counted
<1>8. ASSUME NEW q \in net' PROVE Known(q)'
  <2>1. CASE q = Ack(p.tid, Len(file) + 1)
    BY <1>1, <1>3, <1>4, <1>5, <2>1, NewPackets, Constants DEF Known
  <2>2. CASE q # Ack(p.tid, Len(file) + 1)
    <3>1. Known(q) /\ q \in Packets
      BY <1>3, <1>8, <2>2 DEF IInv, NetKnown, TypeOK
    <3>2. q.kind = "ACK" => q.tid \in Tids /\ q.tid = tid /\ tid' = tid /\ q.block \in Nat
      BY <1>3, <3>1, PacketForms, Constants DEF Known
    <3> QED BY <1>3, <1>4, <3>1, <3>2 DEF Known
  <2> QED BY <2>1, <2>2
<1>9. InOrder'
  <2>1. \A i \in DOMAIN file' : file'[i] = i
    <3>1. DOMAIN file' = 1..Len(file) + 1 /\ DOMAIN file = 1..Len(file)
      BY <1>4
    <3> QED BY <1>1, <1>4, <3>1 DEF IInv, InOrder
  <2>2. whole' <=> Len(file') >= LastBlock
    <3>1. p.block \in Nat \ {0}
      BY <1>1, <1>4
    <3>2. whole' <=> Chunk(p.block) < BlkSize
      BY <1>2, <1>3
    <3> QED BY <1>1, <1>4, <3>1, <3>2, ShortBlock
  <2> QED BY <1>4, <2>1, <2>2 DEF InOrder
<1>10. SentIsReceived'
  <2>1. \A t \in Tids : transfers[t].at # "sent"
    BY <1>3 DEF IInv, SentIsReceived
  <2> QED BY <1>3, <2>1 DEF SentIsReceived
<1> QED BY <1>6, <1>7, <1>8, <1>9, <1>10 DEF IInv, NetKnown

LEMMA InvStep == IInv /\ [Next]_vars => IInv'
<1> SUFFICES ASSUME IInv, [Next]_vars PROVE IInv'
  OBVIOUS
<1>0. TypeOK /\ net \subseteq Packets
  BY DEF IInv, TypeOK
<1>1. ASSUME NEW t \in Tids, Transfer(t) PROVE IInv'
  <2>1. ASSUME NEW p \in net, Serve(p, t) \/ Acked(t, p) PROVE IInv'
    BY <2>1, ServeStep, AckedStep
  <2>2. ASSUME Aborted(t) \/ GiveUp(t) PROVE IInv'
    <3>1. /\ Waits(t) /\ transfers' = [transfers EXCEPT ![t].at = "failed"]
          /\ UNCHANGED <<net, serving, client>>
      BY <2>2 DEF Aborted, GiveUp, Ends
    <3>2. /\ transfers'[t].at = "failed" /\ transfers'[t].block = transfers[t].block
          /\ \A u \in Tids \ {t} : transfers'[u] = transfers[u]
      BY <1>0, <3>1 DEF TypeOK
    <3>3. transfers' \in [Tids -> [at : {"none", "oack", "data", "sent", "failed"},
                                  block : Blocks, tries : 0..Retries]]
      BY <1>0, <3>1 DEF TypeOK
    <3> QED BY <1>0, <3>1, <3>2, <3>3, SameBlocks DEF TypeOK
  <2>3. ASSUME Resend(t) PROVE IInv'
    <3>1. /\ Waits(t) /\ transfers[t].tries < Retries
          /\ transfers' = [transfers EXCEPT ![t].tries = transfers[t].tries + 1]
          /\ net' = net \cup {Packet(t)} /\ UNCHANGED <<serving, client>>
      BY <2>3 DEF Resend
    <3>2. /\ transfers'[t].at = transfers[t].at /\ transfers'[t].block = transfers[t].block
          /\ \A u \in Tids \ {t} : transfers'[u] = transfers[u]
      BY <1>0, <3>1 DEF TypeOK
    <3>3. transfers[t].tries + 1 \in 0..Retries /\ transfers[t].block \in Blocks /\ transfers[t].block \in Nat
      BY <1>0, <3>1, Constants DEF TypeOK
    <3>4. transfers' \in [Tids -> [at : {"none", "oack", "data", "sent", "failed"},
                                  block : Blocks, tries : 0..Retries]]
      BY <1>0, <3>1, <3>3 DEF TypeOK
    <3>5. Packet(t) \in Packets /\ Known(Packet(t))
      <4>1. CASE transfers[t].at = "oack"
        BY <4>1, PacketsThere, NewPackets, Constants DEF Packet, Known
      <4>2. CASE transfers[t].at = "data"
        <5>1. transfers[t].block >= 1
          BY <4>2 DEF IInv, Counted
        <5> QED BY <3>3, <4>2, <5>1, PacketsThere, NewPackets, Constants DEF Packet, Known
      <4> QED BY <3>1, <4>1, <4>2 DEF Waits
    <3> QED BY <1>0, <3>1, <3>2, <3>4, <3>5, SameBlocks DEF TypeOK
  <2> QED BY <1>1, <2>1, <2>2, <2>3 DEF Transfer
<1>2. CASE Exit
  <2>1. /\ transfers' = [t \in Tids |-> IF Waits(t) THEN [transfers[t] EXCEPT !.at = "failed"]
                                                   ELSE transfers[t]]
        /\ serving' = FALSE /\ UNCHANGED <<net, client>>
    BY <1>2 DEF Exit
  <2>2. \A t \in Tids : [transfers[t] EXCEPT !.at = "failed"] \in
           [at : {"none", "oack", "data", "sent", "failed"}, block : Blocks, tries : 0..Retries]
    BY <1>0 DEF TypeOK
  <2>3. transfers' \in [Tids -> [at : {"none", "oack", "data", "sent", "failed"},
                                block : Blocks, tries : 0..Retries]]
    BY <1>0, <2>1, <2>2 DEF TypeOK
  <2>4. \A t \in Tids : /\ transfers'[t].block = transfers[t].block
                        /\ \/ transfers'[t].at = transfers[t].at
                           \/ Waits(t) /\ transfers'[t].at = "failed"
    BY <1>0, <2>1 DEF TypeOK
  <2> QED BY <1>0, <2>1, <2>3, <2>4, SameBlocks
<1>3. ASSUME NEW q \in Packets, net' \subseteq net \cup {q}, Known(q), UNCHANGED <<transfers, serving, client>>
      PROVE  IInv'
  <2>1. net' \subseteq Packets /\ \A p \in net' : p \in net \/ Known(p)
    BY <1>0, <1>3
  <2> QED BY <1>0, <1>3, <2>1, SameBlocks DEF TypeOK
<1>4. CASE Refuse \/ Ask
  <2>1. PICK q \in {Request(o) : o \in BOOLEAN} \cup {Other} :
          net' \subseteq net \cup {q} /\ UNCHANGED <<transfers, serving, client>>
    BY <1>4 DEF Refuse, Ask
  <2>2. q \in Packets /\ q.kind \in {"RRQ", "other"}
    BY <2>1, NewPackets DEF Packets
  <2>3. Known(q)
    BY <2>2 DEF Known
  <2> QED BY <1>3, <2>1, <2>2, <2>3
<1>5. CASE AckAgain
  <2>1. tid \in Tids /\ net' = net \cup {Ack(tid, Len(file))} /\ UNCHANGED <<transfers, serving, client>>
    BY <1>0, <1>5 DEF AckAgain, TypeOK
  <2>2. /\ transfers[tid].block \in Blocks /\ transfers[tid].block \in Nat /\ Len(file) \in Nat
        /\ Len(file) <= transfers[tid].block /\ transfers[tid].block <= 1 + Len(file)
    <3>1. transfers[tid].block \in Blocks /\ transfers[tid].block \in Nat /\ Len(file) \in Nat
      BY <1>0, <2>1, BlocksAre
    <3> QED BY <2>1, <3>1 DEF IInv, LockStep, Have
  <2>3. Len(file) \in Blocks
    BY <2>2, Constants DEF Blocks
  <2>4. Known(Ack(tid, Len(file)))
    BY <2>2, NewPackets, Constants DEF Known
  <2> QED BY <1>3, <2>1, <2>3, <2>4, PacketsThere
<1>6. CASE Abort
  <2>1. tid \in Tids /\ net' = net \cup {Error(tid)} /\ UNCHANGED <<transfers, serving, client>>
    BY <1>0, <1>6 DEF Abort, TypeOK
  <2>2. Known(Error(tid))
    BY NewPackets DEF Known
  <2> QED BY <1>3, <2>1, <2>2, PacketsThere, Constants
<1>7. ASSUME NEW p \in net, TakeOack(p) \/ TakeData(p) PROVE IInv'
  BY <1>7, TakeOackStep, TakeDataStep
<1>8. ASSUME NEW p \in net, Lose(p) PROVE IInv'
  <2>1. p \in Packets /\ Known(p) /\ net' \subseteq net \cup {p} /\ UNCHANGED <<transfers, serving, client>>
    BY <1>0, <1>8 DEF Lose, IInv, NetKnown
  <2> QED BY <1>3, <2>1
<1>9. CASE UNCHANGED vars
  <2>1. net' \subseteq Packets /\ \A p \in net' : p \in net \/ Known(p)
    BY <1>0, <1>9 DEF vars
  <2> QED BY <1>0, <1>9, <2>1, SameBlocks DEF vars, TypeOK
<1> QED BY <1>1, <1>2, <1>4, <1>5, <1>6, <1>7, <1>8, <1>9 DEF Next

-----------------------------------------------------------------------------
(* Results *)

LEMMA Always == Spec => []IInv
BY InvInit, InvStep, PTL DEF Spec

(***************************************************************************)
(* The transfers, the packets and the client are well typed, for any file  *)
(* and block size: no block beyond the last one is ever sent, and no       *)
(* packet is sent more than RETRIES times (tftp_server.py:70-110).         *)
(***************************************************************************)
THEOREM TypeCorrect == Spec => []TypeOK
<1>1. IInv => TypeOK
  BY DEF IInv
<1> QED BY <1>1, Always, PTL

(***************************************************************************)
(* The client has the file from its beginning, and all of it when it has   *)
(* seen a short block - for a file of any size, also one of more blocks    *)
(* than there are numbers, and with any number of transfers of it          *)
(* (tftp_server.py:98-103, 155).                                           *)
(***************************************************************************)
THEOREM FileCorrect == Spec => []FileInOrder
<1>1. IInv => FileInOrder
  <2> SUFFICES ASSUME IInv PROVE FileInOrder
    OBVIOUS
  <2>1. \A i \in DOMAIN file : file[i] = i
    BY DEF IInv, InOrder
  <2>2. ASSUME whole PROVE Len(file) = LastBlock
    <3>1. Len(file) \in Nat /\ Len(file) >= 1 /\ Len(file) >= LastBlock
      BY <2>2 DEF IInv, InOrder, TypeOK
    <3>2. file[Len(file)] \in Blocks /\ Len(file) \in DOMAIN file
      BY <3>1 DEF IInv, TypeOK
    <3>3. Len(file) \in Blocks
      BY <2>1, <3>2
    <3> QED BY <3>1, <3>3, Constants DEF Blocks
  <2> QED BY <2>1, <2>2 DEF FileInOrder
<1> QED BY <1>1, Always, PTL

(***************************************************************************)
(* What the server logs as sent its client has received, to the last block *)
(* (tftp_server.py:81, 105).                                               *)
(***************************************************************************)
THEOREM SentCorrect == Spec => []SentIsReceived
<1>1. IInv => SentIsReceived
  BY DEF IInv
<1> QED BY <1>1, Always, PTL

=============================================================================
