-------------------------- MODULE TcpRepairProofs ---------------------------
(***************************************************************************)
(* A connection whose queues are empty survives export and import.         *)
(***************************************************************************)
EXTENDS TcpRepair, TLAPS

\* What the next function may rely on: the lengths are read before the
\* numbers, and the numbers are set before the socket is connected.
BeforeLengths == {"export", "is_established", "get_queue_len"}

AfterSeq == {"get_recvq", "import"} \cup ImportSteps \cup {"done"}

AfterAck == {"import"} \cup ImportSteps \cup {"done"}

AfterConnect == {"set_sendq", "set_recvq", "set_options", "set_window",
                 "repair_done", "done"}

\* The inductive invariant: for a connection with empty queues, what has been
\* read of the old socket so far, and what has been set of the new one.
CopiedSoFar ==
  QueuesEmpty /\ pc \notin {"failed", "crashed"} =>
    /\ pc \notin BeforeLengths =>
         ex.sendq_len = 0 /\ ex.unsentq_len = 0 /\ ex.recvq_len = 0
    /\ pc \in AfterSeq => ex.seq = src.write
    /\ pc \in AfterAck => ex.ack = src.rcv_nxt
    /\ pc \notin AfterConnect => dst.inq = 0
    /\ pc \in {"set_addr"} \cup AfterConnect =>
         /\ dst.write = src.write
         /\ dst.rcv_nxt = src.rcv_nxt
         /\ dst.inq = 0
    /\ pc \in AfterConnect =>
         dst.st = "ESTABLISHED" /\ dst.una = src.write

IInv == TypeOK /\ CopiedSoFar

\* Unsigned arithmetic stays in range, and the length of an empty queue is 0.
LEMMA Arithmetic ==
  ASSUME Wrap \in Nat \ {0}, NEW a \in Int, NEW b \in Int
  PROVE  /\ Plus(a, b) \in SeqNos
         /\ Minus(a, b) \in SeqNos
         /\ Minus(a, a) = 0
  BY DEF Plus, Minus, SeqNos

\* A connection about to be exported.
LEMMA TcpInit ==
  ASSUME Wrap \in Nat \ {0}, MaxQueue \in Nat, MaxQueue < Wrap, Init
  PROVE  IInv
<1>1. PICK st \in {"ESTABLISHED", "CLOSE_WAIT"}, una \in SeqNos,
           rcv_nxt \in SeqNos, sent \in 0..MaxQueue, unsent \in 0..MaxQueue,
           inq \in 0..MaxQueue :
        src = [st |-> st, repair |-> FALSE, una |-> una,
               nxt |-> Plus(una, sent), write |-> Plus(una, sent + unsent),
               rcv_nxt |-> rcv_nxt, inq |-> inq]
  BY DEF Init
<1>2. Plus(una, sent) \in SeqNos /\ Plus(una, sent + unsent) \in SeqNos
  <2>1. una \in Int /\ sent \in Int /\ sent + unsent \in Int
    BY DEF SeqNos
  <2> QED  BY <2>1, Arithmetic
<1>3. inq \in Lengths /\ 0 \in SeqNos /\ 0 \in Lengths
  BY DEF Lengths, SeqNos
<1>4. src \in Sockets
  BY <1>1, <1>2, <1>3 DEF Sockets
<1>5. TypeOK
  BY <1>3, <1>4 DEF Init, TypeOK, NoTCPState, NewSocket, Sockets, TCPStates
<1>6. CopiedSoFar
  BY DEF Init, CopiedSoFar, NewSocket, BeforeLengths, AfterSeq, AfterAck,
         AfterConnect, ImportSteps
<1> QED  BY <1>5, <1>6 DEF IInv

\* The functions of tcp_export.
LEMMA ExportStep ==
  ASSUME Wrap \in Nat \ {0}, IInv, tcp_export
  PROVE  IInv'
<1> USE DEF Step, BeforeLengths, AfterSeq, AfterAck, AfterConnect,
            ExportSteps, ImportSteps
<1>0. /\ 0 \in SeqNos /\ 0 \in Lengths
      /\ Lengths = SeqNos
      /\ SeqNos \subseteq Int
  BY DEF SeqNos, Lengths
<1>1. CASE export_repair_start
  BY <1>0, <1>1 DEF export_repair_start, IInv, TypeOK, CopiedSoFar, Sockets,
                    TCPStates, NoTCPState, QueuesEmpty
<1>2. CASE tcp_is_established
  BY <1>2 DEF tcp_is_established, IInv, TypeOK, CopiedSoFar, QueuesEmpty
<1>3. CASE tcp_get_queue_len
  <2>1. /\ Minus(src.write, src.una) \in Lengths
        /\ Minus(src.write, src.nxt) \in Lengths
        /\ Minus(src.write, src.write) = 0
    BY <1>0, Arithmetic DEF IInv, TypeOK, Sockets
  <2>2. src.inq \in Lengths
    BY DEF IInv, TypeOK, Sockets
  <2>3. TypeOK'
    BY <1>3, <2>1, <2>2 DEF tcp_get_queue_len, IInv, TypeOK, TCPStates
  <2>4. CopiedSoFar'
    BY <1>3, <2>1 DEF tcp_get_queue_len, IInv, TypeOK, TCPStates,
                      CopiedSoFar, QueuesEmpty
  <2> QED  BY <2>3, <2>4 DEF IInv
<1>4. CASE tcp_get_options \/ tcp_get_window \/ tcp_get_addr
  BY <1>4 DEF tcp_get_options, tcp_get_window, tcp_get_addr, IInv, TypeOK,
              CopiedSoFar, QueuesEmpty
<1>5. CASE tcp_get_sendq
  BY <1>5 DEF tcp_get_sendq, IInv, TypeOK, CopiedSoFar, QueuesEmpty, Sockets,
              TCPStates
<1>6. CASE tcp_get_recvq
  BY <1>6 DEF tcp_get_recvq, IInv, TypeOK, CopiedSoFar, QueuesEmpty, Sockets,
              TCPStates
<1>7. CASE export_err
  BY <1>7 DEF export_err, IInv, TypeOK, CopiedSoFar, Sockets
<1>8. CASE export_err2
  BY <1>8 DEF export_err2, IInv, TypeOK, CopiedSoFar, Sockets
<1> QED
  BY <1>1, <1>2, <1>3, <1>4, <1>5, <1>6, <1>7, <1>8 DEF tcp_export

\* The functions of tcp_import.
LEMMA ImportStep ==
  ASSUME Wrap \in Nat \ {0}, IInv, tcp_import
  PROVE  IInv'
<1> USE DEF Step, BeforeLengths, AfterSeq, AfterAck, AfterConnect,
            ExportSteps, ImportSteps
<1>0. Lengths = SeqNos /\ SeqNos \subseteq Int
  BY DEF SeqNos, Lengths
<1>1. CASE import_repair_start
  BY <1>1 DEF import_repair_start, IInv, TypeOK, CopiedSoFar, QueuesEmpty,
              Sockets
<1>2. CASE tcp_set_seq
  BY <1>2 DEF tcp_set_seq, IInv, TypeOK, CopiedSoFar, QueuesEmpty, Sockets,
              TCPStates
<1>3. CASE tcp_set_addr
  BY <1>3 DEF tcp_set_addr, IInv, TypeOK, CopiedSoFar, QueuesEmpty, Sockets
<1>4. CASE tcp_set_sendq
  <2> DEFINE sent == IF ex.sendq_len = ex.unsentq_len THEN dst.write
                     ELSE Plus(dst.write, ex.sendq_len - ex.unsentq_len)
             all  == IF ex.unsentq_len = 0 THEN sent
                     ELSE Plus(sent, ex.unsentq_len)
  <2>1. /\ dst.write \in SeqNos
        /\ ex.sendq_len \in Int /\ ex.unsentq_len \in Int
        /\ ex.sendq_len - ex.unsentq_len \in Int
    <3>1. dst.write \in SeqNos
      BY DEF IInv, TypeOK, Sockets
    <3>2. ex.sendq_len \in Lengths /\ ex.unsentq_len \in Lengths
      BY DEF IInv, TypeOK, TCPStates
    <3>3. ex.sendq_len \in Int /\ ex.unsentq_len \in Int
      BY <3>2, <1>0
    <3>4. ex.sendq_len - ex.unsentq_len \in Int
      BY <3>3
    <3> QED  BY <3>1, <3>3, <3>4
  <2>2. sent \in SeqNos
    BY <1>0, <2>1, Arithmetic
  <2>3. all \in SeqNos
    BY <1>0, <2>1, <2>2, Arithmetic
  <2>4. PICK nxt \in {sent, all} :
          dst' = [dst EXCEPT !.nxt = nxt, !.write = all]
    BY <1>4 DEF tcp_set_sendq
  <2>5. TypeOK'
    <3> HIDE DEF sent, all
    <3> QED
      BY <1>4, <2>2, <2>3, <2>4 DEF tcp_set_sendq, IInv, TypeOK, Sockets
  <2>6. QueuesEmpty => all = dst.write
    BY <1>4 DEF tcp_set_sendq, IInv, CopiedSoFar
  <2>7. CopiedSoFar'
    <3> HIDE DEF sent, all
    <3> QED
      BY <1>4, <2>4, <2>6 DEF tcp_set_sendq, IInv, TypeOK, CopiedSoFar,
                              QueuesEmpty, Sockets
  <2> QED  BY <2>5, <2>7 DEF IInv
<1>5. CASE tcp_set_recvq
  <2>1. Plus(dst.rcv_nxt, ex.recvq_len) \in SeqNos
    BY <1>0, Arithmetic DEF IInv, TypeOK, Sockets, TCPStates
  <2>2. TypeOK'
    BY <1>5, <2>1 DEF tcp_set_recvq, IInv, TypeOK, Sockets, TCPStates
  <2>3. CopiedSoFar'
    BY <1>5 DEF tcp_set_recvq, IInv, TypeOK, CopiedSoFar, QueuesEmpty, Sockets
  <2> QED  BY <2>2, <2>3 DEF IInv
<1>6. CASE tcp_set_options \/ tcp_set_window
  BY <1>6 DEF tcp_set_options, tcp_set_window, IInv, TypeOK, CopiedSoFar,
              QueuesEmpty
<1>7. CASE import_repair_done
  BY <1>7 DEF import_repair_done, IInv, TypeOK, CopiedSoFar, QueuesEmpty,
              Sockets
<1>8. CASE import_err
  BY <1>8 DEF import_err, IInv, TypeOK, CopiedSoFar, Sockets
<1> QED
  BY <1>1, <1>2, <1>3, <1>4, <1>5, <1>6, <1>7, <1>8 DEF tcp_import

\* A connection with empty queues has, after tcp_export and tcp_import, the
\* same sequence numbers as before, for any numbers and any wrap around.
THEOREM EmptyQueuesSurvive ==
  ASSUME Wrap \in Nat \ {0}, MaxQueue \in Nat, MaxQueue < Wrap
  PROVE  Spec => []EmptyQueuesContinue
<1>1. Init => IInv
  BY TcpInit
<1>2. IInv /\ [Next]_vars => IInv'
  <2> SUFFICES ASSUME IInv, [Next]_vars PROVE IInv'
    OBVIOUS
  <2>1. CASE tcp_export
    BY <2>1, ExportStep
  <2>2. CASE tcp_import
    BY <2>2, ImportStep
  <2>3. CASE UNCHANGED vars
    BY <2>3 DEF vars, IInv, TypeOK, CopiedSoFar, QueuesEmpty
  <2> QED  BY <2>1, <2>2, <2>3 DEF Next
<1>3. IInv => EmptyQueuesContinue
  BY DEF IInv, CopiedSoFar, EmptyQueuesContinue, SameConnection, QueuesEmpty,
         BeforeLengths, AfterConnect, AfterSeq, AfterAck, ImportSteps
<1> QED
  BY <1>1, <1>2, <1>3, PTL DEF Spec
=============================================================================
