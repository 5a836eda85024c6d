----------------------------- MODULE TcpRepair ------------------------------
(***************************************************************************)
(* tcp_export.cpp: reading the state of a TCP connection with TCP_REPAIR   *)
(* and making a socket with that state at another server.                  *)
(*                                                                         *)
(* One action per function that tcp_export and tcp_import TRY, in their    *)
(* order.  Options, window and addresses are not told apart; of the queues *)
(* the lengths are kept.  No segment arrives meanwhile: the rule of the    *)
(* flow is locked (module Handoff).  What the socket options do is the     *)
(* kernel's: TCP_QUEUE_SEQ of the send queue is write_seq, the number of   *)
(* the byte behind its last one, and that of the receive queue is rcv_nxt; *)
(* both can only be set on a closed socket, and queueing a byte in repair  *)
(* mode advances them.                                                     *)
(***************************************************************************)
EXTENDS Integers

CONSTANTS
  Wrap,      \* sequence numbers are modulo this (2^32)
  MaxQueue   \* bound: bytes in a queue of the exported socket

VARIABLES
  pc,   \* the function that is next
  src,  \* the exported socket
  ex,   \* prism::TCPState
  dst   \* the imported socket

vars == <<pc, src, ex, dst>>

SeqNos == 0..(Wrap - 1)

Lengths == 0..(Wrap - 1)

\* una, nxt, write: the oldest unacknowledged, the next to be sent and the
\* next to be written byte; rcv_nxt: the next to be received; inq: received
\* bytes that have not been read.
Sockets == [st: {"CLOSE", "ESTABLISHED", "CLOSE_WAIT"}, repair: BOOLEAN,
            una: SeqNos, nxt: SeqNos, write: SeqNos,
            rcv_nxt: SeqNos, inq: Lengths]

TCPStates == [sendq_len: Lengths, unsentq_len: Lengths, recvq_len: Lengths,
              seq: SeqNos, ack: SeqNos]

ExportSteps == {"is_established", "get_queue_len", "get_options",
                "get_window", "get_addr", "get_sendq", "get_recvq"}

ImportSteps == {"set_seq", "set_addr", "set_sendq", "set_recvq",
                "set_options", "set_window", "repair_done"}

TypeOK ==
  /\ pc \in ExportSteps \cup ImportSteps
              \cup {"export", "import", "done", "failed", "crashed"}
  /\ src \in Sockets
  /\ ex \in TCPStates
  /\ dst \in Sockets

Plus(a, n) == (a + n) % Wrap

Minus(a, b) == (a - b) % Wrap

NoTCPState == [sendq_len |-> 0, unsentq_len |-> 0, recvq_len |-> 0,
               seq |-> 0, ack |-> 0]

NewSocket == [st |-> "CLOSE", repair |-> FALSE, una |-> 0, nxt |-> 0,
              write |-> 0, rcv_nxt |-> 0, inq |-> 0]

\* Any connection, with sent and unsent bytes of a response and unread bytes
\* of a request.
Init ==
  /\ pc = "export"
  /\ \E st \in {"ESTABLISHED", "CLOSE_WAIT"}, una, rcv_nxt \in SeqNos,
        sent, unsent, inq \in 0..MaxQueue :
       src = [st |-> st, repair |-> FALSE, una |-> una,
              nxt |-> Plus(una, sent), write |-> Plus(una, sent + unsent),
              rcv_nxt |-> rcv_nxt, inq |-> inq]
  /\ ex = NoTCPState
  /\ dst = NewSocket

Step(from, to) == pc = from /\ pc' = to

-----------------------------------------------------------------------------
(* tcp_export.                                                             *)

export_repair_start ==
  /\ Step("export", "is_established")
  /\ src' = [src EXCEPT !.repair = TRUE]
  /\ ex' = NoTCPState
  /\ UNCHANGED dst

tcp_is_established ==
  /\ Step("is_established", "get_queue_len")
  /\ src.st = "ESTABLISHED"
  /\ UNCHANGED <<src, ex, dst>>

\* SIOCOUTQ, SIOCOUTQNSD and SIOCINQ.
tcp_get_queue_len ==
  /\ Step("get_queue_len", "get_options")
  /\ ex' = [ex EXCEPT !.sendq_len = Minus(src.write, src.una),
                      !.unsentq_len = Minus(src.write, src.nxt),
                      !.recvq_len = src.inq]
  /\ UNCHANGED <<src, dst>>

tcp_get_options ==
  /\ Step("get_options", "get_window")
  /\ UNCHANGED <<src, ex, dst>>

tcp_get_window ==
  /\ Step("get_window", "get_addr")
  /\ UNCHANGED <<src, ex, dst>>

tcp_get_addr ==
  /\ Step("get_addr", "get_sendq")
  /\ UNCHANGED <<src, ex, dst>>

tcp_get_sendq ==
  /\ Step("get_sendq", "get_recvq")
  /\ ex' = [ex EXCEPT !.seq = src.write]
  /\ UNCHANGED <<src, dst>>

tcp_get_recvq ==
  /\ Step("get_recvq", "import")
  /\ ex' = [ex EXCEPT !.ack = src.rcv_nxt]
  /\ UNCHANGED <<src, dst>>

\* err1: a system call fails, or the socket is not ESTABLISHED.  The socket
\* goes on as before; the caller asserts that this does not happen.
export_err ==
  /\ pc \in ExportSteps \ {"get_recvq"}
  /\ pc' = "failed"
  /\ src' = [src EXCEPT !.repair = FALSE]
  /\ UNCHANGED <<ex, dst>>

\* err2: the same for the last of the functions, but the bytes of the send
\* queue are freed first, which belong to the message: the allocator stops the
\* process with the socket in repair mode, or does not notice.
export_err2 ==
  /\ pc = "get_recvq"
  /\ \/ /\ pc' = "failed"
        /\ src' = [src EXCEPT !.repair = FALSE]
     \/ /\ pc' = "crashed"
        /\ UNCHANGED src
  /\ UNCHANGED <<ex, dst>>

-----------------------------------------------------------------------------
(* tcp_import.                                                             *)

import_repair_start ==
  /\ Step("import", "set_seq")
  /\ dst' = [dst EXCEPT !.repair = TRUE]
  /\ UNCHANGED <<src, ex>>

tcp_set_seq ==
  /\ Step("set_seq", "set_addr")
  /\ dst' = [dst EXCEPT !.write = ex.seq, !.rcv_nxt = ex.ack]
  /\ UNCHANGED <<src, ex>>

\* bind and connect, which in repair mode sends nothing.
tcp_set_addr ==
  /\ Step("set_addr", "set_sendq")
  /\ dst' = [dst EXCEPT !.st = "ESTABLISHED", !.una = dst.write,
                        !.nxt = dst.write]
  /\ UNCHANGED <<src, ex>>

\* The bytes that were sent are queued in repair mode and count as sent; the
\* others are written with repair mode off and may be sent at once.
tcp_set_sendq ==
  /\ Step("set_sendq", "set_recvq")
  /\ LET sent == IF ex.sendq_len = ex.unsentq_len THEN dst.write
                 ELSE Plus(dst.write, ex.sendq_len - ex.unsentq_len)
         all  == IF ex.unsentq_len = 0 THEN sent
                 ELSE Plus(sent, ex.unsentq_len)
     IN  \E nxt \in {sent, all} :
           dst' = [dst EXCEPT !.nxt = nxt, !.write = all]
  /\ UNCHANGED <<src, ex>>

tcp_set_recvq ==
  /\ Step("set_recvq", "set_options")
  /\ dst' = IF ex.recvq_len = 0 THEN dst
            ELSE [dst EXCEPT !.rcv_nxt = Plus(@, ex.recvq_len),
                             !.inq = ex.recvq_len]
  /\ UNCHANGED <<src, ex>>

tcp_set_options ==
  /\ Step("set_options", "set_window")
  /\ UNCHANGED <<src, ex, dst>>

tcp_set_window ==
  /\ Step("set_window", "repair_done")
  /\ UNCHANGED <<src, ex, dst>>

import_repair_done ==
  /\ Step("repair_done", "done")
  /\ dst' = [dst EXCEPT !.repair = FALSE]
  /\ UNCHANGED <<src, ex>>

import_err ==
  /\ pc \in ImportSteps
  /\ pc' = "failed"
  /\ dst' = [dst EXCEPT !.repair = FALSE]
  /\ UNCHANGED <<src, ex>>

-----------------------------------------------------------------------------
tcp_export ==
  \/ export_repair_start
  \/ tcp_is_established
  \/ tcp_get_queue_len
  \/ tcp_get_options
  \/ tcp_get_window
  \/ tcp_get_addr
  \/ tcp_get_sendq
  \/ tcp_get_recvq
  \/ export_err
  \/ export_err2

tcp_import ==
  \/ import_repair_start
  \/ tcp_set_seq
  \/ tcp_set_addr
  \/ tcp_set_sendq
  \/ tcp_set_recvq
  \/ tcp_set_options
  \/ tcp_set_window
  \/ import_repair_done
  \/ import_err

Next == tcp_export \/ tcp_import

Spec == Init /\ [][Next]_vars

-----------------------------------------------------------------------------
(* Properties.                                                             *)

\* The imported socket goes on where the exported one stopped: the client
\* finds the sequence numbers, unacknowledged bytes included, it knows.
SameConnection ==
  /\ dst.st = "ESTABLISHED"
  /\ dst.una = src.una
  /\ dst.write = src.write
  /\ dst.rcv_nxt = src.rcv_nxt
  /\ dst.inq = src.inq

\* "These data must be restored in repair mode" (tcp_set_queue): a completed
\* import gives the same connection, whatever is in the queues.
QueuesRestored == pc = "done" => SameConnection

QueuesEmpty ==
  src.una = src.write /\ src.nxt = src.write /\ src.inq = 0

\* The same for a connection with empty queues.
EmptyQueuesContinue == pc = "done" /\ QueuesEmpty => SameConnection

=============================================================================
