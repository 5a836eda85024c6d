--------------------------- MODULE HandoffFraming ---------------------------
(***************************************************************************)
(* The receiving end of a handoff connection (phttp_handoff_server.cpp):   *)
(* the byte stream between two servers is cut into handoff messages again. *)
(*                                                                         *)
(* A message on the stream is a header with the length of the body, the    *)
(* padding that makes the body's length a multiple of 8, and the body.     *)
(* Bytes are named by their offset in the stream; a buffer is an interval  *)
(* of offsets.  How much a read returns is up to the kernel.               *)
(***************************************************************************)
EXTENDS Integers, Sequences

CONSTANTS
  Frames,     \* the body lengths of the messages sent, in order
  Start,      \* the offsets where the messages start, then the stream's end
  InitCap,    \* initial size of the buffer (5000000 in the source)
  MinAvail,   \* on_alloc grows the buffer below this room (1024)
  GrowBy      \* room after growing (4096)

-----------------------------------------------------------------------------
(* The layout of the stream, as after_real_close and forward_proto_states  *)
(* write it.                                                               *)

HeaderLen == 4   \* sizeof(struct phttp_ho_header)

padlen(buflen) == IF buflen % 8 = 0 THEN 0 ELSE 8 - (buflen % 8)

Size(buflen) == HeaderLen + padlen(buflen) + buflen

StreamEnd == Start[Len(Frames) + 1]

ASSUME FramingAssumption ==
  /\ Frames \in Seq(Nat)
  /\ InitCap \in Nat
  /\ MinAvail \in Nat \ {0}
  /\ GrowBy \in Nat /\ GrowBy >= MinAvail

\* The messages follow each other without a gap.
ASSUME LayoutAssumption ==
  /\ Start \in [1..(Len(Frames) + 1) -> Nat]
  /\ Start[1] = 0
  /\ \A i \in 1..Len(Frames) : Start[i + 1] = Start[i] + Size(Frames[i])
  /\ \A i, j \in 1..(Len(Frames) + 1) : i < j => Start[i] < Start[j]

\* The messages whose header is at offset o: one, or none.
FrameAt(o) == {i \in 1..Len(Frames) : Start[i] = o}

-----------------------------------------------------------------------------
VARIABLES
  begin,    \* offset of the byte at req_mem->begin
  used,     \* req_mem->cur - req_mem->begin
  cap,      \* req_mem->end - req_mem->begin
  cursor,   \* offset of the cursor while on_read runs
  handled,  \* the messages given to phttp_on_handoff, by their numbers
  pc        \* "poll": in the event loop, "parse": in the loop of on_read,
            \* "closed": uv_close called, "assert", "overrun": process dead

vars == <<begin, used, cap, cursor, handled, pc>>

-----------------------------------------------------------------------------
TypeOK ==
  /\ begin \in 0..StreamEnd
  /\ used \in 0..StreamEnd
  /\ cap \in Nat
  /\ cursor \in 0..StreamEnd
  /\ handled \in Seq(1..Len(Frames))
  /\ pc \in {"poll", "parse", "closed", "assert", "overrun"}

Init ==
  /\ begin = 0
  /\ used = 0
  /\ cap = InitCap
  /\ cursor = 0
  /\ handled = <<>>
  /\ pc = "poll"

\* Mutant: the buffer never grows.
NeverGrow == cap

\* The size of the buffer after on_alloc: membuf_grow when there is little
\* room left.
on_alloc == IF cap - used < MinAvail THEN used + GrowBy ELSE cap

\* The kernel returns n bytes; they join the buffer (membuf_consume) and the
\* loop starts at its beginning.
on_read(n) ==
  /\ pc = "poll"
  /\ n <= on_alloc - used
  /\ begin + used + n <= StreamEnd
  /\ cap' = on_alloc
  /\ used' = used + n
  /\ cursor' = begin
  /\ pc' = "parse"
  /\ UNCHANGED <<begin, handled>>

\* End of file or an error: what is left in the buffer is freed with it.
on_read_eof ==
  /\ pc = "poll"
  /\ pc' = "closed"
  /\ cap' = on_alloc
  /\ UNCHANGED <<begin, used, cursor, handled>>

\* Bytes of the buffer that the loop has not consumed.
Left == begin + used - cursor

\* Mutant: the whole message must be in the buffer, and one byte more.
WantsMore(i) == Left <= Size(Frames[i])

\* The test of the loop before it takes the message i at the cursor.  The
\* header itself is not counted.
Incomplete(i) == Left < Frames[i] + padlen(Frames[i])

\* Mutant: the next message is looked for right behind the body's length.
SkipNoPadding(i) == HeaderLen + Frames[i]

\* Mutant: a body whose length is a multiple of 8 is taken to be padded.
SkipAlwaysPadding(i) == HeaderLen + (8 - (Frames[i] % 8)) + Frames[i]

\* How far the cursor moves over message i.
Advance(i) == HeaderLen + padlen(Frames[i]) + Frames[i]

\* One turn of the loop that handles a message; the cursor is at the header
\* of one (StreamInSync).  When some of its bytes have
\* not arrived, whatever the memory behind the buffer holds is parsed: the
\* assertion fails, or the message is handled as well, the loop ends with the
\* cursor behind the bytes there are, and memmove is given a negative length.
handle_message ==
  /\ pc = "parse"
  /\ Left >= HeaderLen
  /\ \E i \in FrameAt(cursor) :
       /\ ~Incomplete(i)
       /\ \/ /\ cursor' = cursor + Advance(i)
             /\ handled' = Append(handled, i)
             /\ pc' = IF Left >= Size(Frames[i]) THEN "parse" ELSE "overrun"
          \/ /\ Left < Size(Frames[i])
             /\ pc' = "assert"
             /\ UNCHANGED <<cursor, handled>>
  /\ UNCHANGED <<begin, used, cap>>

\* The loop ends: the rest of the bytes moves to the front of the buffer.
keep_rest ==
  /\ pc = "parse"
  /\ Left >= HeaderLen => \E i \in FrameAt(cursor) : Incomplete(i)
  /\ begin' = cursor
  /\ used' = Left
  /\ pc' = "poll"
  /\ UNCHANGED <<cap, cursor, handled>>

Next ==
  \/ \E n \in 1..StreamEnd : on_read(n)
  \/ on_read_eof
  \/ handle_message
  \/ keep_rest

Spec == Init /\ [][Next]_vars

\* The kernel delivers what the peer has written, and the loop runs on.
FairSpec ==
  /\ Spec
  /\ WF_vars(\E n \in 1..StreamEnd : on_read(n))
  /\ WF_vars(handle_message)
  /\ WF_vars(keep_rest)

-----------------------------------------------------------------------------
(* Properties.                                                             *)

\* However the stream is cut by the reads, the messages are handled in the
\* order they were sent, each once, and the cursor is at the first byte that
\* belongs to none of them (the loop of on_read and its memmove).
StreamInSync ==
  /\ handled = [i \in 1..Len(handled) |-> i]
  /\ Len(handled) <= Len(Frames)
  /\ cursor = Start[Len(handled) + 1]
  /\ pc = "poll" => begin = cursor

\* on_read never goes back to the event loop with a whole message in the
\* buffer: its connection would stay locked until the next message arrives,
\* and would be lost with the buffer at the end of the stream.
NoWholeMessageLeft ==
  pc \in {"poll", "closed"} /\ Len(handled) < Len(Frames) =>
    begin + used < Start[Len(handled) + 2]

\* Every message is handled unless the peer goes away or the process dies,
\* also one that is larger than the buffer (on_alloc).
EveryMessageHandled ==
  <>(Len(handled) = Len(Frames) \/ pc \in {"closed", "assert", "overrun"})

\* What the assertion in on_read says: what is parsed is a whole message.
MessageParses == pc # "assert"

=============================================================================
