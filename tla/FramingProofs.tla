--------------------------- MODULE FramingProofs ---------------------------
(***************************************************************************)
(* Proofs about HandoffFraming, for every sequence of messages, every size *)
(* of the buffer and every way the kernel cuts the stream into reads.      *)
(***************************************************************************)
EXTENDS HandoffFraming, TLAPS

\* The unread part of the buffer is an interval of the stream.
InBuffer ==
  /\ begin <= cursor
  /\ pc # "overrun" => cursor <= begin + used
  /\ begin + used <= StreamEnd

IInv == TypeOK /\ InBuffer /\ StreamInSync /\ NoWholeMessageLeft

\* The padding of the sender (after_real_close) is shorter than 8 bytes.
LEMMA PadlenNat ==
  ASSUME NEW n \in Nat
  PROVE  padlen(n) \in 0..7
<1>1. n % 8 \in 0..7
  OBVIOUS
<1> QED
  BY <1>1 DEF padlen

\* A message on the stream has a header, a body and padding.
LEMMA SizeNat ==
  ASSUME NEW n \in Nat
  PROVE  /\ Size(n) \in Nat
         /\ Size(n) = HeaderLen + padlen(n) + n
         /\ padlen(n) \in Nat
BY PadlenNat DEF Size, HeaderLen

\* Facts about the offsets of the messages.
LEMMA LayoutFacts ==
  /\ Len(Frames) \in Nat
  /\ \A i \in 1..(Len(Frames) + 1) : Start[i] \in Nat
  /\ StreamEnd \in Nat
  /\ \A i \in 1..(Len(Frames) + 1) : Start[i] <= StreamEnd
  /\ \A i \in 1..Len(Frames) : Frames[i] \in Nat
<1>1. Len(Frames) \in Nat /\ \A i \in 1..Len(Frames) : Frames[i] \in Nat
  BY FramingAssumption
<1>2. \A i \in 1..(Len(Frames) + 1) : Start[i] \in Nat
  BY <1>1, LayoutAssumption
<1>3. \A i \in 1..(Len(Frames) + 1) : Start[i] <= Start[Len(Frames) + 1]
  <2>1. SUFFICES ASSUME NEW i \in 1..(Len(Frames) + 1)
                 PROVE  Start[i] <= Start[Len(Frames) + 1]
    OBVIOUS
  <2>2. Len(Frames) + 1 \in 1..(Len(Frames) + 1)
    BY <1>1
  <2>3. CASE i = Len(Frames) + 1
    BY <2>3, <1>2
  <2>4. CASE i < Len(Frames) + 1
    BY <2>4, <2>2, <1>2, LayoutAssumption
  <2> QED
    BY <2>3, <2>4, <1>1
<1> QED
  BY <1>1, <1>2, <1>3 DEF StreamEnd

\* Offsets are natural numbers.
LEMMA OffsetsNat ==
  ASSUME TypeOK
  PROVE  begin \in Nat /\ used \in Nat /\ cursor \in Nat
<1>1. StreamEnd \in Nat
  BY LayoutFacts
<1> QED
  BY <1>1 DEF TypeOK

\* The message at an offset is the one that starts there.
LEMMA FrameAtStart ==
  ASSUME NEW k \in 1..(Len(Frames) + 1),
         NEW i \in FrameAt(Start[k])
  PROVE  i = k /\ i \in 1..Len(Frames)
<1>1. i \in 1..Len(Frames) /\ Start[i] = Start[k]
  BY DEF FrameAt
<1>2. ~(i < k) /\ ~(k < i)
  BY <1>1, LayoutAssumption, LayoutFacts
<1> QED
  BY <1>1, <1>2, LayoutFacts

\* The first read finds an empty buffer (http_handoff_client_socket_init).
LEMMA InitInv == Init => IInv
<1> SUFFICES ASSUME Init PROVE IInv
  OBVIOUS
<1>1. TypeOK
  BY LayoutFacts, FramingAssumption DEF Init, TypeOK
<1>2. InBuffer
  BY LayoutFacts DEF Init, InBuffer
<1>3. StreamInSync
  <2>1. Len(handled) = 0 /\ handled = [i \in 1..0 |-> i]
    BY DEF Init
  <2> QED
    BY <2>1, LayoutFacts, LayoutAssumption DEF Init, StreamInSync
<1>4. NoWholeMessageLeft
  <2>1. SUFFICES ASSUME 0 < Len(Frames)
                 PROVE  0 < Start[2]
    BY DEF Init, NoWholeMessageLeft
  <2>2. 1 \in 1..(Len(Frames) + 1) /\ 2 \in 1..(Len(Frames) + 1)
    BY <2>1, LayoutFacts
  <2> QED
    BY <2>2, LayoutAssumption, LayoutFacts
<1> QED
  BY <1>1, <1>2, <1>3, <1>4 DEF IInv

\* A read only makes the buffer longer.
LEMMA ReadInv ==
  ASSUME IInv, NEW n \in 1..StreamEnd, on_read(n)
  PROVE  IInv'
<1>1. TypeOK'
  BY LayoutFacts, FramingAssumption
     DEF IInv, TypeOK, InBuffer, on_read, on_alloc
<1>2. InBuffer'
  BY LayoutFacts DEF IInv, TypeOK, InBuffer, on_read
<1>3. StreamInSync'
  BY DEF IInv, StreamInSync, on_read
<1>4. NoWholeMessageLeft'
  BY DEF NoWholeMessageLeft, on_read
<1> QED
  BY <1>1, <1>2, <1>3, <1>4 DEF IInv

\* The end of the stream leaves the buffer as the last read left it.
LEMMA EofInv ==
  ASSUME IInv, on_read_eof
  PROVE  IInv'
<1>1. TypeOK'
  BY LayoutFacts, FramingAssumption DEF IInv, TypeOK, on_read_eof, on_alloc
<1>2. InBuffer'
  BY LayoutFacts DEF IInv, InBuffer, on_read_eof
<1>3. StreamInSync'
  BY DEF IInv, StreamInSync, on_read_eof
<1>4. NoWholeMessageLeft'
  BY DEF IInv, NoWholeMessageLeft, on_read_eof
<1> QED
  BY <1>1, <1>2, <1>3, <1>4 DEF IInv

\* A turn of the loop takes the message next in order, and only it.
LEMMA HandleInv ==
  ASSUME IInv, handle_message
  PROVE  IInv'
<1> DEFINE k == Len(handled) + 1
<1>0. /\ handled \in Seq(1..Len(Frames)) /\ Len(handled) \in Nat
      /\ k \in 1..(Len(Frames) + 1)
      /\ cursor = Start[k]
  BY LayoutFacts DEF IInv, TypeOK, StreamInSync
<1>1. PICK i \in FrameAt(cursor) :
        /\ ~Incomplete(i)
        /\ \/ /\ cursor' = cursor + Advance(i)
              /\ handled' = Append(handled, i)
              /\ pc' = IF Left >= Size(Frames[i]) THEN "parse" ELSE "overrun"
           \/ /\ Left < Size(Frames[i])
              /\ pc' = "assert"
              /\ UNCHANGED <<cursor, handled>>
  BY DEF handle_message
<1>2. i = k /\ i \in 1..Len(Frames)
  BY <1>0, <1>1, FrameAtStart
<1>3. UNCHANGED <<begin, used, cap>> /\ pc = "parse"
  BY DEF handle_message
<1>4. CASE /\ cursor' = cursor + Advance(i)
           /\ handled' = Append(handled, i)
           /\ pc' = IF Left >= Size(Frames[i]) THEN "parse" ELSE "overrun"
  <2>1. /\ cursor' = Start[k + 1]
        /\ handled' = Append(handled, k)
        /\ pc' \in {"parse", "overrun"}
        /\ k + 1 \in 1..(Len(Frames) + 1)
    BY <1>0, <1>1, <1>2, <1>3, <1>4, LayoutAssumption, LayoutFacts
       DEF Advance, Size
  <2>2. /\ Len(handled') = k
        /\ handled' \in Seq(1..Len(Frames))
        /\ handled' = [j \in 1..k |-> j]
    <3>1. Len(handled') = k /\ handled' \in Seq(1..Len(Frames))
      BY <2>1, <1>0, <1>2
    <3>2. handled' = [j \in 1..k |-> handled'[j]]
      BY <3>1
    <3>3. \A j \in 1..k : handled'[j] = j
      BY <2>1, <1>0 DEF IInv, StreamInSync
    <3> QED
      BY <3>1, <3>2, <3>3
  <2>3. cursor' \in 0..StreamEnd
    BY <2>1, LayoutFacts
  <2>4. TypeOK'
    BY <2>1, <2>2, <2>3, <1>3 DEF IInv, TypeOK
  <2>5. (pc' # "overrun" => cursor' <= begin + used) /\ cursor <= cursor'
    <3>1. cursor' = cursor + Size(Frames[i]) /\ Size(Frames[i]) \in Nat
      BY <2>1, <1>0, <1>2, LayoutAssumption, LayoutFacts, SizeNat
    <3> QED
      BY <3>1, <1>4 DEF Left, IInv, TypeOK
  <2>6. InBuffer'
    BY <2>5, <2>3, <1>3, LayoutFacts DEF IInv, TypeOK, InBuffer
  <2>7. StreamInSync'
    BY <2>1, <2>2, <1>2 DEF StreamInSync
  <2>8. NoWholeMessageLeft'
    BY <2>1 DEF NoWholeMessageLeft
  <2> QED
    BY <2>4, <2>6, <2>7, <2>8 DEF IInv
<1>5. CASE /\ Left < Size(Frames[i])
           /\ pc' = "assert"
           /\ UNCHANGED <<cursor, handled>>
  <2>1. /\ pc' = "assert" /\ cursor' = cursor /\ handled' = handled
        /\ begin' = begin /\ used' = used /\ cap' = cap
    BY <1>3, <1>5
  <2>2. TypeOK'
    BY <2>1 DEF IInv, TypeOK
  <2>3. InBuffer'
    BY <1>3, <2>1 DEF IInv, InBuffer
  <2>4. StreamInSync' /\ NoWholeMessageLeft'
    BY <2>1 DEF IInv, StreamInSync, NoWholeMessageLeft
  <2> QED
    BY <2>2, <2>3, <2>4 DEF IInv
<1> QED
  BY <1>1, <1>4, <1>5

\* Leaving the loop means that the next message is not complete.
LEMMA KeepRestInv ==
  ASSUME IInv, keep_rest
  PROVE  IInv'
<1> DEFINE k == Len(handled) + 1
<1>0. /\ handled \in Seq(1..Len(Frames)) /\ Len(handled) \in Nat
      /\ k \in 1..(Len(Frames) + 1)
      /\ cursor = Start[k]
  BY LayoutFacts DEF IInv, TypeOK, StreamInSync
<1>1. /\ begin' = cursor /\ cursor' = cursor /\ used' = begin + used - cursor
      /\ pc' = "poll" /\ cap' = cap /\ handled' = handled
  BY DEF keep_rest, Left
<1>6. begin <= cursor /\ cursor <= begin + used /\ begin + used <= StreamEnd
  BY DEF keep_rest, IInv, InBuffer
<1>2. TypeOK'
  BY <1>1, <1>6, LayoutFacts DEF IInv, TypeOK
<1>3. InBuffer'
  BY <1>1, <1>6, LayoutFacts DEF IInv, TypeOK, InBuffer
<1>4. StreamInSync'
  BY <1>1 DEF IInv, StreamInSync
<1>5. NoWholeMessageLeft'
  <2>0. /\ begin \in Nat /\ used \in Nat /\ cursor \in Nat
        /\ begin' + used' = begin + used
        /\ Len(handled) + 2 = k + 1
    <3>1. begin \in Nat /\ used \in Nat /\ cursor \in Nat
      BY OffsetsNat DEF IInv
    <3>2. Len(handled) + 2 = k + 1
      BY <1>0
    <3> QED
      BY <3>1, <3>2, <1>1
  <2> HIDE DEF k
  <2>1. SUFFICES ASSUME Len(handled) < Len(Frames)
                 PROVE  begin + used < Start[k + 1]
    <3>1. handled' = handled
      BY <1>1
    <3> QED
      BY <2>0, <3>1 DEF NoWholeMessageLeft
  <2>2. /\ k \in 1..Len(Frames)
        /\ Start[k + 1] = Start[k] + Size(Frames[k])
        /\ Frames[k] \in Nat
    BY <2>1, <1>0, LayoutFacts, LayoutAssumption DEF k
  <2>3. /\ Size(Frames[k]) = HeaderLen + padlen(Frames[k]) + Frames[k]
        /\ padlen(Frames[k]) \in Nat
    BY <2>2, SizeNat
  <2>4. Left < Size(Frames[k])
    <3>1. CASE Left < HeaderLen
      BY <3>1, <2>2, <2>3 DEF HeaderLen, Left, IInv, TypeOK
    <3>2. CASE ~(Left < HeaderLen)
      <4>1. PICK i \in FrameAt(cursor) : Incomplete(i)
        BY <3>2 DEF keep_rest, HeaderLen, Left, IInv, TypeOK
      <4>2. i = k
        BY <4>1, <1>0, FrameAtStart
      <4> QED
        BY <4>1, <4>2, <2>2, <2>3 DEF Incomplete, HeaderLen, Left, IInv, TypeOK
    <3> QED
      BY <3>1, <3>2
  <2>5. Start[k] \in Nat /\ Size(Frames[k]) \in Nat
    BY <2>2, <1>0, SizeNat, LayoutFacts
  <2> QED
    BY <2>0, <2>2, <2>4, <2>5, <1>0 DEF Left
<1> QED
  BY <1>2, <1>3, <1>4, <1>5 DEF IInv

\* The inductive step: every callback of the connection keeps IInv.
LEMMA NextInv == IInv /\ [Next]_vars => IInv'
<1> SUFFICES ASSUME IInv, [Next]_vars PROVE IInv'
  OBVIOUS
<1>1. CASE \E n \in 1..StreamEnd : on_read(n)
  BY <1>1, ReadInv
<1>2. CASE on_read_eof
  BY <1>2, EofInv
<1>3. CASE handle_message
  BY <1>3, HandleInv
<1>4. CASE keep_rest
  BY <1>4, KeepRestInv
<1>5. CASE UNCHANGED vars
  BY <1>5 DEF vars, IInv, TypeOK, InBuffer, StreamInSync, NoWholeMessageLeft
<1> QED
  BY <1>1, <1>2, <1>3, <1>4, <1>5 DEF Next

\* The buffer of a connection between servers keeps its type: the cursor of
\* on_read stays in what has been read, and what has been read in the stream.
THEOREM FramingTypes == Spec => []TypeOK
<1>1. IInv => TypeOK
  BY DEF IInv
<1> QED
  BY <1>1, InitInv, NextInv, PTL DEF Spec

\* on_read handles the messages of the stream in order, each once, and loses
\* no byte between them, for every layout of messages and every cut.
THEOREM StreamStaysInSync == Spec => []StreamInSync
<1>1. IInv => StreamInSync
  BY DEF IInv
<1> QED
  BY <1>1, InitInv, NextInv, PTL DEF Spec

\* on_read handles every message that has arrived before it returns.
THEOREM NoMessageStuck == Spec => []NoWholeMessageLeft
<1>1. IInv => NoWholeMessageLeft
  BY DEF IInv
<1> QED
  BY <1>1, InitInv, NextInv, PTL DEF Spec

=============================================================================
