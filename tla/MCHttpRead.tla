---------------------------- MODULE MCHttpRead -----------------------------
(***************************************************************************)
(* Small instances of HttpRead.                                            *)
(***************************************************************************)
EXTENDS HttpRead, SequencesExt

\* The number that digits make in base b, 10 being an "a": they are read up to
\* the first one that is none in this base.
Reading(digits, b) ==
  FoldLeft(LAMBDA r, d : IF d < b /\ r.whole THEN [r EXCEPT !.num = @ * b + d]
                         ELSE [r EXCEPT !.whole = FALSE],
           [num |-> 0, whole |-> digits # <<>>], digits)

\* The value whose text is the prefix, the digits and rest bytes that are no
\* digits.  The prefix "0" is the first of the digits as well; "0x" reads as a
\* zero with something behind it in the other bases.
Text(prefix, digits, rest) ==
  LET In(b) == Reading(IF prefix = "0x" /\ b # 16 THEN <<0, b>> ELSE digits, b)
  IN  [neg |-> FALSE, prefix |-> prefix,
       num |-> [b \in Bases |-> In(b).num],
       whole |-> [b \in Bases |-> In(b).whole /\ rest = 0]]

\* Headers: "Host: example", "Content-Type: text/plain", "Content-Length: ...",
\* "content-length: ..." and "Content: ...".
Host == [name_len |-> 4, common |-> 0, val |-> Text("none", <<14>>, 6)]

ContentType == [name_len |-> 12, common |-> 8, val |-> Text("none", <<>>, 10)]

ContentLength(v) == [name_len |-> 14, common |-> 14, val |-> v]

LowerLength(v) == [name_len |-> 14, common |-> 0, val |-> v]

Content(v) == [name_len |-> 7, common |-> 7, val |-> v]

Req(h, hs, b, e) == [head |-> h, headers |-> hs, body |-> b, extra |-> e]

\* Requests that are announced the usual way, with a body and without: the
\* largest that never grows the buffer first, one that does not fit it last.
\* Then unusual ones: a name that is the beginning of the one looked for, one in
\* lower case, hexadecimal digits, a byte that belongs to no request, and ten
\* bytes announced as 010.
MixedReqs ==
  <<Req(3, <<Host, ContentLength(Text("none", <<7>>, 0))>>, 7, 0),
    Req(2, <<Host>>, 0, 0),
    Req(2, <<ContentType, ContentLength(Text("none", <<3>>, 0))>>, 3, 0),
    Req(3, <<ContentLength(Text("none", <<1, 1>>, 0))>>, 11, 0),
    Req(2, <<Content(Text("none", <<1>>, 0))>>, 1, 0),
    Req(2, <<LowerLength(Text("none", <<2>>, 0))>>, 2, 0),
    Req(2, <<ContentLength(Text("0x", <<3>>, 0))>>, 3, 0),
    Req(2, <<ContentLength(Text("none", <<>>, 1))>>, 0, 1),
    Req(3, <<ContentLength(Text("0", <<0, 1, 0>>, 0))>>, 10, 0)>>

MixedStart == <<0, 10, 12, 17, 31, 34, 38, 43, 46, 59>>
=============================================================================
