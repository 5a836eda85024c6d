----------------------------- MODULE MCFraming -----------------------------
(***************************************************************************)
(* Small instances of HandoffFraming.                                      *)
(***************************************************************************)
EXTENDS HandoffFraming

\* A short body, one that needs no padding, and a message that is larger
\* than the initial buffer.
MixedFrames == <<3, 10, 8>>

MixedStart == <<0, 12, 32, 44>>
=============================================================================
