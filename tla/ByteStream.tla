------------------------------ MODULE ByteStream ------------------------------
(***************************************************************************)
(* What a TCPConnection promises of the bytes it accepts: the kernel gets  *)
(* them in order, none twice and none left out, and the end of the stream  *)
(* is announced to the peer only when nothing is left, unless the          *)
(* connection is closed.  TCPSend.tla is shown to implement this.          *)
(***************************************************************************)
EXTENDS Sequences, SequencesExt

VARIABLES sent,         \* the bytes accepted from the user, in order
          delivered,    \* the bytes handed to the kernel
          fin,          \* has the end of the stream been announced?
          closed        \* has the connection been closed?

streamVars == <<sent, delivered, fin, closed>>

Init ==
    /\ sent = <<>>
    /\ delivered = <<>>
    /\ fin = FALSE
    /\ closed = FALSE

\* One call may accept bytes, deliver older and newer ones and end the stream.
Next ==
    /\ IsPrefix(sent, sent')
    /\ IsPrefix(delivered, delivered')
    /\ IsPrefix(delivered', sent')
    /\ fin => fin' /\ delivered' = delivered
    /\ fin /\ ~closed => sent' = sent
    /\ ~fin /\ fin' => closed \/ delivered' = sent'
    /\ closed => closed'

Spec == Init /\ [][Next]_streamVars
===============================================================================
