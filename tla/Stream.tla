------------------------------- MODULE Stream -------------------------------
(***************************************************************************)
(* What a reliable byte stream promises the program that reads it: the     *)
(* bytes the peer sent, each once and in order, and an end of file only    *)
(* after the last of them.  Byte k of the peer's reply is the number k.    *)
(* This is what the iPXE downloader relies on when it accepts a kernel or  *)
(* an initrd; Tcp is shown to implement it.                                *)
(***************************************************************************)
EXTENDS Naturals, Sequences

CONSTANT Reply      \* how many bytes the peer sends before it closes

VARIABLES out,      \* what has been delivered to the reader
          end       \* "open", or how the stream ended for the reader

Ends == {"eof", "failed", "closed"}

Init ==
    /\ out = << >>
    /\ end = "open"

\* the next n bytes arrive
Deliver ==
    /\ end = "open"
    /\ \E n \in 1 .. (Reply - Len(out)) : out' = [i \in 1 .. (Len(out) + n) |-> i]
    /\ UNCHANGED end

\* the peer's close, after the last byte
Finish ==
    /\ end = "open" /\ Len(out) = Reply
    /\ end' = "eof"
    /\ UNCHANGED out

\* the connection breaks, or the reader closes it
Abort ==
    /\ end = "open"
    /\ end' \in {"failed", "closed"}
    /\ UNCHANGED out

Next == Deliver \/ Finish \/ Abort

Spec == Init /\ [][Next]_<<out, end>>
=============================================================================
