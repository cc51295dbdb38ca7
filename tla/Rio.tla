-------------------------------- MODULE Rio ---------------------------------
(***************************************************************************)
(* The buffered reader of server/csapp.c on one connection.  A read() of   *)
(* the kernel returns as many bytes as it likes, an interrupted one is     *)
(* repeated and changes nothing, and rio_readlineb and rio_readnb go on    *)
(* until they have what they were called for or the connection ends.       *)
(***************************************************************************)
EXTENDS MoreString

CONSTANTS RIO_BUFSIZE, MAXLINE    \* 8192 both

\* A line that redpin writes itself fits into MAXLINE.
ASSUME RioAssumption == RIO_BUFSIZE \in Nat \ {0} /\ MAXLINE \in Nat /\ MAXLINE >= 20

VARIABLES
    wire,      \* bytes that were written and not yet read
    open,      \* the writer has not closed its end
    rio_buf,   \* bytes in the buffer that were not handed out: rio_cnt of them
    call,      \* the call that runs
    got        \* the bytes in usrbuf

rio == <<wire, open, rio_buf, call, got>>

NoCall == [op |-> "none", n |-> 0]
ReadLine == [op |-> "line", n |-> MAXLINE - 1]
ReadBytes(n) == [op |-> IF n = 0 THEN "none" ELSE "bytes", n |-> n]

Busy == call.op # "none"
Returned == ~Busy

\* The caller goes on to another call.
Call(c) == call' = c /\ got' = <<>>

\* Rio_readinitb on a fresh connection over which s is written.
Connection(s) == wire' = s /\ rio_buf' = <<>>

Enough(bytes) ==
    \/ Len(bytes) = call.n
    \/ call.op = "line" /\ Last(bytes) = LF

\* read() in rio_read, into an empty buffer.
Read ==
    /\ Busy /\ rio_buf = <<>> /\ wire # <<>>
    /\ \E k \in 1..Min({Len(wire), RIO_BUFSIZE}) :
          /\ rio_buf' = SubSeq(wire, 1, k)
          /\ wire' = SubSeq(wire, k + 1, Len(wire))
    /\ UNCHANGED <<open, call, got>>

\* What the calls of rio_read take from the buffer before it is empty or the
\* caller has enough; rio_readlineb takes single bytes, up to a newline.
UpToLine == IF strchr(rio_buf, LF) = 0 THEN Len(rio_buf) ELSE strchr(rio_buf, LF)
Wanted ==
    Min({call.n - Len(got), IF call.op = "line" THEN UpToLine ELSE Len(rio_buf)})

\* Not the code: the whole buffer is copied, whatever was asked for.
TakeAll ==
    /\ Busy /\ rio_buf # <<>>
    /\ LET taken == IF call.op = "line" THEN UpToLine ELSE Len(rio_buf)
       IN  /\ got' = got \o SubSeq(rio_buf, 1, taken)
           /\ rio_buf' = SubSeq(rio_buf, taken + 1, Len(rio_buf))
    /\ call' = IF Enough(got') THEN NoCall ELSE call
    /\ UNCHANGED <<wire, open>>

\* Not the code: rio_readnb is content with what one read brought.
TakeOnce ==
    /\ Busy /\ rio_buf # <<>>
    /\ got' = got \o SubSeq(rio_buf, 1, Wanted)
    /\ rio_buf' = SubSeq(rio_buf, Wanted + 1, Len(rio_buf))
    /\ call' = IF call.op = "bytes" \/ Enough(got') THEN NoCall ELSE call
    /\ UNCHANGED <<wire, open>>

\* The copies in rio_read.
Take ==
    /\ Busy /\ rio_buf # <<>>
    /\ got' = got \o SubSeq(rio_buf, 1, Wanted)
    /\ rio_buf' = SubSeq(rio_buf, Wanted + 1, Len(rio_buf))
    /\ call' = IF Enough(got') THEN NoCall ELSE call
    /\ UNCHANGED <<wire, open>>

\* The call returns with what it has.
EndOfFile ==
    /\ Busy /\ rio_buf = <<>> /\ wire = <<>> /\ ~open
    /\ call' = NoCall
    /\ UNCHANGED <<wire, open, rio_buf, got>>

RioStep == Read \/ Take \/ EndOfFile
=============================================================================
