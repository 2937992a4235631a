--------------------------------- MODULE Rio --------------------------------
(***************************************************************************)
(* The robust I/O package of csapp.c: one process writes Data with         *)
(* rio_writen, another reads it with rio_readlineb and rio_readnb, or with *)
(* rio_readn.  The kernel takes and gives any number of bytes, interrupts  *)
(* the calls, and may fail them.                                           *)
(***************************************************************************)
EXTENDS Integers, Sequences, SequencesExt, Functions

CONSTANTS
    Data,           \* the bytes to be sent
    NL,             \* the byte that ends a line
    WriteSizes,     \* the n of calls of rio_writen
    LineSizes,      \* the maxlen of calls of rio_readlineb
    BlockSizes,     \* the n of calls of rio_readnb and rio_readn
    RIO_BUFSIZE,
    Capacity,       \* bytes that the kernel holds
    MaxEintr,       \* the most interrupted calls
    MayFail         \* whether a read may fail

ASSUME RioAssumption ==
    /\ Data \in Seq(Range(Data)) /\ {RIO_BUFSIZE, Capacity} \subseteq Nat \ {0}
    /\ LineSizes \subseteq Nat \ {0, 1}
    /\ WriteSizes \cup BlockSizes \subseteq Nat \ {0}
    /\ MaxEintr \in Nat /\ MayFail \in BOOLEAN

VARIABLES
    unsent,     \* what rio_writen has not been called for yet
    snd,        \* the writer: pc, and what is left of the call
    chan,       \* the bytes in the kernel
    rio,        \* rio_t: rio_cnt, and rio_buf from rio_bufptr on
    rcv,        \* the reader: pc, call, n, what it has read and the result
    handed,     \* the bytes of the calls that have ended
    eintr

riovars == <<unsent, snd, chan, rio, rcv, handed, eintr>>

Error == -1

rio_readinitb == [rio_cnt |-> 0, buf |-> <<>>]

NoCall == [pc |-> "idle", call |-> "none", n |-> 0, out |-> <<>>, ret |-> 0]

RioInit ==
    /\ unsent = Data
    /\ snd = [pc |-> "idle", left |-> <<>>]
    /\ chan = <<>>
    /\ rio = rio_readinitb
    /\ rcv \in {[NoCall EXCEPT !.pc = pc] : pc \in {"idle", "unbuffered"}}
    /\ handed = <<>> /\ eintr = 0

-----------------------------------------------------------------------------
(* The writer.                                                             *)

Writen(n) ==
    /\ snd.pc = "idle" /\ n <= Len(unsent)
    /\ snd' = [pc |-> "write", left |-> SubSeq(unsent, 1, n)]
    /\ unsent' = SubSeq(unsent, n + 1, Len(unsent))
    /\ UNCHANGED <<chan, rio, rcv, handed, eintr>>

rio_writen_Returns(k) ==
    /\ snd.pc = "write" /\ rcv.pc # "closed"
    /\ k <= Len(snd.left) /\ k <= Capacity - Len(chan)
    /\ chan' = chan \o SubSeq(snd.left, 1, k)
    /\ snd' = [pc |-> "idle", left |-> <<>>]
    /\ UNCHANGED <<unsent, rio, rcv, handed, eintr>>

\* write() takes k bytes, at once or after an interrupt.
rio_writen(k) ==
    /\ snd.pc = "write" /\ rcv.pc # "closed"
    /\ k <= Len(snd.left) /\ k <= Capacity - Len(chan)
    /\ chan' = chan \o SubSeq(snd.left, 1, k)
    /\ snd' = LET left == SubSeq(snd.left, k + 1, Len(snd.left))
              IN  [pc |-> IF left = <<>> THEN "idle" ELSE "write", left |-> left]
    /\ UNCHANGED <<unsent, rio, rcv, handed, eintr>>

Interrupt ==
    /\ eintr < MaxEintr /\ eintr' = eintr + 1

WriteInterrupted ==
    /\ snd.pc = "write" /\ Interrupt
    /\ UNCHANGED <<unsent, snd, chan, rio, rcv, handed>>

WriteFails_Retries ==
    /\ snd.pc = "write" /\ rcv.pc = "closed"
    /\ UNCHANGED <<unsent, snd, chan, rio, rcv, handed, eintr>>

\* The other end is closed: -1, and the writer gives up.
WriteFails ==
    /\ snd.pc = "write" /\ rcv.pc = "closed"
    /\ snd' = [snd EXCEPT !.pc = "failed"]
    /\ UNCHANGED <<unsent, chan, rio, rcv, handed, eintr>>

CloseWriter ==
    /\ snd.pc = "idle" /\ unsent = <<>>
    /\ snd' = [snd EXCEPT !.pc = "closed"]
    /\ UNCHANGED <<unsent, chan, rio, rcv, handed, eintr>>

WriterEnded == snd.pc \in {"closed", "failed"}

-----------------------------------------------------------------------------
(* The reader.                                                             *)

Call(op, n) ==
    /\ rcv.pc = IF op = "readn" THEN "unbuffered" ELSE "idle"
    /\ rcv' = [NoCall EXCEPT !.pc = "read", !.call = op, !.n = n]
    /\ UNCHANGED <<unsent, snd, chan, rio, handed, eintr>>

Return(r, out, ret) == [r EXCEPT !.pc = "returned", !.out = out, !.ret = ret]

\* read(): the next k bytes that the kernel has, no more than max.
Available(k, max) == k \in 1..Len(chan) /\ k <= max
AtEnd == chan = <<>> /\ WriterEnded

\* rio_read with an empty buffer: refill it.
Refill(k) ==
    /\ rcv.pc = "read" /\ rcv.call # "readn" /\ rio.rio_cnt <= 0
    /\ Available(k, RIO_BUFSIZE)
    /\ rio' = [rio_cnt |-> k, buf |-> SubSeq(chan, 1, k)]
    /\ chan' = SubSeq(chan, k + 1, Len(chan))
    /\ UNCHANGED <<unsent, snd, rcv, handed, eintr>>

ReadInterrupted ==
    /\ rcv.pc = "read" /\ Interrupt
    /\ rcv.call # "readn" => rio.rio_cnt <= 0
    /\ rio' = IF rcv.call = "readn" THEN rio ELSE [rio EXCEPT !.rio_cnt = -1]
    /\ UNCHANGED <<unsent, snd, chan, rcv, handed>>

\* The end of the stream ends the call: with what was read, or with 0.
ReadEof ==
    /\ rcv.pc = "read" /\ AtEnd
    /\ rcv.call # "readn" => rio.rio_cnt <= 0
    /\ rio' = IF rcv.call = "readn" THEN rio ELSE [rio EXCEPT !.rio_cnt = 0]
    /\ rcv' = Return(rcv, rcv.out, Len(rcv.out))
    /\ UNCHANGED <<unsent, snd, chan, handed, eintr>>

ReadFails ==
    /\ MayFail /\ rcv.pc = "read"
    /\ rcv.call # "readn" => rio.rio_cnt <= 0
    /\ rio' = IF rcv.call = "readn" THEN rio ELSE [rio EXCEPT !.rio_cnt = -1]
    /\ rcv' = Return(rcv, rcv.out, Error)
    /\ UNCHANGED <<unsent, snd, chan, handed, eintr>>

LineEnds_NoRoom(out, maxlen) == Last(out) = NL \/ Len(out) = maxlen

\* rio_readlineb: the loop ends with a newline or with maxlen - 1 bytes.
LineEnds(out, maxlen) == Last(out) = NL \/ Len(out) = maxlen - 1

Take_Short ==
    LET want == IF rcv.call = "line" THEN 1 ELSE rcv.n
        cnt  == IF rio.rio_cnt < want THEN rio.rio_cnt ELSE want
        out  == rcv.out \o SubSeq(rio.buf, 1, cnt)
        ends == rcv.call = "line" => LineEnds(out, rcv.n)
    IN  /\ rcv.pc = "read" /\ rcv.call # "readn" /\ rio.rio_cnt > 0
        /\ rio' = [rio_cnt |-> rio.rio_cnt - cnt,
                   buf |-> SubSeq(rio.buf, cnt + 1, Len(rio.buf))]
        /\ rcv' = IF ends THEN Return(rcv, out, Len(out)) ELSE [rcv EXCEPT !.out = out]
        /\ UNCHANGED <<unsent, snd, chan, handed, eintr>>

\* rio_read with bytes in the buffer: one byte for a line, min(n, rio_cnt)
\* for a block.
Take ==
    LET want == IF rcv.call = "line" THEN 1 ELSE rcv.n - Len(rcv.out)
        cnt  == IF rio.rio_cnt < want THEN rio.rio_cnt ELSE want
        out  == rcv.out \o SubSeq(rio.buf, 1, cnt)
        ends == IF rcv.call = "line" THEN LineEnds(out, rcv.n) ELSE Len(out) = rcv.n
    IN  /\ rcv.pc = "read" /\ rcv.call # "readn" /\ rio.rio_cnt > 0
        /\ rio' = [rio_cnt |-> rio.rio_cnt - cnt,
                   buf |-> SubSeq(rio.buf, cnt + 1, Len(rio.buf))]
        /\ rcv' = IF ends THEN Return(rcv, out, Len(out)) ELSE [rcv EXCEPT !.out = out]
        /\ UNCHANGED <<unsent, snd, chan, handed, eintr>>

\* rio_readn: read() into the buffer of the caller.
rio_readn(k) ==
    LET out == rcv.out \o SubSeq(chan, 1, k)
    IN  /\ rcv.pc = "read" /\ rcv.call = "readn"
        /\ Available(k, rcv.n - Len(rcv.out))
        /\ rcv' = IF Len(out) = rcv.n THEN Return(rcv, out, rcv.n)
                                      ELSE [rcv EXCEPT !.out = out]
        /\ chan' = SubSeq(chan, k + 1, Len(chan))
        /\ UNCHANGED <<unsent, snd, rio, handed, eintr>>

\* The reader of this model stops at a result that is not positive, an error
\* too; proxy.c:177 takes -1 for a length and calls again (see Proxy).  The bytes
\* that a call copied before its error count as handed out: the call has taken
\* them off the stream.
Use ==
    /\ rcv.pc = "returned"
    /\ handed' = handed \o rcv.out
    /\ rcv' = IF rcv.ret > 0
              THEN [NoCall EXCEPT !.pc = IF rcv.call = "readn" THEN "unbuffered" ELSE "idle"]
              ELSE [rcv EXCEPT !.pc = "closed", !.out = <<>>]
    /\ UNCHANGED <<unsent, snd, chan, rio, eintr>>

-----------------------------------------------------------------------------
Calls == {<<"line", n>> : n \in LineSizes} \cup ({"nb", "readn"} \X BlockSizes)

Writer ==
    \/ \E n \in WriteSizes : Writen(n)
    \/ \E k \in 1..Capacity : rio_writen(k)
    \/ WriteFails \/ CloseWriter

Reader ==
    \/ \E c \in Calls : Call(c[1], c[2])
    \/ \E k \in 1..Capacity : Refill(k) \/ rio_readn(k)
    \/ ReadEof \/ Take \/ Use

RioNext == Writer \/ Reader \/ WriteInterrupted \/ ReadInterrupted \/ ReadFails

-----------------------------------------------------------------------------
RioTypeOK ==
    /\ Len(chan) <= Capacity /\ Len(rio.buf) <= RIO_BUFSIZE
    /\ rio.rio_cnt > 0 => rio.rio_cnt = Len(rio.buf)
    /\ rcv.call = "line" => Len(rcv.out) < rcv.n
    /\ rcv.call # "line" => Len(rcv.out) <= rcv.n

Unread == IF rio.rio_cnt > 0 THEN rio.buf ELSE <<>>

(***************************************************************************)
(* csapp.c: at any moment the bytes handed out, those in the buffers of    *)
(* the reader, the kernel and the writer, and the rest are the data, in    *)
(* order: short reads and writes, refills and interrupts neither lose nor  *)
(* repeat one, however lines and blocks are mixed.                         *)
(***************************************************************************)
StreamIntact ==
    handed \o rcv.out \o Unread \o chan \o snd.left \o unsent = Data

Exhausted == AtEnd /\ Unread = <<>>

(***************************************************************************)
(* csapp.c rio_readlineb, rio_readnb, rio_readn: a line is returned up to  *)
(* its newline, if that is among the first maxlen - 1 bytes, and a block   *)
(* is returned whole; less is returned only at the end of the stream.      *)
(***************************************************************************)
CallsFilled ==
    rcv.pc = "returned" /\ rcv.ret # Error =>
        /\ rcv.ret = Len(rcv.out)
        /\ rcv.call = "line" =>
             /\ \A i \in 1..(Len(rcv.out) - 1) : rcv.out[i] # NL
             /\ \/ Exhausted
                \/ rcv.ret = rcv.n - 1
                \/ rcv.ret > 0 /\ Last(rcv.out) = NL
        /\ rcv.call # "line" => rcv.ret = rcv.n \/ Exhausted
=============================================================================
