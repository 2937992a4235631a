----------------------------- MODULE CsappProofs -----------------------------
(***************************************************************************)
(* Safety of the robust I/O package and of the two functions that open a   *)
(* connection, for every data, every size of calls and buffers and every   *)
(* list of addresses.                                                      *)
(***************************************************************************)
EXTENDS CsappInvariant, DataLemmas

-----------------------------------------------------------------------------
(* open_clientfd and open_listenfd.                                        *)

LEMMA OpenInit == SocketsInit => OpenInv
<1> SUFFICES ASSUME SocketsInit PROVE OpenInv
  OBVIOUS
<1>1. OpenType
  BY SocketsAssumption DEF SocketsInit, OpenType, OpenPcs
<1>2. \A s \in Sides : open[s].pc = "getaddrinfo"
  BY DEF SocketsInit
<1> QED
  BY <1>1, <1>2 DEF SocketsInit, OpenInv, OpensTidy, SideInv, FdsOf

\* A step of one side leaves what belongs to the other.
LEMMA OpenFrame ==
  ASSUME OpenType, NEW s \in Sides, OpenStep(s), NEW t \in Sides \ {s}
  PROVE  /\ open'[t] = open[t]
         /\ \A f \in Sides \X (1..NAddrs) : f[1] = t => (f \in fds' <=> f \in fds)
         /\ t \in lists' <=> t \in lists
<1>1. Fd(s)[1] = s
  BY DEF Fd
<1>2. open'[t] = open[t]
  BY DEF OpenType, OpenStep, GetAddrInfo, Socket, Connect, CloseFd, Cleanup, Listen
<1>3. fds' \in {fds, fds \cup {Fd(s)}, fds \ {Fd(s)}}
  BY DEF OpenStep, GetAddrInfo, Socket, Connect, CloseFd, Cleanup, Listen
<1>4. lists' \in {lists, lists \cup {s}, lists \ {s}}
  BY DEF OpenStep, GetAddrInfo, Socket, Connect, CloseFd, Cleanup, Listen
<1> QED
  BY <1>1, <1>2, <1>3, <1>4

\* What one side is left with after each of its steps.
Tidy(s) ==
    open[s].pc = "returned" =>
        /\ FdsOf(s) = IF open[s].ret > 0 THEN {<<s, open[s].ret>>} ELSE {}
        /\ s \in lists => open[s].kept

LEMMA TidyAll == OpensTidy <=> \A s \in Sides : Tidy(s)
BY DEF OpensTidy, Tidy, FdsOf

LEMMA OpenTypeStep ==
  ASSUME OpenInv, NEW s \in Sides, OpenStep(s) PROVE OpenType'
<1> USE DEF OpenInv, OpenType
<1>0. open[s] \in [pc : OpenPcs, p : 1..(NAddrs + 1), ret : -2..NAddrs, kept : BOOLEAN]
  OBVIOUS
<1>1. CASE GetAddrInfo(s)
  BY <1>0, <1>1, SocketsAssumption DEF GetAddrInfo, OpenPcs, GaiError
<1>2. CASE Socket(s)
  BY <1>0, <1>2, SocketsAssumption DEF Socket, OpenPcs, End, Fd
<1>3. CASE Connect(s)
  BY <1>0, <1>3, SocketsAssumption DEF Connect, OpenPcs
<1>4. CASE CloseFd(s)
  <2>1. open[s].p + 1 \in 1..(NAddrs + 1) /\ NoFd \in -2..NAddrs
    BY <1>0, <1>4, SocketsAssumption DEF CloseFd, SideInv, NoFd
  <2>2. \/ open' = [open EXCEPT ![s].pc = "socket", ![s].p = open[s].p + 1]
        \/ open' = [open EXCEPT ![s].pc = "returned", ![s].ret = NoFd, ![s].kept = TRUE]
    BY <1>4, Zenon DEF CloseFd
  <2>3. fds' \subseteq fds /\ lists' = lists
    BY <1>4 DEF CloseFd
  <2>4. CASE open' = [open EXCEPT ![s].pc = "socket", ![s].p = open[s].p + 1]
    BY <1>0, <2>1, <2>3, <2>4 DEF OpenPcs
  <2>5. CASE open' = [open EXCEPT ![s].pc = "returned", ![s].ret = NoFd, ![s].kept = TRUE]
    BY <1>0, <2>1, <2>3, <2>5 DEF OpenPcs
  <2> QED
    BY <2>2, <2>4, <2>5, Zenon
<1>5. CASE Cleanup(s)
  <2>1. NoFd \in -2..NAddrs /\ (~End(s) => open[s].p \in -2..NAddrs)
    BY <1>0, SocketsAssumption DEF NoFd, End
  <2>2. PICK r \in -2..NAddrs :
          \/ open' = [open EXCEPT ![s].pc = "returned", ![s].ret = r]
          \/ open' = [open EXCEPT ![s].pc = "listen"]
    BY <1>5, <2>1, Zenon DEF Cleanup
  <2>3. fds' = fds /\ lists' \subseteq lists
    BY <1>5 DEF Cleanup
  <2> QED
    BY <1>0, <2>2, <2>3 DEF OpenPcs
<1>6. CASE Listen(s)
  BY <1>0, <1>6, SocketsAssumption DEF Listen, OpenPcs, SideInv, NoFd
<1> QED
  BY <1>1, <1>2, <1>3, <1>4, <1>5, <1>6 DEF OpenStep

LEMMA SideStep ==
  ASSUME OpenInv, NEW s \in Sides, OpenStep(s) PROVE SideInv(s)' /\ Tidy(s)'
<1> USE DEF SideInv, Tidy, FdsOf, Fd
<1>0. /\ open[s] \in [pc : OpenPcs, p : 1..(NAddrs + 1), ret : -2..NAddrs, kept : BOOLEAN]
      /\ open \in [Sides -> [pc : OpenPcs, p : 1..(NAddrs + 1), ret : -2..NAddrs, kept : BOOLEAN]]
      /\ fds \subseteq Sides \X (1..NAddrs)
      /\ SideInv(s) /\ NAddrs \in Nat
  BY SocketsAssumption DEF OpenInv, OpenType
<1>1. CASE GetAddrInfo(s)
  BY <1>0, <1>1 DEF GetAddrInfo, GaiError
<1>2. CASE Socket(s)
  BY <1>0, <1>2 DEF Socket, End
<1>3. CASE Connect(s)
  BY <1>0, <1>3 DEF Connect
<1>4. CASE CloseFd(s)
  BY <1>0, <1>4 DEF CloseFd, NoFd
<1>5. CASE Cleanup(s)
  BY <1>0, <1>5 DEF Cleanup, End, NoFd
<1>6. CASE Listen(s)
  BY <1>0, <1>6 DEF Listen, NoFd
<1> QED
  BY <1>1, <1>2, <1>3, <1>4, <1>5, <1>6 DEF OpenStep

LEMMA OpenStepInv ==
  ASSUME OpenInv, NEW s \in Sides, OpenStep(s) PROVE OpenInv'
<1>1. OpenType'
  BY OpenTypeStep
<1>2. ASSUME NEW t \in Sides PROVE SideInv(t)' /\ Tidy(t)'
  <2>1. CASE t = s
    BY <2>1, SideStep
  <2>2. CASE t # s
    <3>1. /\ open'[t] = open[t]
          /\ t \in lists' <=> t \in lists
      BY <2>2, OpenFrame DEF OpenInv
    <3>2. FdsOf(t)' = FdsOf(t)
      BY <1>1, <2>2, OpenFrame DEF OpenInv, OpenType, FdsOf
    <3> QED
      BY <3>1, <3>2, TidyAll DEF OpenInv, SideInv, Tidy, Fd
  <2> QED
    BY <2>1, <2>2
<1>3. OpensTidy'
  BY <1>2 DEF OpensTidy, Tidy, FdsOf
<1> QED
  BY <1>1, <1>2, <1>3 DEF OpenInv

\* Whatever fails, the two calls keep their descriptors and lists in order.
THEOREM OpenInvariance == Spec => []OpenInv
<1>1. Init => OpenInv
  BY OpenInit DEF Init
<1>2. OpenInv /\ [Next]_vars => OpenInv'
  <2> SUFFICES ASSUME OpenInv, [Next]_vars PROVE OpenInv'
    OBVIOUS
  <2>1. CASE Open
    BY <2>1, OpenStepInv DEF Open
  <2>2. CASE UNCHANGED socketvars
    BY <2>2 DEF socketvars, OpenInv, OpenType, OpensTidy, SideInv, FdsOf, Fd
  <2> QED
    BY <2>1, <2>2 DEF Next, Transfer, vars
<1> QED
  BY <1>1, <1>2, PTL DEF Spec

\* open_clientfd and open_listenfd leave open the descriptor they return and
\* no other, and free the list of addresses unless close() failed.
THEOREM CallsOpenTidily == Spec => []OpensTidy
BY OpenInvariance, PTL DEF OpenInv

-----------------------------------------------------------------------------
(* The stream.                                                             *)

\* StreamIntact with the concatenation that the provers do not expand.
Stream(h, o, r, c, l, u) == Cat(Cat(Cat(Cat(Cat(h, o), r), c), l), u)

LEMMA StreamForm ==
  StreamIntact <=> Stream(handed, rcv.out, Unread, chan, snd.left, unsent) = Data
BY Zenon DEF StreamIntact, Stream, Cat

LEMMA StreamFormNext ==
  StreamIntact' <=> Stream(handed', rcv'.out, Unread', chan', snd'.left, unsent') = Data
BY Zenon DEF StreamIntact, Stream, Cat

\* The buffers are sequences of bytes.
LEMMA Buffers ==
  ASSUME RioType
  PROVE  /\ handed \in Seq(Bytes) /\ rcv.out \in Seq(Bytes) /\ Unread \in Seq(Bytes)
         /\ rio.buf \in Seq(Bytes) /\ chan \in Seq(Bytes) /\ snd.left \in Seq(Bytes)
         /\ unsent \in Seq(Bytes) /\ <<>> \in Seq(Bytes)
<1>1. <<>> \in Seq(Bytes)
  OBVIOUS
<1> QED
  BY <1>1 DEF RioType, Unread

\* The places of the stream where bytes are moved.
Moves(h, o, r, b, c, l, u) ==
  /\ \A k \in 0..Len(u) :
       Stream(h, o, r, c, SubSeq(u, 1, k), SubSeq(u, k + 1, Len(u))) = Stream(h, o, r, c, <<>>, u)
  /\ \A k \in 0..Len(l) :
       Stream(h, o, r, Cat(c, SubSeq(l, 1, k)), SubSeq(l, k + 1, Len(l)), u)
         = Stream(h, o, r, c, l, u)
  /\ \A k \in 0..Len(c) :
       /\ Stream(h, o, SubSeq(c, 1, k), SubSeq(c, k + 1, Len(c)), l, u)
            = Stream(h, o, <<>>, c, l, u)
       /\ Stream(h, Cat(o, SubSeq(c, 1, k)), <<>>, SubSeq(c, k + 1, Len(c)), l, u)
            = Stream(h, o, <<>>, c, l, u)
  /\ \A k \in 0..Len(b) :
       Stream(h, Cat(o, SubSeq(b, 1, k)), SubSeq(b, k + 1, Len(b)), c, l, u)
         = Stream(h, o, b, c, l, u)
  /\ Stream(Cat(h, o), <<>>, r, c, l, u) = Stream(h, o, r, c, l, u)

LEMMA StreamMoves ==
  ASSUME NEW S, NEW h \in Seq(S), NEW o \in Seq(S), NEW r \in Seq(S), NEW b \in Seq(S),
         NEW c \in Seq(S), NEW l \in Seq(S), NEW u \in Seq(S)
  PROVE  Moves(h, o, r, b, c, l, u)
<1>1. PICK p2 : p2 = Cat(h, o)
  OBVIOUS
<1>2. PICK p3 : p3 = Cat(p2, r)
  OBVIOUS
<1>3. PICK p4 : p4 = Cat(p3, c)
  OBVIOUS
<1>4. p2 \in Seq(S)
  BY <1>1, CatType
<1>5. p3 \in Seq(S)
  BY <1>2, <1>4, CatType
<1>6. p4 \in Seq(S)
  BY <1>3, <1>5, CatType
<1>7. PICK e \in Seq(S) : e = <<>>
  <2>1. <<>> \in Seq(S)
    OBVIOUS
  <2> QED
    BY <2>1, Zenon
<1>8. ASSUME NEW k \in 0..Len(u)
      PROVE  Stream(h, o, r, c, SubSeq(u, 1, k), SubSeq(u, k + 1, Len(u)))
                = Stream(h, o, r, c, <<>>, u)
  <2>1. Cat(Cat(p4, Cat(e, SubSeq(u, 1, k))), SubSeq(u, k + 1, Len(u)))
          = Cat(Cat(p4, e), u)
    BY <1>6, MoveLeft
  <2>2. Cat(<<>>, SubSeq(u, 1, k)) = SubSeq(u, 1, k)
    BY Cuts, CatType
  <2> QED
    BY <1>1, <1>2, <1>3, <1>7, <2>1, <2>2, Zenon DEF Stream
<1>9. ASSUME NEW k \in 0..Len(l)
      PROVE  Stream(h, o, r, Cat(c, SubSeq(l, 1, k)), SubSeq(l, k + 1, Len(l)), u)
                = Stream(h, o, r, c, l, u)
  <2>1. Cat(Cat(p3, Cat(c, SubSeq(l, 1, k))), SubSeq(l, k + 1, Len(l))) = Cat(Cat(p3, c), l)
    BY <1>5, MoveLeft
  <2> QED
    BY <1>1, <1>2, <2>1, Zenon DEF Stream
<1>10. ASSUME NEW k \in 0..Len(c)
       PROVE  /\ Stream(h, o, SubSeq(c, 1, k), SubSeq(c, k + 1, Len(c)), l, u)
                   = Stream(h, o, <<>>, c, l, u)
              /\ Stream(h, Cat(o, SubSeq(c, 1, k)), <<>>, SubSeq(c, k + 1, Len(c)), l, u)
                   = Stream(h, o, <<>>, c, l, u)
  <2>1. PICK a : a = SubSeq(c, 1, k)
    OBVIOUS
  <2>2. PICK d : d = SubSeq(c, k + 1, Len(c))
    OBVIOUS
  <2>3. a \in Seq(S)
    BY <2>1, Cuts
  <2>4. Cat(Cat(p2, Cat(e, a)), d) = Cat(Cat(p2, e), c)
    BY <1>4, <2>1, <2>2, MoveLeft
  <2>5. Cat(Cat(h, Cat(o, a)), d) = Cat(Cat(h, o), c)
    BY <2>1, <2>2, MoveLeft
  <2>6. Cat(<<>>, a) = a /\ Cat(o, a) \in Seq(S)
    BY <2>3, CatType
  <2>7. Cat(h, Cat(o, a)) \in Seq(S)
    BY <2>6, CatType
  <2>8. Cat(Cat(h, Cat(o, a)), <<>>) = Cat(h, Cat(o, a)) /\ Cat(p2, <<>>) = p2
    BY <1>4, <2>7, CatType
  <2> QED
    BY <1>1, <1>7, <2>1, <2>2, <2>4, <2>5, <2>6, <2>8, Zenon DEF Stream
<1>11. ASSUME NEW k \in 0..Len(b)
       PROVE  Stream(h, Cat(o, SubSeq(b, 1, k)), SubSeq(b, k + 1, Len(b)), c, l, u)
                = Stream(h, o, b, c, l, u)
  <2>1. Cat(Cat(h, Cat(o, SubSeq(b, 1, k))), SubSeq(b, k + 1, Len(b))) = Cat(Cat(h, o), b)
    BY MoveLeft
  <2> QED
    BY <2>1, Zenon DEF Stream
<1>12. Cat(Cat(h, o), <<>>) = Cat(h, o)
  BY <1>1, <1>4, CatType
<1> QED
  <2>1. Stream(Cat(h, o), <<>>, r, c, l, u) = Stream(h, o, r, c, l, u)
    BY <1>12, Zenon DEF Stream
  <2> QED
    BY <1>8, <1>9, <1>10, <1>11, <2>1, Zenon DEF Moves

LEMMA MovesHere ==
  ASSUME RioType PROVE Moves(handed, rcv.out, Unread, rio.buf, chan, snd.left, unsent)
BY Buffers, StreamMoves, Zenon

LEMMA RioStart == RioInit => RioInv
<1> SUFFICES ASSUME RioInit PROVE RioInv
  OBVIOUS
<1>1. Data \in Seq(Bytes) /\ <<>> \in Seq(Bytes) /\ Len(<<>>) = 0
  BY RioAssumption DEF Bytes
<1>2. PICK c \in {"idle", "unbuffered"} :
        rcv = [pc |-> c, call |-> "none", n |-> 0, out |-> <<>>, ret |-> 0]
  BY DEF RioInit, NoCall
<1>3. /\ unsent = Data /\ snd = [pc |-> "idle", left |-> <<>>] /\ chan = <<>>
      /\ rio = [rio_cnt |-> 0, buf |-> <<>>] /\ handed = <<>>
  BY DEF RioInit, rio_readinitb
<1>4. RioType
  BY <1>1, <1>2, <1>3 DEF RioType
<1>5. RioTypeOK
  BY <1>1, <1>2, <1>3, RioAssumption DEF RioTypeOK
<1>6. IdleInv /\ CallInv /\ CallsFilled
  BY <1>2, <1>3 DEF IdleInv, CallInv, CallsFilled
<1>7. Unread = <<>> /\ rcv.out = <<>> /\ snd.left = <<>>
  BY <1>2, <1>3 DEF Unread
<1>8. Cat(<<>>, <<>>) = <<>> /\ Cat(<<>>, Data) = Data
  BY <1>1, CatType
<1>9. Stream(<<>>, <<>>, <<>>, <<>>, <<>>, Data) = Data
  BY <1>8, Zenon DEF Stream
<1> QED
  BY <1>3, <1>4, <1>5, <1>6, <1>7, <1>9, StreamForm DEF RioInv

-----------------------------------------------------------------------------
(* The writer.                                                             *)

\* A step that leaves the reader alone and does not take back the end of the
\* stream leaves its call as complete as it was.
LEMMA ReaderKept ==
  ASSUME RioInv, UNCHANGED <<rio, rcv>>, Exhausted => Exhausted'
  PROVE  CallsFilled' /\ CallInv'
BY DEF RioInv, CallsFilled, CallInv

LEMMA WritenStep ==
  ASSUME RioInv, NEW n \in WriteSizes, Writen(n) PROVE RioInv'
<1> USE DEF RioInv
<1>0. /\ handed \in Seq(Bytes) /\ rcv.out \in Seq(Bytes) /\ Unread \in Seq(Bytes)
      /\ chan \in Seq(Bytes) /\ unsent \in Seq(Bytes) /\ snd.left = <<>>
      /\ <<>> \in Seq(Bytes)
  BY Buffers DEF Writen, IdleInv
<1>1. n \in 0..Len(unsent)
  BY <1>0, RioAssumption DEF Writen
<1>2. PICK a : a = SubSeq(unsent, 1, n)
  OBVIOUS
<1>3. PICK b : b = SubSeq(unsent, n + 1, Len(unsent))
  OBVIOUS
<1>4. a \in Seq(Bytes) /\ b \in Seq(Bytes)
  BY <1>0, <1>1, <1>2, <1>3, Cuts
<1>5. /\ snd.pc = "idle" /\ snd' = [pc |-> "write", left |-> a] /\ unsent' = b
      /\ UNCHANGED <<chan, rio, rcv, handed>>
  BY <1>2, <1>3 DEF Writen
<1>6. snd'.left = a /\ snd'.pc = "write" /\ Unread' = Unread
  BY <1>5 DEF Unread
<1>7. RioType'
  BY <1>4, <1>5 DEF RioType
<1>8. RioTypeOK' /\ IdleInv'
  BY <1>5, <1>6 DEF RioTypeOK, IdleInv
<1>9. ~Exhausted
  BY <1>5 DEF Exhausted, AtEnd, WriterEnded
<1>10. Stream(handed, rcv.out, Unread, chan, a, b)
         = Stream(handed, rcv.out, Unread, chan, <<>>, unsent)
  BY <1>1, <1>2, <1>3, MovesHere, Zenon DEF Moves
<1>11. StreamIntact'
  <2>1. handed' = handed /\ rcv' = rcv /\ chan' = chan
    BY <1>5
  <2> QED
    BY <1>0, <1>5, <1>6, <1>10, <2>1, StreamForm, StreamFormNext, Zenon
<1> QED
  BY <1>5, <1>7, <1>8, <1>9, <1>11, ReaderKept

LEMMA rio_writenStep ==
  ASSUME RioInv, NEW k \in 1..Capacity, rio_writen(k) PROVE RioInv'
<1> USE DEF RioInv
<1>0. /\ handed \in Seq(Bytes) /\ rcv.out \in Seq(Bytes) /\ Unread \in Seq(Bytes)
      /\ chan \in Seq(Bytes) /\ unsent \in Seq(Bytes) /\ snd.left \in Seq(Bytes)
      /\ Capacity \in Nat
  BY Buffers, RioAssumption
<1>1. k \in 0..Len(snd.left) /\ k <= Capacity - Len(chan)
  BY <1>0 DEF rio_writen
<1>2. PICK a : a = SubSeq(snd.left, 1, k)
  OBVIOUS
<1>3. PICK b : b = SubSeq(snd.left, k + 1, Len(snd.left))
  OBVIOUS
<1>4. a \in Seq(Bytes) /\ Len(a) = k /\ b \in Seq(Bytes)
  BY <1>0, <1>1, <1>2, <1>3, Cuts
<1>5. /\ snd.pc = "write"
      /\ snd' = [pc |-> IF b = <<>> THEN "idle" ELSE "write", left |-> b]
      /\ chan' = chan \o a
      /\ UNCHANGED <<unsent, rio, rcv, handed>>
  BY <1>2, <1>3 DEF rio_writen
<1>6. chan' = Cat(chan, a)
  BY <1>5 DEF Cat
<1>7. chan' \in Seq(Bytes) /\ Len(chan') <= Capacity
  <2>1. Cat(chan, a) \in Seq(Bytes) /\ Len(Cat(chan, a)) = Len(chan) + Len(a)
    BY <1>0, <1>4, CatType
  <2>2. Len(chan) \in Nat
    BY <1>0
  <2> QED
    BY <1>0, <1>1, <1>4, <1>6, <2>1, <2>2
<1>8. snd'.left = b /\ snd'.pc \in {"idle", "write"} /\ Unread' = Unread
  BY <1>5 DEF Unread
<1>9. RioType'
  BY <1>4, <1>5, <1>7 DEF RioType
<1>10. RioTypeOK' /\ IdleInv'
  BY <1>5, <1>7, <1>8 DEF RioTypeOK, IdleInv
<1>11. ~Exhausted
  BY <1>5 DEF Exhausted, AtEnd, WriterEnded
<1>12. Stream(handed, rcv.out, Unread, Cat(chan, a), b, unsent)
         = Stream(handed, rcv.out, Unread, chan, snd.left, unsent)
  BY <1>1, <1>2, <1>3, MovesHere, Zenon DEF Moves
<1>13. StreamIntact'
  <2>1. handed' = handed /\ rcv' = rcv /\ unsent' = unsent
    BY <1>5
  <2> QED
    BY <1>6, <1>8, <1>12, <2>1, StreamForm, StreamFormNext, Zenon
<1> QED
  BY <1>5, <1>9, <1>10, <1>11, <1>13, ReaderKept

\* An interrupt, the end of the stream and the end of the writer.
LEMMA WriterEnds ==
  ASSUME RioInv, WriteInterrupted \/ WriteFails \/ CloseWriter PROVE RioInv'
<1> USE DEF RioInv
<1>0. snd \in [pc : {"idle", "write", "closed", "failed"}, left : Seq(Bytes)]
  BY DEF RioType
<1>1. UNCHANGED <<unsent, chan, rio, rcv, handed>>
  BY DEF WriteInterrupted, WriteFails, CloseWriter
<1>2. \/ snd' = snd
      \/ /\ snd' \in [pc : {"idle", "write", "closed", "failed"}, left : Seq(Bytes)]
         /\ snd'.left = snd.left /\ snd'.pc \in {"failed", "closed"}
         /\ snd'.pc = "closed" => snd.pc = "idle"
  BY <1>0 DEF WriteInterrupted, WriteFails, CloseWriter
<1>3. RioType' /\ RioTypeOK' /\ IdleInv'
  BY <1>1, <1>2 DEF RioType, RioTypeOK, IdleInv
<1>4. Unread' = Unread /\ snd'.left = snd.left
  BY <1>1, <1>2 DEF Unread
<1>5. Exhausted => Exhausted'
  BY <1>1, <1>2, <1>4 DEF Exhausted, AtEnd, WriterEnded
<1>6. StreamIntact'
  BY <1>1, <1>4, StreamForm, StreamFormNext
<1> QED
  BY <1>1, <1>3, <1>5, <1>6, ReaderKept

-----------------------------------------------------------------------------
(* The reader.                                                             *)

RcvType ==
  [pc : {"idle", "unbuffered", "read", "returned", "closed"},
   call : {"none", "line", "nb", "readn"}, n : Nat, out : Seq(Bytes), ret : Int]

\* What the two ways to go on with a call change.
LEMMA ReturnFields ==
  ASSUME RioType, NEW o \in Seq(Bytes), NEW v \in Int
  PROVE  /\ Return(rcv, o, v) \in RcvType /\ Return(rcv, o, v).pc = "returned"
         /\ Return(rcv, o, v).out = o /\ Return(rcv, o, v).ret = v
         /\ Return(rcv, o, v).call = rcv.call /\ Return(rcv, o, v).n = rcv.n
BY DEF RioType, RcvType, Return

LEMMA GoOnFields ==
  ASSUME RioType, NEW o \in Seq(Bytes), NEW r, r = [rcv EXCEPT !.out = o]
  PROVE  /\ r \in RcvType /\ r.pc = rcv.pc /\ r.out = o /\ r.ret = rcv.ret
         /\ r.call = rcv.call /\ r.n = rcv.n
BY DEF RioType, RcvType

\* A read that brings no byte: the buffer was and stays empty.
LEMMA NoByte ==
  ASSUME RioInv, rcv.pc = "read", rcv.call # "readn" => rio.rio_cnt <= 0,
         NEW m \in {-1, 0},
         rio' = IF rcv.call = "readn" THEN rio ELSE [rio EXCEPT !.rio_cnt = m]
  PROVE  /\ rio' \in [rio_cnt : Int, buf : Seq(Bytes)] /\ rio'.buf = rio.buf
         /\ rio.rio_cnt <= 0 /\ rio'.rio_cnt <= 0 /\ Unread = <<>> /\ Unread' = <<>>
<1> USE DEF RioInv
<1>1. rio \in [rio_cnt : Int, buf : Seq(Bytes)] /\ rio.rio_cnt <= 0
  BY DEF RioType, IdleInv
<1>2. rio' \in [rio_cnt : Int, buf : Seq(Bytes)] /\ rio'.buf = rio.buf /\ rio'.rio_cnt <= 0
  BY <1>1
<1> QED
  BY <1>1, <1>2 DEF Unread

LEMMA CallStep ==
  ASSUME RioInv, NEW c \in Calls, Call(c[1], c[2]) PROVE RioInv'
<1> USE DEF RioInv
<1>1. PICK op, n : c = <<op, n>> /\ op \in {"line", "nb", "readn"} /\ n \in Nat \ {0}
                     /\ (op = "line" => n >= 2)
  BY RioAssumption DEF Calls
<1>2. /\ rcv.pc = IF op = "readn" THEN "unbuffered" ELSE "idle"
      /\ rcv' = [pc |-> "read", call |-> op, n |-> n, out |-> <<>>, ret |-> 0]
      /\ UNCHANGED <<unsent, snd, chan, rio, handed>>
  BY <1>1 DEF Call, NoCall
<1>3. /\ rcv'.pc = "read" /\ rcv'.call = op /\ rcv'.n = n /\ rcv'.out = <<>>
      /\ rcv.out = <<>> /\ Unread' = Unread /\ Len(<<>>) = 0
  BY <1>2 DEF IdleInv, Unread
<1>4. rcv' \in RcvType
  <2>1. <<>> \in Seq(Bytes)
    OBVIOUS
  <2> QED
    BY <1>1, <1>2, <2>1 DEF RcvType
<1>5. RioType'
  BY <1>2, <1>4 DEF RioType, RcvType
<1>6. RioTypeOK' /\ IdleInv'
  BY <1>1, <1>2, <1>3 DEF RioTypeOK, IdleInv
<1>7. CallInv' /\ CallsFilled'
  BY <1>1, <1>3 DEF CallInv, CallsFilled
<1>8. StreamIntact'
  <2>1. handed' = handed /\ chan' = chan /\ snd' = snd /\ unsent' = unsent
    BY <1>2
  <2> QED
    BY <1>3, <2>1, StreamForm, StreamFormNext, Zenon
<1> QED
  BY <1>5, <1>6, <1>7, <1>8

LEMMA RefillStep ==
  ASSUME RioInv, NEW k \in 1..Capacity, Refill(k) PROVE RioInv'
<1> USE DEF RioInv
<1>0. chan \in Seq(Bytes) /\ RIO_BUFSIZE \in Nat /\ rio.rio_cnt \in Int
  BY RioAssumption DEF RioType
<1>1. k \in 0..Len(chan) /\ k > 0 /\ k <= RIO_BUFSIZE
  BY <1>0 DEF Refill, Available
<1>2. PICK a : a = SubSeq(chan, 1, k)
  OBVIOUS
<1>3. PICK b : b = SubSeq(chan, k + 1, Len(chan))
  OBVIOUS
<1>4. a \in Seq(Bytes) /\ Len(a) = k /\ b \in Seq(Bytes) /\ Len(b) = Len(chan) - k
  BY <1>0, <1>1, <1>2, <1>3, Cuts
<1>5. /\ rcv.pc = "read" /\ rcv.call # "readn" /\ rio.rio_cnt <= 0
      /\ rio' = [rio_cnt |-> k, buf |-> a] /\ chan' = b
      /\ UNCHANGED <<unsent, snd, rcv, handed>>
  BY <1>2, <1>3 DEF Refill
<1>6. rio'.rio_cnt = k /\ rio'.buf = a /\ Unread = <<>> /\ Unread' = a
  BY <1>0, <1>1, <1>5 DEF Unread
<1>7. RioType'
  BY <1>4, <1>5 DEF RioType
<1>8. RioTypeOK' /\ IdleInv'
  BY <1>0, <1>1, <1>4, <1>5, <1>6, RioAssumption DEF RioTypeOK, IdleInv
<1>9. CallInv' /\ CallsFilled'
  BY <1>5 DEF CallInv, CallsFilled
<1>10. StreamIntact'
  <2>1. handed' = handed /\ rcv' = rcv /\ snd' = snd /\ unsent' = unsent /\ chan' = b
    BY <1>5
  <2>2. Stream(handed, rcv.out, a, b, snd.left, unsent)
          = Stream(handed, rcv.out, <<>>, chan, snd.left, unsent)
    BY <1>1, <1>2, <1>3, MovesHere, Zenon DEF Moves
  <2> QED
    BY <1>6, <2>1, <2>2, StreamForm, StreamFormNext, Zenon
<1> QED
  BY <1>7, <1>8, <1>9, <1>10

LEMMA ReadInterruptedStep ==
  ASSUME RioInv, ReadInterrupted PROVE RioInv'
<1> USE DEF RioInv
<1>1. /\ rcv.pc = "read" /\ rio' \in [rio_cnt : Int, buf : Seq(Bytes)] /\ rio'.buf = rio.buf
      /\ rio'.rio_cnt <= 0 /\ Unread = <<>> /\ Unread' = <<>>
  BY NoByte DEF ReadInterrupted
<1>2. unsent' = unsent /\ snd' = snd /\ chan' = chan /\ rcv' = rcv /\ handed' = handed
  BY DEF ReadInterrupted
<1>3. RioType'
  BY <1>1, <1>2 DEF RioType
<1>4. RioTypeOK' /\ IdleInv' /\ CallInv' /\ CallsFilled'
  BY <1>1, <1>2, <1>3 DEF RioTypeOK, IdleInv, CallInv, CallsFilled, RioType
<1>5. StreamIntact'
  BY <1>1, <1>2, StreamForm, StreamFormNext, Zenon
<1> QED
  BY <1>3, <1>4, <1>5

\* The end of the stream, or an error, ends the call with what was read.
LEMMA ReadEndsStep ==
  ASSUME RioInv, ReadEof \/ ReadFails PROVE RioInv'
<1> USE DEF RioInv
<1>0. rcv.out \in Seq(Bytes) /\ rcv.n \in Nat /\ Error \in Int
  BY DEF RioType, Error
<1>1. PICK v \in {Len(rcv.out), Error}, m \in {-1, 0} :
        /\ rcv' = Return(rcv, rcv.out, v)
        /\ rio' = IF rcv.call = "readn" THEN rio ELSE [rio EXCEPT !.rio_cnt = m]
        /\ v # Error => AtEnd
  BY DEF ReadEof, ReadFails
<1>2. /\ rcv.pc = "read" /\ (rcv.call # "readn" => rio.rio_cnt <= 0)
      /\ unsent' = unsent /\ snd' = snd /\ chan' = chan /\ handed' = handed
  BY DEF ReadEof, ReadFails
<1>3. /\ rio' \in [rio_cnt : Int, buf : Seq(Bytes)] /\ rio'.buf = rio.buf
      /\ rio'.rio_cnt <= 0 /\ Unread = <<>> /\ Unread' = <<>>
  BY <1>1, <1>2, NoByte
<1>4. /\ rcv' \in RcvType /\ rcv'.pc = "returned" /\ rcv'.out = rcv.out /\ rcv'.ret = v
      /\ rcv'.call = rcv.call /\ rcv'.n = rcv.n
  <2>1. v \in Int /\ rcv' = Return(rcv, rcv.out, v)
    BY <1>0, <1>1
  <2> QED
    BY <1>0, <2>1, ReturnFields, Zenon
<1>5. RioType'
  BY <1>2, <1>3, <1>4 DEF RioType, RcvType
<1>6. RioTypeOK' /\ IdleInv' /\ CallInv'
  BY <1>2, <1>3, <1>4, <1>5 DEF RioTypeOK, IdleInv, CallInv, RioType
<1>7. CallsFilled'
  <2> SUFFICES ASSUME v # Error PROVE CallsFilled'
    BY <1>4 DEF CallsFilled
  <2>1. Exhausted' /\ v = Len(rcv.out)
    BY <1>1, <1>2, <1>3 DEF Exhausted, AtEnd, WriterEnded
  <2>2. rcv.call = "line" => \A i \in 1..(Len(rcv.out) - 1) : rcv.out[i] # NL
    BY <1>0, <1>2 DEF CallInv
  <2> QED
    BY <1>4, <2>1, <2>2 DEF CallsFilled
<1>8. StreamIntact'
  BY <1>2, <1>3, <1>4, StreamForm, StreamFormNext, Zenon
<1> QED
  BY <1>5, <1>6, <1>7, <1>8

\* Bytes that are appended to what a call has read leave the others in place.
LEMMA Appended ==
  ASSUME NEW S, NEW x \in Seq(S), NEW y \in Seq(S), Len(y) > 0
  PROVE  /\ Cat(x, y) \in Seq(S) /\ Len(Cat(x, y)) = Len(x) + Len(y)
         /\ \A i \in 1..Len(x) : Cat(x, y)[i] = x[i]
         /\ Len(y) = 1 => Last(Cat(x, y)) = Cat(x, y)[Len(x) + 1]
<1>1. Cat(x, y) \in Seq(S) /\ Len(Cat(x, y)) = Len(x) + Len(y)
  BY CatType
<1>2. \A i \in 1..Len(x) : Cat(x, y)[i] = x[i]
  BY DEF Cat
<1> QED
  BY <1>1, <1>2 DEF Last

\* The call goes on or returns with what it has read and the bytes y.
LEMMA CallGrows ==
  ASSUME RioInv, rcv.pc = "read", NEW y \in Seq(Bytes), Len(y) > 0,
         rcv.call = "line" => Len(y) = 1,
         rcv.call # "line" => Len(rcv.out) + Len(y) <= rcv.n,
         NEW o, o = Cat(rcv.out, y),
         NEW ends \in BOOLEAN,
         ends <=> IF rcv.call = "line" THEN LineEnds(o, rcv.n) ELSE Len(o) = rcv.n,
         rcv' = IF ends THEN Return(rcv, o, Len(o)) ELSE [rcv EXCEPT !.out = o]
  PROVE  /\ rcv' \in RcvType /\ rcv'.out = o /\ rcv'.call = rcv.call /\ rcv'.n = rcv.n
         /\ rcv'.pc \in {"read", "returned"}
         /\ rcv.call = "line" => Len(rcv'.out) < rcv.n
         /\ rcv.call # "line" => Len(rcv'.out) <= rcv.n
         /\ CallInv' /\ CallsFilled'
<1> USE DEF RioInv
<1>1. rcv.out \in Seq(Bytes) /\ rcv.n \in Nat
  BY DEF RioType
<1>2. /\ o \in Seq(Bytes) /\ Len(o) = Len(rcv.out) + Len(y)
      /\ \A i \in 1..Len(rcv.out) : o[i] = rcv.out[i]
      /\ Len(y) = 1 => Last(o) = o[Len(rcv.out) + 1]
  BY <1>1, Appended
<1>3. Len(o) \in Int /\ Len(y) \in Nat /\ Len(rcv.out) \in Nat
  BY <1>1, <1>2
<1>4. /\ rcv' \in RcvType /\ rcv'.out = o /\ rcv'.call = rcv.call /\ rcv'.n = rcv.n
      /\ ends => rcv'.pc = "returned" /\ rcv'.ret = Len(o)
      /\ ~ends => rcv'.pc = "read"
  <2>1. CASE ends
    <3>1. PICK v \in Int : v = Len(o)
      BY <1>3
    <3>2. rcv' = Return(rcv, o, v)
      BY <2>1, <3>1
    <3>3. o \in Seq(Bytes)
      BY <1>2
    <3>4. /\ Return(rcv, o, v) \in RcvType /\ Return(rcv, o, v).pc = "returned"
          /\ Return(rcv, o, v).out = o /\ Return(rcv, o, v).ret = v
          /\ Return(rcv, o, v).call = rcv.call /\ Return(rcv, o, v).n = rcv.n
      BY <3>3, ReturnFields
    <3> QED
      BY <2>1, <3>1, <3>2, <3>4, Zenon
  <2>2. CASE ~ends
    <3>1. rcv' = [rcv EXCEPT !.out = o]
      BY <2>2
    <3> QED
      BY <1>2, <2>2, <3>1, GoOnFields, Zenon
  <2> QED
    BY <2>1, <2>2
<1>5. rcv.call = "line" =>
        /\ rcv.n >= 2 /\ Len(o) <= rcv.n - 1
        /\ \A i \in 1..(Len(o) - 1) : o[i] # NL
        /\ ends <=> (o[Len(o)] = NL \/ Len(o) = rcv.n - 1)
  <2> SUFFICES ASSUME rcv.call = "line"
               PROVE  /\ rcv.n >= 2 /\ Len(o) <= rcv.n - 1
                      /\ \A i \in 1..(Len(o) - 1) : o[i] # NL
                      /\ ends <=> (o[Len(o)] = NL \/ Len(o) = rcv.n - 1)
    OBVIOUS
  <2>1. /\ rcv.n >= 2 /\ Len(rcv.out) < rcv.n - 1 /\ Len(y) = 1
        /\ \A i \in 1..Len(rcv.out) : rcv.out[i] # NL
    BY DEF CallInv
  <2>2. Len(o) = Len(rcv.out) + 1 /\ Len(o) <= rcv.n - 1 /\ Last(o) = o[Len(o)]
    BY <1>1, <1>2, <1>3, <2>1
  <2>3. \A i \in 1..(Len(o) - 1) : o[i] # NL
    BY <1>2, <1>3, <2>1, <2>2
  <2>4. ends <=> (Last(o) = NL \/ Len(o) = rcv.n - 1)
    BY DEF LineEnds
  <2> QED
    BY <2>1, <2>2, <2>3, <2>4
<1>6. rcv.call # "line" => Len(o) <= rcv.n /\ (ends <=> Len(o) = rcv.n)
  BY <1>2
<1>7. CallInv'
  <2>1. rcv.call # "none"
    BY DEF CallInv
  <2>2. ~ends /\ rcv.call = "line" =>
          Len(o) < rcv.n - 1 /\ \A i \in 1..Len(o) : o[i] # NL
    BY <1>1, <1>2, <1>3, <1>5
  <2>3. ~ends /\ rcv.call # "line" => Len(o) < rcv.n
    BY <1>1, <1>3, <1>6
  <2> QED
    BY <1>4, <1>5, <2>1, <2>2, <2>3 DEF CallInv
<1>8. CallsFilled'
  <2>1. Len(o) > 0 /\ Last(o) = o[Len(o)]
    BY <1>2, <1>3 DEF Last
  <2> QED
    BY <1>4, <1>5, <1>6, <2>1 DEF CallsFilled
<1>9. rcv'.pc \in {"read", "returned"}
  BY <1>4
<1>10. /\ rcv.call = "line" => Len(o) < rcv.n
       /\ rcv.call # "line" => Len(o) <= rcv.n
  BY <1>1, <1>3, <1>5, <1>6
<1> QED
  BY <1>4, <1>7, <1>8, <1>9, <1>10

LEMMA TakeStep ==
  ASSUME RioInv, Take PROVE RioInv'
<1> USE DEF RioInv
<1>0. /\ rio.buf \in Seq(Bytes) /\ rio.rio_cnt \in Int /\ rcv.out \in Seq(Bytes)
      /\ rcv.n \in Nat /\ Len(rio.buf) \in Nat /\ Len(rcv.out) \in Nat
  BY DEF RioType
<1>1. /\ rcv.pc = "read" /\ rcv.call # "readn" /\ rio.rio_cnt > 0
      /\ rio.rio_cnt = Len(rio.buf) /\ Len(rio.buf) <= RIO_BUFSIZE
  BY DEF Take, RioTypeOK
<1>2. PICK want : want = IF rcv.call = "line" THEN 1 ELSE rcv.n - Len(rcv.out)
  OBVIOUS
<1>3. PICK cnt : cnt = IF rio.rio_cnt < want THEN rio.rio_cnt ELSE want
  OBVIOUS
<1>4. /\ cnt \in 0..Len(rio.buf) /\ cnt > 0
      /\ rcv.call = "line" => cnt = 1
      /\ rcv.call # "line" => cnt <= rcv.n - Len(rcv.out)
  BY <1>0, <1>1, <1>2, <1>3 DEF CallInv
<1>5. PICK y : y = SubSeq(rio.buf, 1, cnt)
  OBVIOUS
<1>6. PICK b : b = SubSeq(rio.buf, cnt + 1, Len(rio.buf))
  OBVIOUS
<1>7. y \in Seq(Bytes) /\ Len(y) = cnt /\ b \in Seq(Bytes) /\ Len(b) = Len(rio.buf) - cnt
  BY <1>0, <1>4, <1>5, <1>6, Cuts
<1>8. PICK o : o = Cat(rcv.out, y)
  OBVIOUS
<1>9. PICK ends \in BOOLEAN :
        ends <=> IF rcv.call = "line" THEN LineEnds(o, rcv.n) ELSE Len(o) = rcv.n
  OBVIOUS
<1>10. /\ rio' = [rio_cnt |-> rio.rio_cnt - cnt, buf |-> b]
       /\ rcv' = IF ends THEN Return(rcv, o, Len(o)) ELSE [rcv EXCEPT !.out = o]
       /\ unsent' = unsent /\ snd' = snd /\ chan' = chan /\ handed' = handed
  BY <1>2, <1>3, <1>5, <1>6, <1>8, <1>9 DEF Take, Cat
<1>11. /\ rcv' \in RcvType /\ rcv'.out = o /\ rcv'.call = rcv.call /\ rcv'.n = rcv.n
       /\ rcv'.pc \in {"read", "returned"}
       /\ rcv.call = "line" => Len(rcv'.out) < rcv.n
       /\ rcv.call # "line" => Len(rcv'.out) <= rcv.n
       /\ CallInv' /\ CallsFilled'
  <2>1. Len(y) > 0 /\ (rcv.call = "line" => Len(y) = 1)
        /\ (rcv.call # "line" => Len(rcv.out) + Len(y) <= rcv.n)
    BY <1>0, <1>4, <1>7
  <2>2. rcv' = IF ends THEN Return(rcv, o, Len(o)) ELSE [rcv EXCEPT !.out = o]
    BY <1>10
  <2> QED
    BY <1>1, <1>7, <1>8, <1>9, <2>1, <2>2, CallGrows, Zenon
<1>12. /\ rio'.buf = b /\ rio'.rio_cnt = Len(b) /\ Len(b) <= Len(rio.buf)
       /\ rio' \in [rio_cnt : Int, buf : Seq(Bytes)]
  BY <1>0, <1>1, <1>4, <1>7, <1>10
<1>13. Unread = rio.buf /\ Unread' = b
  <2>1. Len(b) = 0 => b = <<>>
    BY <1>7
  <2>2. ~(Len(b) > 0) => Len(b) = 0
    BY <1>7
  <2> QED
    BY <1>1, <1>12, <2>1, <2>2 DEF Unread
<1>14. RioType'
  BY <1>10, <1>11, <1>12 DEF RioType, RcvType
<1>15. RioTypeOK'
  BY <1>0, <1>1, <1>7, <1>10, <1>11, <1>12, RioAssumption DEF RioTypeOK
<1>16. IdleInv'
  BY <1>1, <1>10, <1>11 DEF IdleInv
<1>17. StreamIntact'
  <2>1. Stream(handed, o, b, chan, snd.left, unsent)
          = Stream(handed, rcv.out, rio.buf, chan, snd.left, unsent)
    BY <1>4, <1>5, <1>6, <1>8, MovesHere, Zenon DEF Moves
  <2> QED
    BY <1>10, <1>11, <1>13, <2>1, StreamForm, StreamFormNext, Zenon
<1> QED
  BY <1>11, <1>14, <1>15, <1>16, <1>17

LEMMA rio_readnStep ==
  ASSUME RioInv, NEW k \in 1..Capacity, rio_readn(k) PROVE RioInv'
<1> USE DEF RioInv
<1>0. /\ chan \in Seq(Bytes) /\ rcv.out \in Seq(Bytes) /\ rcv.n \in Nat
      /\ Len(chan) \in Nat /\ Len(rcv.out) \in Nat /\ rio.rio_cnt \in Int
  BY DEF RioType
<1>1. /\ rcv.pc = "read" /\ rcv.call = "readn" /\ rio.rio_cnt <= 0
      /\ k \in 0..Len(chan) /\ k > 0 /\ k <= rcv.n - Len(rcv.out)
  BY <1>0 DEF rio_readn, Available, IdleInv
<1>2. PICK y : y = SubSeq(chan, 1, k)
  OBVIOUS
<1>3. PICK b : b = SubSeq(chan, k + 1, Len(chan))
  OBVIOUS
<1>4. y \in Seq(Bytes) /\ Len(y) = k /\ b \in Seq(Bytes) /\ Len(b) = Len(chan) - k
  BY <1>0, <1>1, <1>2, <1>3, Cuts
<1>5. PICK o : o = Cat(rcv.out, y)
  OBVIOUS
<1>6. PICK ends \in BOOLEAN : ends <=> Len(o) = rcv.n
  OBVIOUS
<1>7. /\ chan' = b /\ unsent' = unsent /\ snd' = snd /\ rio' = rio /\ handed' = handed
      /\ rcv' = IF ends THEN Return(rcv, o, Len(o)) ELSE [rcv EXCEPT !.out = o]
  BY <1>2, <1>3, <1>5, <1>6 DEF rio_readn, Cat
<1>8. /\ rcv' \in RcvType /\ rcv'.out = o /\ rcv'.call = rcv.call /\ rcv'.n = rcv.n
      /\ rcv'.pc \in {"read", "returned"}
      /\ rcv.call # "line" => Len(rcv'.out) <= rcv.n
      /\ CallInv' /\ CallsFilled'
  <2>1. Len(y) > 0 /\ (rcv.call = "line" => Len(y) = 1)
        /\ (rcv.call # "line" => Len(rcv.out) + Len(y) <= rcv.n)
        /\ (ends <=> IF rcv.call = "line" THEN LineEnds(o, rcv.n) ELSE Len(o) = rcv.n)
    BY <1>0, <1>1, <1>4, <1>6
  <2> QED
    BY <1>1, <1>4, <1>5, <1>7, <2>1, CallGrows, Zenon
<1>9. Unread = <<>> /\ Unread' = <<>>
  BY <1>0, <1>1, <1>7 DEF Unread
<1>10. RioType'
  BY <1>4, <1>7, <1>8 DEF RioType, RcvType
<1>11. RioTypeOK' /\ IdleInv'
  <2>1. Len(b) <= Capacity /\ Len(rio.buf) <= RIO_BUFSIZE
    BY <1>0, <1>1, <1>4, RioAssumption DEF RioTypeOK
  <2>2. ~(rio.rio_cnt > 0)
    BY <1>0, <1>1
  <2>3. RioTypeOK'
    BY <1>1, <1>7, <1>8, <2>1, <2>2 DEF RioTypeOK
  <2> QED
    BY <1>1, <1>7, <1>8, <2>3 DEF IdleInv
<1>12. StreamIntact'
  <2>1. Stream(handed, o, <<>>, b, snd.left, unsent)
          = Stream(handed, rcv.out, <<>>, chan, snd.left, unsent)
    BY <1>1, <1>2, <1>3, <1>5, MovesHere, Zenon DEF Moves
  <2> QED
    BY <1>7, <1>8, <1>9, <2>1, StreamForm, StreamFormNext, Zenon
<1> QED
  BY <1>8, <1>10, <1>11, <1>12

LEMMA UseStep ==
  ASSUME RioInv, Use PROVE RioInv'
<1> USE DEF RioInv
<1>0. /\ handed \in Seq(Bytes) /\ rcv.out \in Seq(Bytes) /\ <<>> \in Seq(Bytes)
      /\ rcv \in RcvType
  BY Buffers DEF RioType, RcvType
<1>1. /\ handed' = handed \o rcv.out /\ unsent' = unsent /\ snd' = snd
      /\ chan' = chan /\ rio' = rio
  BY DEF Use
<1>2. handed' = Cat(handed, rcv.out) /\ handed' \in Seq(Bytes)
  BY <1>0, <1>1, CatType DEF Cat
<1>3. /\ rcv' \in RcvType /\ rcv'.out = <<>> /\ Len(<<>>) = 0
      /\ rcv'.pc \in {"idle", "unbuffered", "closed"}
      /\ \/ rcv'.call = "none" /\ rcv'.n = 0 /\ (rcv'.pc = "unbuffered" => rcv.call = "readn")
         \/ rcv'.call = rcv.call /\ rcv'.n = rcv.n /\ rcv'.pc = "closed"
  <2>1. CASE rcv.ret > 0
    <3>1. PICK c \in {"idle", "unbuffered"} :
            /\ rcv' = [pc |-> c, call |-> "none", n |-> 0, out |-> <<>>, ret |-> 0]
            /\ c = "unbuffered" => rcv.call = "readn"
      BY <2>1 DEF Use, NoCall
    <3> QED
      BY <1>0, <3>1 DEF RcvType
  <2>2. CASE ~(rcv.ret > 0)
    <3>1. rcv' = [rcv EXCEPT !.pc = "closed", !.out = <<>>]
      BY <2>2 DEF Use
    <3> QED
      BY <1>0, <3>1 DEF RcvType
  <2> QED
    BY <2>1, <2>2
<1>4. RioType'
  BY <1>1, <1>2, <1>3 DEF RioType, RcvType
<1>5. RioTypeOK' /\ IdleInv' /\ CallInv' /\ CallsFilled'
  BY <1>0, <1>1, <1>3 DEF RioTypeOK, IdleInv, CallInv, CallsFilled, RcvType
<1>6. Unread' = Unread
  BY <1>1 DEF Unread
<1>7. Stream(Cat(handed, rcv.out), <<>>, Unread, chan, snd.left, unsent)
        = Stream(handed, rcv.out, Unread, chan, snd.left, unsent)
  BY MovesHere, Zenon DEF Moves
<1>8. StreamIntact'
  BY <1>1, <1>2, <1>3, <1>6, <1>7, StreamForm, StreamFormNext, Zenon
<1> QED
  BY <1>4, <1>5, <1>8

-----------------------------------------------------------------------------
(* The transfer.                                                           *)

LEMMA RioStep ==
  ASSUME RioInv, [Next]_vars PROVE RioInv'
<1>1. CASE UNCHANGED riovars
  BY <1>1 DEF RioInv, RioType, RioTypeOK, IdleInv, CallInv, StreamIntact, CallsFilled,
              Exhausted, AtEnd, WriterEnded, Unread, riovars
<1>2. CASE RioNext
  BY <1>2, WritenStep, rio_writenStep, WriterEnds, CallStep, RefillStep, rio_readnStep,
     ReadEndsStep, TakeStep, UseStep, ReadInterruptedStep, Zenon
     DEF RioNext, Writer, Reader
<1> QED
  BY <1>1, <1>2 DEF Next, Open, Transfer, vars

\* The inductive invariant of rio_writen, rio_readlineb, rio_readnb and
\* rio_readn on one connection.
THEOREM RioInvariance == Spec => []RioInv
<1>1. Init => RioInv
  BY RioStart DEF Init
<1> QED
  BY <1>1, RioStep, PTL DEF Spec

\* However the kernel cuts the reads and the writes, no byte of the data is
\* lost, repeated or moved between rio_writen and the buffers of the callers.
THEOREM NothingLost == Spec => []StreamIntact
BY RioInvariance, PTL DEF RioInv

\* rio_readlineb, rio_readnb and rio_readn return less than they were asked
\* for only at the end of the stream.
THEOREM CallsReturnWhole == Spec => []CallsFilled
BY RioInvariance, PTL DEF RioInv

\* No call writes past the buffer of its caller or past rio_buf, and the walks
\* over the addresses stay in their list.
THEOREM BuffersBounded == Spec => []TypeOK
<1>1. OpenInv /\ RioInv => TypeOK
  BY DEF OpenInv, OpenType, RioInv, TypeOK
<1> QED
  BY <1>1, OpenInvariance, RioInvariance, PTL

=============================================================================
