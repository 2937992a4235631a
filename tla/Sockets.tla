------------------------------- MODULE Sockets ------------------------------
(***************************************************************************)
(* open_clientfd and open_listenfd of csapp.c: the walk through the list   *)
(* of addresses from getaddrinfo, of which any step may fail.              *)
(***************************************************************************)
EXTENDS Integers

CONSTANT NAddrs     \* the length of the list

ASSUME SocketsAssumption == NAddrs \in Nat \ {0}

Sides == {"client", "listen"}

VARIABLES
    open,       \* of each side: pc, the address p it is at, and its result
    fds,        \* the open descriptors: a side and the address it is for
    lists       \* the sides that hold a list of addresses

socketvars == <<open, fds, lists>>

NoFd == -1
GaiError == -2

SocketsInit ==
    /\ open = [s \in Sides |-> [pc |-> "getaddrinfo", p |-> 1, ret |-> 0, kept |-> FALSE]]
    /\ fds = {} /\ lists = {}

Fd(s) == <<s, open[s].p>>
End(s) == open[s].p > NAddrs

GetAddrInfo(s) ==
    /\ open[s].pc = "getaddrinfo"
    /\ \/ /\ lists' = lists \cup {s}
          /\ open' = [open EXCEPT ![s].pc = "socket"]
       \/ /\ open' = [open EXCEPT ![s].pc = "returned", ![s].ret = GaiError]
          /\ UNCHANGED lists
    /\ UNCHANGED fds

Socket(s) ==
    /\ open[s].pc = "socket" /\ ~End(s)
    /\ \/ /\ fds' = fds \cup {Fd(s)}
          /\ open' = [open EXCEPT ![s].pc = "connect"]
       \/ /\ open' = [open EXCEPT ![s].p = @ + 1]
          /\ UNCHANGED fds
    /\ UNCHANGED lists

\* connect() for the client, bind() for the server.
Connect(s) ==
    /\ open[s].pc = "connect"
    /\ \/ open' = [open EXCEPT ![s].pc = "cleanup"]
       \/ open' = [open EXCEPT ![s].pc = "close"]
    /\ UNCHANGED <<fds, lists>>

CloseFd_Skipped(s) ==
    /\ open[s].pc = "close"
    /\ open' = [open EXCEPT ![s].pc = "socket", ![s].p = @ + 1]
    /\ UNCHANGED <<fds, lists>>

\* A descriptor is gone even if close() reports an error, and then the
\* function returns with the list of addresses.
CloseFd(s) ==
    /\ open[s].pc = "close"
    /\ fds' = fds \ {Fd(s)}
    /\ \/ open' = [open EXCEPT ![s].pc = "socket", ![s].p = @ + 1]
       \/ open' = [open EXCEPT ![s].pc = "returned", ![s].ret = NoFd, ![s].kept = TRUE]
    /\ UNCHANGED lists

\* freeaddrinfo, with or without an address that worked.
Cleanup(s) ==
    /\ open[s].pc = "cleanup" \/ (open[s].pc = "socket" /\ End(s))
    /\ lists' = lists \ {s}
    /\ open' = IF End(s) THEN [open EXCEPT ![s].pc = "returned", ![s].ret = NoFd]
               ELSE IF s = "client" THEN [open EXCEPT ![s].pc = "returned", ![s].ret = open[s].p]
               ELSE [open EXCEPT ![s].pc = "listen"]
    /\ UNCHANGED fds

Listen(s) ==
    /\ open[s].pc = "listen"
    /\ \/ /\ open' = [open EXCEPT ![s].pc = "returned", ![s].ret = open[s].p]
          /\ UNCHANGED fds
       \/ /\ fds' = fds \ {Fd(s)}
          /\ open' = [open EXCEPT ![s].pc = "returned", ![s].ret = NoFd]
    /\ UNCHANGED lists

OpenStep(s) ==
    \/ GetAddrInfo(s) \/ Socket(s) \/ Connect(s) \/ CloseFd(s) \/ Cleanup(s)
    \/ Listen(s)

Connected == \A s \in Sides : open[s].pc = "returned" /\ open[s].ret > 0

-----------------------------------------------------------------------------
(***************************************************************************)
(* csapp.c open_clientfd, open_listenfd: whichever steps fail, a call      *)
(* leaves open the descriptor it returns and no other, and it frees the    *)
(* list of addresses unless close() failed.                                *)
(***************************************************************************)
OpensTidy ==
    \A s \in Sides : open[s].pc = "returned" =>
        /\ {f \in fds : f[1] = s} = IF open[s].ret > 0 THEN {<<s, open[s].ret>>} ELSE {}
        /\ s \in lists => open[s].kept
=============================================================================
