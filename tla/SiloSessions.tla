---------------------------- MODULE SiloSessions ----------------------------
(***************************************************************************)
(* The connections of the Silo server: the accept loop (srv_kx.cc), its    *)
(* client threads (doThreadInteractive in interactive.cc) and the client   *)
(* (cli_kx.cc).                                                            *)
(*                                                                         *)
(* A client sends a query and waits for an ack; a thread receives it,      *)
(* splits it into operations, runs the transaction and sends the ack.      *)
(* exec_trans is one step here (module SiloEpochs has its steps).  A query *)
(* is a sequence of operations and delimiters.  A message arrives whole.   *)
(*                                                                         *)
(* TCP as the code uses it: a connection outlives both ends; recv from one *)
(* whose peer has closed it returns 0; the first send to it succeeds and   *)
(* is answered by a reset, the second raises SIGPIPE.                      *)
(***************************************************************************)
EXTENDS Integers, Sequences, FiniteSets, FiniteSetsExt

CONSTANTS
    Clients,
    Queries,          \* what clients type
    MAX_TRANSACTION,  \* limit of client threads
    UintMax,          \* largest value of uint
    SizeMax,          \* largest value of size_t
    Memory,           \* bound: operations a thread's vector can hold
    MaxQueries        \* bound: queries of one client

ASSUME SessionsAssumption ==
    /\ IsFiniteSet(Clients)
    /\ Queries \subseteq Seq({"op", ","}) \ {<<>>}
    /\ MAX_TRANSACTION \in Nat /\ Memory \in Nat /\ MaxQueries \in Nat
    /\ UintMax \in Nat /\ SizeMax \in Nat /\ UintMax <= SizeMax
    /\ \A q \in Queries : Len(q) < UintMax

VARIABLES
    cl,         \* cl[c]: a client and its connection
    accepted,   \* the connections accept has returned, in order
    th,         \* th[n]: the thread of the n-th of them
    ThreadNum,
    up,         \* the server process runs
    raced       \* history: a thread passed the test of the limit while
                \* another was between that test and the increment

vars == <<cl, accepted, th, ThreadNum, up, raced>>

BadFd     == "bad"      \* a number that is no descriptor
Uninit    == <<"?">>    \* what buf holds before the first recv
None      == -1

NewThread == [pc |-> "start", sfd |-> BadFd, myid |-> None, buf |-> Uninit,
              first |-> 0, last |-> 0, ops |-> 0]

Init ==
    /\ cl = [c \in Clients |->
               [at |-> "out",
                inbox |-> <<>>,    \* sent, and not yet received by the server
                acks |-> 0,        \* sent by the server, and not yet received
                rst |-> FALSE,     \* a send to a closed peer was answered
                sent |-> 0, printed |-> 0,
                committed |-> 0]]  \* history: the transactions run for it
    /\ accepted = <<>>
    /\ th = <<>>
    /\ ThreadNum = 0
    /\ up = TRUE
    /\ raced = FALSE

-----------------------------------------------------------------------------
(* The client *)

server == <<accepted, th, ThreadNum, up, raced>>

Connect(c) ==
    /\ up
    /\ cl[c].at = "out"
    /\ cl' = [cl EXCEPT ![c].at = "idle"]
    /\ UNCHANGED server

\* execTransaction: the query goes out.
SendQuery(c) ==
    /\ up
    /\ cl[c].at = "idle" /\ cl[c].sent < MaxQueries
    /\ \E q \in Queries :
          cl' = [cl EXCEPT ![c].at = "waiting", ![c].sent = @ + 1,
                           ![c].inbox = Append(@, q)]
    /\ UNCHANGED server

\* "COMMIT"
RecvAck(c) ==
    /\ cl[c].at = "waiting" /\ cl[c].acks > 0
    /\ cl' = [cl EXCEPT ![c].at = "idle", ![c].acks = @ - 1, ![c].printed = @ + 1]
    /\ UNCHANGED server

\* The server process has ended.  If it had read all that was sent, recv
\* returns 0, which is taken for the ack; else it fails, and ERR exits.
RecvEnd(c) ==
    /\ ~up
    /\ cl[c].at = "waiting" /\ cl[c].acks = 0
    /\ cl' = IF cl[c].inbox = <<>>
             THEN [cl EXCEPT ![c].at = "idle", ![c].printed = @ + 1]
             ELSE [cl EXCEPT ![c].at = "gone"]
    /\ UNCHANGED server

\* A query after the end of the server: the first is sent and recv returns 0
\* again, the send of the second fails.
SendQueryToNobody(c) ==
    /\ ~up
    /\ cl[c].at = "idle" /\ cl[c].sent < MaxQueries
    /\ cl' = IF ~cl[c].rst
             THEN [cl EXCEPT ![c].rst = TRUE, ![c].sent = @ + 1, ![c].printed = @ + 1]
             ELSE [cl EXCEPT ![c].at = "gone"]
    /\ UNCHANGED server

\* "exit", the end of a client started with -c, or a signal (with no ack
\* unread, so that the connection is closed and not reset).
Exit(c) ==
    /\ cl[c].at \in {"idle", "waiting"} /\ cl[c].acks = 0
    /\ cl' = [cl EXCEPT ![c].at = "gone"]
    /\ UNCHANGED server

-----------------------------------------------------------------------------
(* The accept loop *)

\* accept and threadInteractive: a thread gets the address of afd.
Accept(c) ==
    /\ up
    /\ cl[c].at # "out"
    /\ \A m \in DOMAIN accepted : accepted[m] # c
    /\ accepted' = Append(accepted, c)
    /\ th' = Append(th, NewThread)
    /\ UNCHANGED <<cl, ThreadNum, up, raced>>

-----------------------------------------------------------------------------
(* A client thread *)

Goto(n, from, to) == up /\ th[n].pc = from /\ th' = [th EXCEPT ![n].pc = to]

\* What *arg can be: afd is a parameter of a call that may have returned, so
\* its place may hold a later connection or something else.
Sfds(n) == {accepted[m] : m \in n .. Len(accepted)} \cup {BadFd}

Registering == {n \in DOMAIN th : th[n].pc = "register"}

\* Fault: the limit is not tested.
StartUntested(n) ==
    /\ up /\ th[n].pc = "start"
    /\ \E sfd \in Sfds(n) : th' = [th EXCEPT ![n].sfd = sfd, ![n].pc = "register"]
    /\ raced' = (raced \/ Registering # {})
    /\ UNCHANGED <<cl, accepted, ThreadNum, up>>

\* It reads *arg and, without the mutex, ThreadNum.
Start(n) ==
    /\ up /\ th[n].pc = "start"
    /\ \E sfd \in Sfds(n) :
          th' = [th EXCEPT ![n].sfd = sfd,
                    ![n].pc = IF ThreadNum = MAX_TRANSACTION THEN "ended"
                              ELSE "register"]
    /\ raced' = (raced \/ (ThreadNum # MAX_TRANSACTION /\ Registering # {}))
    /\ UNCHANGED <<cl, accepted, ThreadNum, up>>

\* Under MutexThreadNum.
Register(n) ==
    /\ up /\ th[n].pc = "register"
    /\ th' = [th EXCEPT ![n].myid = ThreadNum, ![n].pc = "recv"]
    /\ ThreadNum' = ThreadNum + 1
    /\ UNCHANGED <<cl, accepted, up, raced>>

-----------------------------------------------------------------------------
(* split, with its two indices of type uint *)

Npos == SizeMax

\* find_first_of: the place (from 0) of the first delimiter from "first" on.
find_first_of(buf, first) ==
    LET found == {p \in first .. Len(buf) - 1 : buf[p + 1] = ","}
    IN  IF found = {} THEN Npos ELSE Min(found)

Narrow(x) == x % (UintMax + 1)

\* Fault: last has the type of npos.
LastWide(buf, first) ==
    LET last == find_first_of(buf, first)
    IN  IF last = Npos THEN Len(buf) ELSE last

\* The value of last after the test for npos.
Last(buf, first) ==
    LET last == Narrow(find_first_of(buf, first))
    IN  IF last = Npos THEN Len(buf) ELSE last

\* recv has returned: buf is new, stale or (never filled) anything.
Received(n, buf) ==
    [th EXCEPT ![n].pc = "split", ![n].buf = buf, ![n].ops = 0,
               ![n].first = 0, ![n].last = Narrow(find_first_of(buf, 0))]

\* Fault: recv does not wait for the client.
RecvNonblocking(n) ==
    /\ up /\ th[n].pc = "recv"
    /\ \E c \in Clients :
          /\ th[n].sfd = c
          /\ \/ /\ cl[c].inbox # <<>>
                /\ th' = Received(n, Head(cl[c].inbox))
                /\ cl' = [cl EXCEPT ![c].inbox = Tail(@)]
             \/ /\ cl[c].inbox = <<>>
                /\ th[n].buf # Uninit
                /\ th' = Received(n, th[n].buf)
                /\ UNCHANGED cl
    /\ UNCHANGED <<accepted, ThreadNum, up, raced>>

Recv(n) ==
    /\ up /\ th[n].pc = "recv"
    /\ \E c \in Clients :
          /\ th[n].sfd = c
          /\ cl[c].inbox # <<>>
          /\ th' = Received(n, Head(cl[c].inbox))
          /\ cl' = [cl EXCEPT ![c].inbox = Tail(@)]
    /\ UNCHANGED <<accepted, ThreadNum, up, raced>>

\* The client has left: recv returns 0, which is no error to the code, and
\* buf keeps what it held.
RecvNothing(n) ==
    /\ up /\ th[n].pc = "recv"
    /\ \E c \in Clients :
          /\ th[n].sfd = c
          /\ cl[c].at = "gone" /\ cl[c].inbox = <<>>
    /\ \E buf \in IF th[n].buf = Uninit THEN Queries \cup {<<>>} ELSE {th[n].buf} :
          th' = Received(n, buf)
    /\ UNCHANGED <<cl, accepted, ThreadNum, up, raced>>

\* RERR: the thread ends.
RecvError(n) ==
    /\ th[n].sfd = BadFd
    /\ Goto(n, "recv", "ended")
    /\ UNCHANGED <<cl, accepted, ThreadNum, up, raced>>

\* One round of the loop of split, and of the loop that parses what it yields.
SplitNext(n) ==
    /\ up /\ th[n].pc = "split"
    /\ th[n].first < Len(th[n].buf)
    /\ th[n].ops < Memory
    /\ LET first == Narrow(th[n].last + 1)
       IN  th' = [th EXCEPT ![n].ops = @ + 1, ![n].first = first,
                            ![n].last = Last(th[n].buf, first)]
    /\ UNCHANGED <<cl, accepted, ThreadNum, up, raced>>

\* bad_alloc, which nothing catches.
SplitNoMemory(n) ==
    /\ up /\ th[n].pc = "split"
    /\ th[n].first < Len(th[n].buf)
    /\ th[n].ops = Memory
    /\ up' = FALSE
    /\ UNCHANGED <<cl, accepted, th, ThreadNum, raced>>

\* Fault: no ack is sent.
RunWithoutAck(n) ==
    /\ th[n].first >= Len(th[n].buf)
    /\ Goto(n, "split", "recv")
    /\ cl' = [cl EXCEPT ![th[n].sfd].committed = @ + 1]
    /\ UNCHANGED <<accepted, ThreadNum, up, raced>>

\* split returns, and exec_trans runs the transaction.
Run(n) ==
    /\ th[n].first >= Len(th[n].buf)
    /\ Goto(n, "split", "send")
    /\ cl' = [cl EXCEPT ![th[n].sfd].committed = @ + 1]
    /\ UNCHANGED <<accepted, ThreadNum, up, raced>>

\* Fault: the peer is not told from one that answered with a reset.
SendToClosed(n) ==
    /\ up /\ th[n].pc = "send"
    /\ LET c == th[n].sfd
       IN  IF cl[c].at = "gone"
           THEN up' = FALSE /\ UNCHANGED <<cl, th>>
           ELSE /\ cl' = [cl EXCEPT ![c].acks = @ + 1]
                /\ Goto(n, "send", "recv")
                /\ UNCHANGED up
    /\ UNCHANGED <<accepted, ThreadNum, raced>>

Send(n) ==
    /\ Goto(n, "send", "recv")
    /\ ~cl[th[n].sfd].rst
    /\ cl' = IF cl[th[n].sfd].at = "gone"
             THEN [cl EXCEPT ![th[n].sfd].rst = TRUE]
             ELSE [cl EXCEPT ![th[n].sfd].acks = @ + 1]
    /\ UNCHANGED <<accepted, ThreadNum, up, raced>>

\* SIGPIPE, which the server does not handle.
SendRaisesSigpipe(n) ==
    /\ up /\ th[n].pc = "send"
    /\ cl[th[n].sfd].rst
    /\ up' = FALSE
    /\ UNCHANGED <<cl, accepted, th, ThreadNum, raced>>

-----------------------------------------------------------------------------
ThreadStep(n) ==
    \/ Start(n) \/ Register(n)
    \/ Recv(n) \/ RecvNothing(n) \/ RecvError(n)
    \/ SplitNext(n) \/ SplitNoMemory(n) \/ Run(n)
    \/ Send(n) \/ SendRaisesSigpipe(n)

ClientStep(c) ==
    \/ Connect(c) \/ SendQuery(c) \/ RecvAck(c)
    \/ RecvEnd(c) \/ SendQueryToNobody(c) \/ Exit(c)

Next ==
    \/ \E n \in DOMAIN th : ThreadStep(n)
    \/ \E c \in Clients : Accept(c) \/ ClientStep(c)

Spec == Init /\ [][Next]_vars

\* A runnable thread is eventually scheduled, and so is a client whose ack has
\* come.  What clients type, and when they leave, is up to them.
FairSpec ==
    /\ Spec
    /\ \A n \in 1 .. Cardinality(Clients) : WF_vars(n \in DOMAIN th /\ ThreadStep(n))
    /\ \A c \in Clients : WF_vars(RecvAck(c))

-----------------------------------------------------------------------------
Buffers == Queries \cup {<<>>, Uninit}

ClientType ==
    [at : {"out", "idle", "waiting", "gone"},
     inbox : Seq(Queries), acks : 0 .. 1, rst : BOOLEAN,
     sent : 0 .. MaxQueries, printed : 0 .. MaxQueries, committed : Nat]

ThreadType ==
    [pc : {"start", "register", "recv", "split", "send", "ended"},
     sfd : Clients \cup {BadFd}, myid : Nat \cup {None}, buf : Buffers,
     first : 0 .. UintMax, last : 0 .. UintMax, ops : 0 .. Memory]

\* Every variable keeps its type.
TypeOK ==
    /\ cl \in [Clients -> ClientType]
    /\ \A c \in Clients : Len(cl[c].inbox) <= 1
    /\ accepted \in Seq(Clients)
    /\ th \in Seq(ThreadType) /\ Len(th) = Len(accepted)
    /\ ThreadNum \in 0 .. Len(th)
    /\ up \in BOOLEAN /\ raced \in BOOLEAN

\* The ids of threads differ and are those below ThreadNum,
\* and the limit is kept unless two threads were between the test of it (353)
\* and the increment (356) at once.
ThreadLimit ==
    /\ {th[n].myid : n \in DOMAIN th} \ {None} = 0 .. ThreadNum - 1
    /\ Cardinality({n \in DOMAIN th : th[n].myid # None}) = ThreadNum
    /\ ThreadNum > MAX_TRANSACTION => raced

\* While the server runs, a client that is back at its prompt has had each of
\* its queries run exactly once, whichever thread, with whichever of the
\* connections, has received it; one that waits, at most once.
RunOnce ==
    up => \A c \in Clients :
            /\ cl[c].at = "idle" => /\ cl[c].committed = cl[c].sent
                                    /\ cl[c].printed = cl[c].sent
            /\ cl[c].at = "waiting" => /\ cl[c].committed \in {cl[c].sent - 1, cl[c].sent}
                                       /\ cl[c].printed = cl[c].sent - 1

\* The server ends in two ways only: a client has left and what its thread
\* ran last has been run again (recv returned 0, and the second send to the
\* closed connection raised SIGPIPE), or split does not end.
EndsOnlyAfter ==
    ~up => \/ \E c \in Clients : cl[c].at = "gone" /\ cl[c].committed > cl[c].sent
           \/ \E n \in DOMAIN th : th[n].ops = Memory

\* A transaction is run with as many operations as its query has: a last
\* operation without a delimiter after it, as in "r:100,w:128" (367), never
\* gets there, for last cannot equal npos where uint is narrower than size_t.
OneOperationEach ==
    \A n \in DOMAIN th :
        th[n].pc = "send" =>
            th[n].ops = Cardinality({p \in DOMAIN th[n].buf : th[n].buf[p] = "op"})

\* A client whose connection is served by a registered thread does not wait
\* for ever, unless the server ends.
Answered ==
    \A c \in Clients :
        (/\ cl[c].at = "waiting"
         /\ \E n \in DOMAIN th : th[n].sfd = c /\ th[n].myid # None)
            ~> (cl[c].at # "waiting" \/ ~up)
=============================================================================
