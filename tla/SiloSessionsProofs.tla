------------------------- MODULE SiloSessionsProofs -------------------------
(***************************************************************************)
(* Proofs about the connections of the Silo server (srv_kx.cc,             *)
(* interactive.cc, cli_kx.cc), for any set of clients, any queries, any    *)
(* limit of threads and any widths of uint and size_t.                     *)
(***************************************************************************)
EXTENDS SiloSessions, FiniteSetTheorems, WellFoundedInduction, TLAPS

-----------------------------------------------------------------------------
(* split's indices *)

\* The assumption in parts.
LEMMA Widths ==
    /\ IsFiniteSet(Clients)
    /\ MAX_TRANSACTION \in Nat /\ Memory \in Nat /\ MaxQueries \in Nat
    /\ UintMax \in Nat /\ SizeMax \in Nat /\ UintMax <= SizeMax
    /\ \A q \in Queries : Len(q) < UintMax
  BY SessionsAssumption, Zenon

LEMMA QueriesAreSequences ==
    \E S : \A q \in Queries : q \in Seq(S)
  BY SessionsAssumption, Zenon

\* A nonempty set of natural numbers has a least element.
LEMMA LeastNat ==
    ASSUME NEW T \in SUBSET Nat, T # {}
    PROVE  Min(T) \in T
<1>1. PICK x \in T : \A y \in T : ~ (<<y, x>> \in OpToRel(<, Nat))
  BY WFMin, NatLessThanWellFounded
<1>2. ASSUME NEW y \in T PROVE x <= y
  <2>1. ~ (<<y, x>> \in OpToRel(<, Nat))
    BY <1>1
  <2>2. ~ (y < x)
    BY <2>1 DEF OpToRel
  <2> QED BY <2>2
<1>3. \E z \in T : \A y \in T : z <= y
  BY <1>2
<1> QED BY <1>3 DEF Min

\* find_first_of finds a place or npos.
LEMMA FindType ==
    ASSUME NEW buf, Len(buf) \in Nat, NEW first \in Nat
    PROVE  find_first_of(buf, first) \in Nat
<1> DEFINE found == {p \in first .. Len(buf) - 1 : buf[p + 1] = ","}
<1>1. found \in SUBSET Nat
  <2>1. found \subseteq first .. Len(buf) - 1
    BY Zenon
  <2> HIDE DEF found
  <2> QED BY <2>1
<1>2. Npos \in Nat
  BY Widths DEF Npos
<1>3. find_first_of(buf, first) = IF found = {} THEN Npos ELSE Min(found)
  BY DEF find_first_of
<1> HIDE DEF found
<1> QED BY <1>1, <1>2, <1>3, LeastNat

\* What is stored in a uint is one.
LEMMA NarrowType ==
    ASSUME NEW x \in Nat
    PROVE  Narrow(x) \in 0 .. UintMax
<1>1. UintMax + 1 \in Nat \ {0}
  BY Widths
<1>2. x % (UintMax + 1) \in 0 .. (UintMax + 1) - 1
  BY <1>1
<1> QED BY <1>1, <1>2, Widths DEF Narrow

\* The contents of a buffer are shorter than what a uint can count.
LEMMA BufferLength ==
    ASSUME NEW buf \in Queries \cup {<<>>}
    PROVE  Len(buf) \in 0 .. UintMax
<1>1. CASE buf \in Queries
  <2>1. Len(buf) \in Nat /\ Len(buf) < UintMax
    BY <1>1, QueriesAreSequences, Widths
  <2> QED BY <2>1, Widths
<1>2. CASE buf = <<>>
  <2>1. Len(<<>>) = 0
    OBVIOUS
  <2> QED BY <1>2, <2>1, Widths
<1> QED BY <1>1, <1>2

LEMMA LastType ==
    ASSUME NEW buf \in Queries \cup {<<>>}, NEW first \in Nat
    PROVE  /\ Narrow(find_first_of(buf, first)) \in 0 .. UintMax
           /\ Last(buf, first) \in 0 .. UintMax
<1>1. Len(buf) \in 0 .. UintMax
  BY BufferLength
<1>2. Len(buf) \in Nat
  BY <1>1
<1>3. Narrow(find_first_of(buf, first)) \in 0 .. UintMax
  BY <1>2, FindType, NarrowType
<1> QED BY <1>1, <1>3 DEF Last

-----------------------------------------------------------------------------
(* The invariant *)

Serves(t, c) == t.pc \in {"split", "send"} /\ t.sfd = c
Sends(t, c)  == t.pc = "send" /\ t.sfd = c

\* The threads that have received a query of the client, or run one again, and
\* have not sent the ack; and those of them that have run it.
Serving(c) == {n \in DOMAIN th : Serves(th[n], c)}
Sending(c) == {n \in DOMAIN th : Sends(th[n], c)}

\* The threads that have a number.
Registered == {n \in DOMAIN th : th[n].myid # None}

\* A thread that is about to run something has it from a client, and one that
\* has still to register has no number.
Sound(t) ==
    /\ t.pc \in {"split", "send"} => t.sfd \in Clients /\ t.buf \in Queries \cup {<<>>}
    /\ t.pc \in {"start", "register"} => t.myid = None

\* A client has one query out at most.
Prompt(c) ==
    /\ cl[c].at \in {"out", "idle"} => cl[c].sent = cl[c].printed
    /\ cl[c].at = "waiting" => cl[c].sent = cl[c].printed + 1
    /\ cl[c].at = "gone" => cl[c].sent \in {cl[c].printed, cl[c].printed + 1}
    /\ cl[c].at # "waiting" => cl[c].acks = 0

\* A query that is out is on its way, with one thread, or answered.
Flow(c) ==
    up /\ cl[c].at # "gone" =>
        /\ ~cl[c].rst
        /\ cl[c].sent = cl[c].printed + cl[c].acks + Len(cl[c].inbox)
                          + Cardinality(Serving(c))

\* Whatever was run is answered, or will be; the answer to a client that has
\* left counts once.
Counted(c) ==
    up => cl[c].committed = cl[c].printed + cl[c].acks + (IF cl[c].rst THEN 1 ELSE 0)
                              + Cardinality(Sending(c))

Account(c) == Prompt(c) /\ Flow(c) /\ Counted(c)

\* The inductive invariant behind TypeOK and RunOnce.
SessionInv ==
    /\ TypeOK
    /\ \A n \in DOMAIN th : Sound(th[n])
    /\ Cardinality(Registered) = ThreadNum
    /\ \A c \in Clients : Account(c)

-----------------------------------------------------------------------------
(* Steps of one thread or one client *)

\* One element more or one less.
LEMMA SetStep ==
    ASSUME NEW S, NEW T, NEW n, IsFiniteSet(S), \A m : m # n => (m \in S <=> m \in T)
    PROVE  /\ IsFiniteSet(T)
           /\ Cardinality(T) = Cardinality(S) + (IF n \in T THEN 1 ELSE 0)
                                 - (IF n \in S THEN 1 ELSE 0)
<1>1. Cardinality(S) \in Nat
  BY FS_CardinalityType
<1>2. CASE n \in S <=> n \in T
  <2>1. T = S
    BY <1>2
  <2> QED BY <1>1, <1>2, <2>1
<1>3. CASE n \in T /\ n \notin S
  <2>1. T = S \cup {n}
    BY <1>3
  <2>2. IsFiniteSet(T) /\ Cardinality(T) = Cardinality(S) + 1
    BY <1>3, <2>1, FS_AddElement
  <2> QED BY <1>1, <1>3, <2>2
<1>4. CASE n \in S /\ n \notin T
  <2>1. T = S \ {n}
    BY <1>4
  <2>2. IsFiniteSet(T) /\ Cardinality(T) = Cardinality(S) - 1
    BY <1>4, <2>1, FS_RemoveElement
  <2> QED BY <1>1, <1>4, <2>2
<1> QED BY <1>2, <1>3, <1>4

LEMMA FiniteServing ==
    ASSUME TypeOK, NEW c
    PROVE  /\ IsFiniteSet(Serving(c)) /\ Cardinality(Serving(c)) \in Nat
           /\ IsFiniteSet(Sending(c)) /\ Cardinality(Sending(c)) \in Nat
           /\ Cardinality(Sending(c)) <= Cardinality(Serving(c))
<1>1. DOMAIN th = 1 .. Len(th) /\ Len(th) \in Nat
  BY DEF TypeOK
<1>2. IsFiniteSet(DOMAIN th)
  BY <1>1, FS_Interval
<1>3. Sending(c) \subseteq Serving(c) /\ Serving(c) \subseteq DOMAIN th
  BY DEF Sending, Serving, Sends, Serves
<1>4. IsFiniteSet(Serving(c))
  BY <1>2, <1>3, FS_Subset
<1>5. IsFiniteSet(Sending(c)) /\ Cardinality(Sending(c)) <= Cardinality(Serving(c))
  BY <1>3, <1>4, FS_Subset
<1> QED BY <1>4, <1>5, FS_CardinalityType

\* A thread goes on.
LEMMA ThreadMoved ==
    ASSUME TypeOK, NEW n \in DOMAIN th, NEW r \in ThreadType, th' = [th EXCEPT ![n] = r]
    PROVE  /\ th' \in Seq(ThreadType) /\ Len(th') = Len(th) /\ DOMAIN th' = DOMAIN th
           /\ th'[n] = r
           /\ \A m \in DOMAIN th : m # n => th'[m] = th[m]
<1>1. th \in Seq(ThreadType)
  BY DEF TypeOK
<1> HIDE DEF ThreadType
<1> QED BY <1>1

\* What that is to a client.
LEMMA ServingMoved ==
    ASSUME TypeOK, NEW n \in DOMAIN th, NEW r \in ThreadType, th' = [th EXCEPT ![n] = r],
           NEW c
    PROVE  /\ Cardinality(Serving(c)') = Cardinality(Serving(c))
                + (IF Serves(r, c) THEN 1 ELSE 0) - (IF Serves(th[n], c) THEN 1 ELSE 0)
           /\ Cardinality(Sending(c)') = Cardinality(Sending(c))
                + (IF Sends(r, c) THEN 1 ELSE 0) - (IF Sends(th[n], c) THEN 1 ELSE 0)
<1> DEFINE S == Serving(c)'
           T == Sending(c)'
<1>1. /\ DOMAIN th' = DOMAIN th /\ th'[n] = r
      /\ \A m \in DOMAIN th : m # n => th'[m] = th[m]
  BY ThreadMoved
<1>2. /\ n \in S <=> Serves(r, c)
      /\ n \in Serving(c) <=> Serves(th[n], c)
      /\ \A m : m # n => (m \in Serving(c) <=> m \in S)
  BY <1>1 DEF Serving, Serves
<1>3. /\ n \in T <=> Sends(r, c)
      /\ n \in Sending(c) <=> Sends(th[n], c)
      /\ \A m : m # n => (m \in Sending(c) <=> m \in T)
  BY <1>1 DEF Sending, Sends
<1>4. IsFiniteSet(Serving(c)) /\ IsFiniteSet(Sending(c))
  BY FiniteServing
<1> HIDE DEF S, T
<1>5. Cardinality(S) = Cardinality(Serving(c)) + (IF n \in S THEN 1 ELSE 0)
                         - (IF n \in Serving(c) THEN 1 ELSE 0)
  BY <1>2, <1>4, SetStep
<1>6. Cardinality(T) = Cardinality(Sending(c)) + (IF n \in T THEN 1 ELSE 0)
                         - (IF n \in Sending(c) THEN 1 ELSE 0)
  BY <1>3, <1>4, SetStep
<1>7. /\ Cardinality(S) = Cardinality(Serving(c))
           + (IF Serves(r, c) THEN 1 ELSE 0) - (IF Serves(th[n], c) THEN 1 ELSE 0)
      /\ Cardinality(T) = Cardinality(Sending(c))
           + (IF Sends(r, c) THEN 1 ELSE 0) - (IF Sends(th[n], c) THEN 1 ELSE 0)
  BY <1>2, <1>3, <1>5, <1>6, Zenon
<1> QED BY <1>7 DEF S, T

\* A client's record changes.
LEMMA ClientMoved ==
    ASSUME TypeOK, NEW c \in Clients, NEW r \in ClientType, cl' = [cl EXCEPT ![c] = r]
    PROVE  /\ cl' \in [Clients -> ClientType]
           /\ cl'[c] = r
           /\ \A d \in Clients : d # c => cl'[d] = cl[d]
<1>1. cl \in [Clients -> ClientType]
  BY DEF TypeOK
<1> HIDE DEF ClientType
<1> QED BY <1>1

LEMMA ClientFields ==
    ASSUME TypeOK, NEW c \in Clients
    PROVE  /\ cl[c] \in ClientType
           /\ cl[c].at \in {"out", "idle", "waiting", "gone"}
           /\ cl[c].inbox \in Seq(Queries) /\ Len(cl[c].inbox) \in 0 .. 1
           /\ cl[c].acks \in 0 .. 1 /\ cl[c].rst \in BOOLEAN
           /\ cl[c].sent \in 0 .. MaxQueries /\ cl[c].printed \in 0 .. MaxQueries
           /\ cl[c].committed \in Nat
<1>1. cl[c] \in ClientType /\ Len(cl[c].inbox) <= 1
  BY DEF TypeOK
<1>2. /\ cl[c].at \in {"out", "idle", "waiting", "gone"}
      /\ cl[c].inbox \in Seq(Queries)
      /\ cl[c].acks \in 0 .. 1 /\ cl[c].rst \in BOOLEAN
      /\ cl[c].sent \in 0 .. MaxQueries /\ cl[c].printed \in 0 .. MaxQueries
      /\ cl[c].committed \in Nat
  BY <1>1 DEF ClientType
<1> DEFINE n == Len(cl[c].inbox)
<1>3. n \in Nat /\ n <= 1
  BY <1>1, <1>2
<1>4. n \in 0 .. 1
  <2> HIDE DEF n
  <2> QED BY <1>3
<1> QED BY <1>1, <1>2, <1>4, Zenon

LEMMA ThreadFields ==
    ASSUME TypeOK, NEW n \in DOMAIN th
    PROVE  /\ th[n] \in ThreadType
           /\ th[n].pc \in {"start", "register", "recv", "split", "send", "ended"}
           /\ th[n].sfd \in Clients \cup {BadFd} /\ th[n].myid \in Nat \cup {None}
           /\ th[n].buf \in Buffers /\ th[n].first \in 0 .. UintMax
           /\ th[n].last \in 0 .. UintMax /\ th[n].ops \in 0 .. Memory
<1>1. th[n] \in ThreadType
  BY DEF TypeOK
<1> QED BY <1>1 DEF ThreadType

\* Nothing happens to a client.
LEMMA Untouched ==
    ASSUME NEW c \in Clients, Account(c), cl'[c] = cl[c],
           Cardinality(Serving(c)') = Cardinality(Serving(c)),
           Cardinality(Sending(c)') = Cardinality(Sending(c)),
           up' => up
    PROVE  Account(c)'
<1>1. Prompt(c)'
  BY DEF Account, Prompt
<1>2. Flow(c)'
  BY DEF Account, Flow
<1>3. Counted(c)'
  BY DEF Account, Counted
<1> QED BY <1>1, <1>2, <1>3 DEF Account

\* A step of a client.
LEMMA AfterClient ==
    ASSUME SessionInv, NEW c \in Clients, NEW r \in ClientType, cl' = [cl EXCEPT ![c] = r],
           Len(r.inbox) <= 1, Account(c)', UNCHANGED server
    PROVE  SessionInv'
<1>1. UNCHANGED <<accepted, th, ThreadNum, up, raced>>
  BY DEF server
<1>2. /\ cl' \in [Clients -> ClientType] /\ cl'[c] = r
      /\ \A d \in Clients : d # c => cl'[d] = cl[d]
  BY ClientMoved DEF SessionInv
<1>3. \A d \in Clients : Len(cl'[d].inbox) <= 1
  BY <1>2 DEF SessionInv, TypeOK
<1>4. TypeOK'
  BY <1>1, <1>2, <1>3 DEF SessionInv, TypeOK
<1>5. ASSUME NEW d \in Clients, d # c PROVE Account(d)'
  <2>1. Serving(d)' = Serving(d) /\ Sending(d)' = Sending(d)
    BY <1>1 DEF Serving, Sending, Serves, Sends
  <2> QED BY <1>1, <1>2, <1>5, <2>1, Untouched DEF SessionInv
<1>6. Registered' = Registered
  BY <1>1 DEF Registered
<1> QED BY <1>1, <1>4, <1>5, <1>6 DEF SessionInv, Sound

\* A step of a thread that has its number already, or does not get one.
LEMMA AfterThread ==
    ASSUME SessionInv, NEW n \in DOMAIN th, NEW r \in ThreadType, th' = [th EXCEPT ![n] = r],
           Sound(r), r.myid = th[n].myid,
           cl' \in [Clients -> ClientType],
           \A c \in Clients : Len(cl'[c].inbox) <= 1 /\ Account(c)',
           accepted' = accepted, ThreadNum' = ThreadNum, up' = up, raced' \in BOOLEAN
    PROVE  SessionInv'
<1>1. /\ th' \in Seq(ThreadType) /\ Len(th') = Len(th) /\ DOMAIN th' = DOMAIN th
      /\ th'[n] = r
      /\ \A m \in DOMAIN th : m # n => th'[m] = th[m]
  BY ThreadMoved DEF SessionInv
<1>2. TypeOK'
  BY <1>1 DEF SessionInv, TypeOK
<1>3. \A m \in DOMAIN th' : Sound(th'[m])
  BY <1>1 DEF SessionInv
<1>4. Registered' = Registered
  BY <1>1 DEF Registered
<1> QED BY <1>2, <1>3, <1>4 DEF SessionInv, Sound

\* What a client has open is zero or one.
LEMMA Open ==
    ASSUME SessionInv, NEW c \in Clients, up, cl[c].at # "gone"
    PROVE  /\ ~cl[c].rst
           /\ cl[c].at \in {"out", "idle"} =>
                 /\ cl[c].acks = 0 /\ Len(cl[c].inbox) = 0
                 /\ Cardinality(Serving(c)) = 0 /\ Cardinality(Sending(c)) = 0
           /\ cl[c].at = "waiting" =>
                 1 = cl[c].acks + Len(cl[c].inbox) + Cardinality(Serving(c))
<1>1. /\ cl[c].acks \in Nat /\ Len(cl[c].inbox) \in Nat
      /\ cl[c].sent \in Nat /\ cl[c].printed \in Nat
  BY ClientFields DEF SessionInv
<1>2. /\ Cardinality(Serving(c)) \in Nat /\ Cardinality(Sending(c)) \in Nat
      /\ Cardinality(Sending(c)) <= Cardinality(Serving(c))
  BY FiniteServing DEF SessionInv
<1>3. /\ ~cl[c].rst
      /\ cl[c].sent = cl[c].printed + cl[c].acks + Len(cl[c].inbox)
                        + Cardinality(Serving(c))
  BY DEF SessionInv, Account, Flow
<1>4. /\ cl[c].at \in {"out", "idle"} => cl[c].sent = cl[c].printed
      /\ cl[c].at = "waiting" => cl[c].sent = cl[c].printed + 1
  BY DEF SessionInv, Account, Prompt
<1> DEFINE l == Len(cl[c].inbox)
           s == Cardinality(Serving(c))
           d == Cardinality(Sending(c))
<1> HIDE DEF l, s, d
<1>5. /\ cl[c].acks \in Nat /\ l \in Nat /\ s \in Nat /\ d \in Nat /\ d <= s
      /\ cl[c].sent \in Nat /\ cl[c].printed \in Nat
      /\ cl[c].sent = cl[c].printed + cl[c].acks + l + s
  BY <1>1, <1>2, <1>3 DEF l, s, d
<1>6. ASSUME cl[c].sent = cl[c].printed PROVE cl[c].acks = 0 /\ l = 0 /\ s = 0 /\ d = 0
  BY <1>5, <1>6
<1>7. ASSUME cl[c].sent = cl[c].printed + 1 PROVE 1 = cl[c].acks + l + s
  BY <1>5, <1>7
<1> QED BY <1>3, <1>4, <1>6, <1>7 DEF l, s, d

LEMMA SameThreads ==
    ASSUME th' = th, NEW c
    PROVE  Serving(c)' = Serving(c) /\ Sending(c)' = Sending(c)
  BY DEF Serving, Sending, Serves, Sends

\* connect; up, it is at its prompt.
LEMMA ConnectKeeps ==
    ASSUME SessionInv, NEW c \in Clients, Connect(c)
    PROVE  SessionInv'
<1> DEFINE r == [cl[c] EXCEPT !.at = "idle"]
<1>t. TypeOK /\ cl[c] \in ClientType /\ Len(cl[c].inbox) <= 1
  BY ClientFields DEF SessionInv, TypeOK
<1>1. cl' = [cl EXCEPT ![c] = r]
  BY <1>t DEF Connect, TypeOK
<1>2. /\ r \in ClientType /\ r.at = "idle" /\ r.inbox = cl[c].inbox /\ r.acks = cl[c].acks
      /\ r.rst = cl[c].rst /\ r.sent = cl[c].sent /\ r.printed = cl[c].printed
      /\ r.committed = cl[c].committed
  BY <1>t DEF ClientType
<1> HIDE DEF r
<1>3. cl'[c] = r /\ th' = th /\ up' = up /\ cl[c].at = "out"
  BY <1>t, <1>1, <1>2, ClientMoved DEF Connect, server
<1>4. Account(c)
  BY DEF SessionInv
<1>5. Prompt(c)'
  BY <1>2, <1>3, <1>4 DEF Account, Prompt
<1>6. Flow(c)'
  BY <1>2, <1>3, <1>4, SameThreads DEF Account, Flow
<1>7. Counted(c)'
  BY <1>2, <1>3, <1>4, SameThreads DEF Account, Counted
<1> QED BY <1>t, <1>1, <1>2, <1>5, <1>6, <1>7, AfterClient DEF Connect, Account

\* execTransaction's send.
LEMMA SendQueryKeeps ==
    ASSUME SessionInv, NEW c \in Clients, SendQuery(c)
    PROVE  SessionInv'
<1>t. /\ TypeOK /\ cl[c] \in ClientType /\ cl[c].inbox \in Seq(Queries)
      /\ cl[c].sent \in Nat /\ cl[c].printed \in Nat
  BY ClientFields DEF SessionInv
<1>g. up /\ cl[c].at = "idle" /\ cl[c].sent < MaxQueries /\ UNCHANGED server
  BY DEF SendQuery
<1>1. PICK q \in Queries :
        cl' = [cl EXCEPT ![c].at = "waiting", ![c].sent = @ + 1, ![c].inbox = Append(@, q)]
  BY DEF SendQuery
<1> DEFINE i == Append(cl[c].inbox, q)
           s == cl[c].sent + 1
           r == [cl[c] EXCEPT !.at = "waiting", !.sent = s, !.inbox = i]
<1>o. /\ ~cl[c].rst /\ cl[c].acks = 0 /\ Len(cl[c].inbox) = 0
      /\ Cardinality(Serving(c)) = 0 /\ Cardinality(Sending(c)) = 0
  BY <1>g, Open
<1>2. i \in Seq(Queries) /\ Len(i) = 1
  BY <1>t, <1>o
<1>3. s \in 0 .. MaxQueries
  BY <1>t, <1>g, Widths
<1>4. cl' = [cl EXCEPT ![c] = r]
  BY <1>t, <1>1 DEF TypeOK
<1> HIDE DEF i, s
<1>5. /\ r \in ClientType /\ r.at = "waiting" /\ r.inbox = i /\ r.acks = cl[c].acks
      /\ r.rst = cl[c].rst /\ r.sent = s /\ r.printed = cl[c].printed
      /\ r.committed = cl[c].committed
  BY <1>t, <1>2, <1>3 DEF ClientType
<1> HIDE DEF r
<1>6. cl'[c] = r /\ th' = th /\ up' = up
  BY <1>t, <1>g, <1>4, <1>5, ClientMoved DEF server
<1>7. Account(c)
  BY DEF SessionInv
<1>p. cl[c].sent = cl[c].printed
  BY <1>7, <1>g DEF Account, Prompt
<1>8. Prompt(c)'
  BY <1>5, <1>6, <1>p DEF Prompt, s
<1>9. Flow(c)'
  <2>1. s = cl[c].printed + 0 + 1 + 0
    BY <1>t, <1>p DEF s
  <2> QED BY <1>2, <1>5, <1>6, <1>o, <2>1, SameThreads DEF Flow
<1>10. Counted(c)'
  BY <1>5, <1>6, <1>7, SameThreads DEF Account, Counted
<1>11. Len(r.inbox) <= 1
  <2>1. Len(r.inbox) = 1
    BY <1>2, <1>5, Zenon
  <2>2. 1 <= 1
    OBVIOUS
  <2> QED BY <2>1, <2>2, Zenon
<1> QED BY <1>g, <1>4, <1>5, <1>8, <1>9, <1>10, <1>11, AfterClient DEF Account

\* execTransaction's recv.
LEMMA RecvAckKeeps ==
    ASSUME SessionInv, NEW c \in Clients, RecvAck(c)
    PROVE  SessionInv'
<1>t. /\ TypeOK /\ cl[c] \in ClientType /\ Len(cl[c].inbox) <= 1 /\ Len(cl[c].inbox) \in Nat
      /\ cl[c].sent \in 0 .. MaxQueries /\ cl[c].printed \in Nat /\ cl[c].acks \in 0 .. 1
      /\ Cardinality(Serving(c)) \in Nat /\ Cardinality(Sending(c)) \in Nat
  BY ClientFields, FiniteServing DEF SessionInv, TypeOK
<1>g. cl[c].at = "waiting" /\ cl[c].acks > 0 /\ UNCHANGED server
  BY DEF RecvAck
<1>1. cl' = [cl EXCEPT ![c].at = "idle", ![c].acks = @ - 1, ![c].printed = @ + 1]
  BY DEF RecvAck
<1> DEFINE p == cl[c].printed + 1
           none == 0
           r == [cl[c] EXCEPT !.at = "idle", !.acks = none, !.printed = p]
<1>2. cl[c].acks = 1 /\ cl[c].acks - 1 = none /\ none \in 0 .. 1
  BY <1>t, <1>g
<1>7. Account(c)
  BY DEF SessionInv
<1>3. cl[c].sent = p /\ p \in 0 .. MaxQueries
  BY <1>t, <1>g, <1>7 DEF Account, Prompt
<1>4. cl' = [cl EXCEPT ![c] = r]
  BY <1>t, <1>1, <1>2 DEF TypeOK
<1> HIDE DEF p, none
<1>5. /\ r \in ClientType /\ r.at = "idle" /\ r.inbox = cl[c].inbox /\ r.acks = none
      /\ r.rst = cl[c].rst /\ r.sent = cl[c].sent /\ r.printed = p
      /\ r.committed = cl[c].committed
  <2>1. cl[c] \in ClientType /\ p \in 0 .. MaxQueries
    BY <1>t, <1>3
  <2>2. r \in ClientType
    BY <1>2, <2>1 DEF ClientType
  <2>3. /\ r.at = "idle" /\ r.inbox = cl[c].inbox /\ r.acks = none
        /\ r.rst = cl[c].rst /\ r.sent = cl[c].sent /\ r.printed = p
        /\ r.committed = cl[c].committed
    BY <2>1 DEF ClientType
  <2> QED BY <2>2, <2>3
<1> HIDE DEF r
<1>6. cl'[c] = r /\ th' = th /\ up' = up
  BY <1>t, <1>g, <1>4, <1>5, ClientMoved DEF server
<1>8. Prompt(c)'
  BY <1>3, <1>5, <1>6 DEF Prompt, none
<1> DEFINE l == Len(cl[c].inbox)
           s == Cardinality(Serving(c))
           d == Cardinality(Sending(c))
           b == IF cl[c].rst THEN 1 ELSE 0
<1>n. l \in Nat /\ s \in Nat /\ d \in Nat /\ b \in Nat /\ cl[c].printed \in Nat
  BY <1>t
<1> HIDE DEF l, s, d, b
<1>9. Flow(c)'
  <2>1. up => ~cl[c].rst /\ cl[c].sent = cl[c].printed + 1 + l + s
    BY <1>2, <1>7, <1>g DEF Account, Flow, l, s
  <2>2. cl[c].printed + 1 + l + s = p + 0 + l + s
    BY <1>n DEF p
  <2> QED BY <1>5, <1>6, <2>1, <2>2, SameThreads DEF Flow, l, s, none
<1>10. Counted(c)'
  <2>1. up => cl[c].committed = cl[c].printed + 1 + b + d
    BY <1>2, <1>7 DEF Account, Counted, b, d
  <2>2. cl[c].printed + 1 + b + d = p + 0 + b + d
    BY <1>n DEF p
  <2> QED BY <1>5, <1>6, <2>1, <2>2, SameThreads DEF Counted, b, d, none
<1>11. Len(r.inbox) <= 1
  BY <1>t, <1>5
<1> QED BY <1>g, <1>4, <1>5, <1>8, <1>9, <1>10, <1>11, AfterClient DEF Account

\* recv of a client whose server has ended: 0, or an error.
LEMMA RecvEndKeeps ==
    ASSUME SessionInv, NEW c \in Clients, RecvEnd(c)
    PROVE  SessionInv'
<1>t. /\ TypeOK /\ cl[c] \in ClientType /\ Len(cl[c].inbox) <= 1
      /\ cl[c].sent \in 0 .. MaxQueries
  BY ClientFields DEF SessionInv, TypeOK
<1>g. /\ ~up /\ cl[c].at = "waiting" /\ cl[c].acks = 0
      /\ UNCHANGED server /\ ~up'
  BY DEF RecvEnd, server
<1>7. cl[c].sent = cl[c].printed + 1
  BY <1>g DEF SessionInv, Account, Prompt
<1> DEFINE p == cl[c].printed + 1
           r == IF cl[c].inbox = <<>> THEN [cl[c] EXCEPT !.at = "idle", !.printed = p]
                ELSE [cl[c] EXCEPT !.at = "gone"]
<1>1. cl' = [cl EXCEPT ![c] = r]
  BY <1>t DEF RecvEnd, TypeOK
<1>2. p \in 0 .. MaxQueries
  BY <1>t, <1>7
<1>3. cl[c].sent = p
  BY <1>7
<1> HIDE DEF p
<1>4. /\ r \in ClientType /\ r.inbox = cl[c].inbox /\ r.sent = cl[c].sent
      /\ r.acks = cl[c].acks
      /\ \/ r.at = "idle" /\ r.printed = p
         \/ r.at = "gone" /\ r.printed = cl[c].printed
  <2>1. CASE cl[c].inbox = <<>>
    BY <1>t, <1>2, <2>1 DEF ClientType
  <2>2. CASE cl[c].inbox # <<>>
    BY <1>t, <2>2 DEF ClientType
  <2> QED BY <2>1, <2>2
<1> HIDE DEF r
<1>5. cl'[c] = r
  BY <1>t, <1>1, <1>4, ClientMoved
<1>6. Account(c)'
  <2>1. Prompt(c)'
    <3>1. CASE r.at = "idle" /\ r.printed = p
      BY <1>3, <1>4, <1>5, <1>g, <3>1 DEF Prompt
    <3>2. CASE r.at = "gone" /\ r.printed = cl[c].printed
      BY <1>4, <1>5, <1>7, <1>g, <3>2 DEF Prompt
    <3> QED BY <1>4, <3>1, <3>2
  <2> QED BY <1>g, <2>1 DEF Account, Flow, Counted
<1> QED BY <1>t, <1>g, <1>1, <1>4, <1>6, AfterClient

\* A query after the end of the server.
LEMMA SendQueryToNobodyKeeps ==
    ASSUME SessionInv, NEW c \in Clients, SendQueryToNobody(c)
    PROVE  SessionInv'
<1>t. /\ TypeOK /\ cl[c] \in ClientType /\ Len(cl[c].inbox) <= 1
      /\ cl[c].sent \in Nat /\ cl[c].printed \in Nat
  BY ClientFields DEF SessionInv, TypeOK
<1>g. /\ ~up /\ cl[c].at = "idle" /\ cl[c].sent < MaxQueries
      /\ UNCHANGED server /\ ~up'
  BY DEF SendQueryToNobody, server
<1>7. cl[c].sent = cl[c].printed /\ cl[c].acks = 0
  BY <1>g DEF SessionInv, Account, Prompt
<1> DEFINE s == cl[c].sent + 1
           p == cl[c].printed + 1
<1>2. s \in 0 .. MaxQueries /\ p = s
  BY <1>t, <1>g, <1>7, Widths
<1> HIDE DEF s, p
<1>8. CASE ~cl[c].rst
  <2> DEFINE r == [cl[c] EXCEPT !.rst = TRUE, !.sent = s, !.printed = p]
  <2>1. cl' = [cl EXCEPT ![c] = r]
    BY <1>t, <1>8 DEF SendQueryToNobody, TypeOK, s, p
  <2>2. /\ r \in ClientType /\ r.inbox = cl[c].inbox /\ r.at = "idle"
        /\ r.sent = s /\ r.printed = p /\ r.acks = cl[c].acks
    BY <1>t, <1>2, <1>g DEF ClientType
  <2> HIDE DEF r
  <2>3. cl'[c] = r
    BY <1>t, <2>1, <2>2, ClientMoved
  <2>4. Account(c)'
    BY <1>g, <1>2, <1>7, <2>2, <2>3 DEF Account, Prompt, Flow, Counted
  <2> QED BY <1>t, <1>g, <2>1, <2>2, <2>4, AfterClient
<1>9. CASE cl[c].rst
  <2> DEFINE r == [cl[c] EXCEPT !.at = "gone"]
  <2>1. cl' = [cl EXCEPT ![c] = r]
    BY <1>t, <1>9 DEF SendQueryToNobody, TypeOK
  <2>2. /\ r \in ClientType /\ r.inbox = cl[c].inbox /\ r.at = "gone"
        /\ r.sent = cl[c].sent /\ r.printed = cl[c].printed /\ r.acks = cl[c].acks
    BY <1>t DEF ClientType
  <2> HIDE DEF r
  <2>3. cl'[c] = r
    BY <1>t, <2>1, <2>2, ClientMoved
  <2>4. Account(c)'
    BY <1>g, <1>7, <2>2, <2>3 DEF Account, Prompt, Flow, Counted
  <2> QED BY <1>t, <1>g, <2>1, <2>2, <2>4, AfterClient
<1> QED BY <1>8, <1>9

\* It leaves.
LEMMA ExitKeeps ==
    ASSUME SessionInv, NEW c \in Clients, Exit(c)
    PROVE  SessionInv'
<1> DEFINE r == [cl[c] EXCEPT !.at = "gone"]
<1>t. TypeOK /\ cl[c] \in ClientType /\ Len(cl[c].inbox) <= 1
  BY ClientFields DEF SessionInv, TypeOK
<1>g. cl[c].at \in {"idle", "waiting"} /\ cl[c].acks = 0 /\ UNCHANGED server
  BY DEF Exit
<1>1. cl' = [cl EXCEPT ![c] = r]
  BY <1>t DEF Exit, TypeOK
<1>2. /\ r \in ClientType /\ r.at = "gone" /\ r.inbox = cl[c].inbox /\ r.acks = cl[c].acks
      /\ r.rst = cl[c].rst /\ r.sent = cl[c].sent /\ r.printed = cl[c].printed
      /\ r.committed = cl[c].committed
  BY <1>t DEF ClientType
<1> HIDE DEF r
<1>3. cl'[c] = r /\ th' = th /\ up' = up
  BY <1>t, <1>g, <1>1, <1>2, ClientMoved DEF server
<1>4. Account(c)
  BY DEF SessionInv
<1>5. Prompt(c)'
  BY <1>g, <1>2, <1>3, <1>4 DEF Account, Prompt
<1>6. Flow(c)'
  BY <1>2, <1>3 DEF Flow
<1>7. Counted(c)'
  BY <1>2, <1>3, <1>4, SameThreads DEF Account, Counted
<1> QED BY <1>t, <1>g, <1>1, <1>2, <1>5, <1>6, <1>7, AfterClient DEF Account

-----------------------------------------------------------------------------
(* The server's steps *)

LEMMA NewThreadType == NewThread \in ThreadType /\ Sound(NewThread)
<1>1. 0 \in 0 .. UintMax /\ 0 \in 0 .. Memory
  BY Widths
<1> HIDE DEF BadFd, Uninit, None
<1> QED BY <1>1 DEF NewThread, ThreadType, Buffers, Sound

\* accept, and a thread for the connection.
LEMMA AcceptKeeps ==
    ASSUME SessionInv, NEW c \in Clients, Accept(c)
    PROVE  SessionInv'
<1>t. /\ TypeOK /\ th \in Seq(ThreadType) /\ accepted \in Seq(Clients)
      /\ Len(th) = Len(accepted) /\ Len(th) \in Nat /\ ThreadNum \in 0 .. Len(th)
  BY DEF SessionInv, TypeOK
<1>1. /\ th' = Append(th, NewThread) /\ accepted' = Append(accepted, c)
      /\ cl' = cl /\ ThreadNum' = ThreadNum /\ up' = up /\ raced' = raced
  BY DEF Accept
<1> DEFINE z == Append(th, NewThread)
           n == Len(th) + 1
<1>2. /\ z \in Seq(ThreadType) /\ Len(z) = n
      /\ DOMAIN z = DOMAIN th \cup {n} /\ n \notin DOMAIN th
      /\ z[n] = NewThread /\ \A m \in DOMAIN th : z[m] = th[m]
  <2> HIDE DEF ThreadType, NewThread
  <2> QED BY <1>t, NewThreadType
<1>3. Len(accepted') = n /\ accepted' \in Seq(Clients)
  BY <1>t, <1>1
<1>4. ThreadNum \in 0 .. n
  BY <1>t
<1>5. /\ NewThread.pc = "start" /\ NewThread.myid = None
  BY DEF NewThread
<1> HIDE DEF z
<1>6. TypeOK'
  BY <1>t, <1>1, <1>2, <1>3, <1>4 DEF TypeOK, z
<1>7. \A m \in DOMAIN th' : Sound(th'[m])
  BY <1>1, <1>2, NewThreadType DEF SessionInv, z
<1>8. Registered' = Registered
  BY <1>1, <1>2, <1>5 DEF Registered, z
<1>9. ASSUME NEW d \in Clients PROVE Account(d)'
  <2>1. Serving(d)' = Serving(d) /\ Sending(d)' = Sending(d)
    BY <1>1, <1>2, <1>5 DEF Serving, Sending, Serves, Sends, z
  <2> QED BY <1>1, <2>1, Untouched DEF SessionInv
<1> QED BY <1>1, <1>6, <1>7, <1>8, <1>9 DEF SessionInv, Sound

\* A step of a thread that no client notices.
LEMMA UnnoticedKeeps ==
    ASSUME SessionInv, NEW n \in DOMAIN th, NEW r \in ThreadType, th' = [th EXCEPT ![n] = r],
           Sound(r), r.myid = th[n].myid,
           \A c \in Clients : /\ Serves(r, c) <=> Serves(th[n], c)
                              /\ Sends(r, c) <=> Sends(th[n], c),
           cl' = cl, accepted' = accepted, ThreadNum' = ThreadNum, up' = up,
           raced' \in BOOLEAN
    PROVE  SessionInv'
<1>1. /\ cl \in [Clients -> ClientType] /\ TypeOK
      /\ \A c \in Clients : Len(cl[c].inbox) <= 1
  BY DEF SessionInv, TypeOK
<1>2. ASSUME NEW c \in Clients PROVE Account(c)'
  <2>1. /\ Cardinality(Serving(c)') = Cardinality(Serving(c))
             + (IF Serves(r, c) THEN 1 ELSE 0) - (IF Serves(th[n], c) THEN 1 ELSE 0)
        /\ Cardinality(Sending(c)') = Cardinality(Sending(c))
             + (IF Sends(r, c) THEN 1 ELSE 0) - (IF Sends(th[n], c) THEN 1 ELSE 0)
    BY <1>1, ServingMoved
  <2>2. Cardinality(Serving(c)) \in Nat /\ Cardinality(Sending(c)) \in Nat
    BY <1>1, FiniteServing
  <2>3. /\ Cardinality(Serving(c)') = Cardinality(Serving(c))
        /\ Cardinality(Sending(c)') = Cardinality(Sending(c))
    <3> DEFINE s == Cardinality(Serving(c))
               d == Cardinality(Sending(c))
    <3> HIDE DEF s, d
    <3>1. s \in Nat /\ d \in Nat
      BY <2>2 DEF s, d
    <3>2. s + 1 - 1 = s /\ s + 0 - 0 = s /\ d + 1 - 1 = d /\ d + 0 - 0 = d
      BY <3>1
    <3>3. /\ Cardinality(Serving(c)') = s + (IF Serves(r, c) THEN 1 ELSE 0)
                                          - (IF Serves(r, c) THEN 1 ELSE 0)
          /\ Cardinality(Sending(c)') = d + (IF Sends(r, c) THEN 1 ELSE 0)
                                          - (IF Sends(r, c) THEN 1 ELSE 0)
      BY <2>1, Zenon DEF s, d
    <3>4. Cardinality(Serving(c)') = s /\ Cardinality(Sending(c)') = d
      BY <3>2, <3>3, Zenon
    <3> QED BY <3>4 DEF s, d
  <2> QED BY <2>3, Untouched DEF SessionInv
<1> QED BY <1>1, <1>2, AfterThread

\* The thread reads *arg and tests the limit.
LEMMA StartKeeps ==
    ASSUME SessionInv, NEW n \in DOMAIN th, Start(n)
    PROVE  SessionInv'
<1>t. /\ TypeOK /\ th[n] \in ThreadType /\ accepted \in Seq(Clients)
  BY ThreadFields DEF SessionInv, TypeOK
<1>1. PICK sfd \in Sfds(n) :
        th' = [th EXCEPT ![n].sfd = sfd,
                 ![n].pc = IF ThreadNum = MAX_TRANSACTION THEN "ended" ELSE "register"]
  BY DEF Start
<1>2. sfd \in Clients \cup {BadFd}
  <2>1. CASE sfd = BadFd
    BY <2>1
  <2>2. CASE sfd # BadFd
    <3>1. PICK m \in n .. Len(accepted) : sfd = accepted[m]
      BY <2>2 DEF Sfds
    <3>2. m \in 1 .. Len(accepted)
      BY <1>t, <3>1 DEF TypeOK
    <3> QED BY <1>t, <3>1, <3>2
  <2> QED BY <2>1, <2>2
<1> DEFINE q == IF ThreadNum = MAX_TRANSACTION THEN "ended" ELSE "register"
           r == [th[n] EXCEPT !.sfd = sfd, !.pc = q]
<1>3. q \in {"ended", "register"}
  OBVIOUS
<1>4. th' = [th EXCEPT ![n] = r]
  BY <1>t, <1>1 DEF TypeOK
<1> HIDE DEF q, BadFd, None
<1>5. /\ r \in ThreadType /\ r.pc \in {"ended", "register"} /\ r.myid = th[n].myid
  BY <1>t, <1>2, <1>3 DEF ThreadType
<1> HIDE DEF r
<1>6. /\ th[n].pc = "start" /\ Sound(th[n]) /\ cl' = cl /\ accepted' = accepted
      /\ ThreadNum' = ThreadNum /\ up' = up
      /\ raced' = (raced \/ (ThreadNum # MAX_TRANSACTION /\ Registering # {}))
  BY DEF Start, SessionInv
<1>7. raced' \in BOOLEAN
  BY <1>t, <1>6 DEF TypeOK
<1>8. Sound(r)
  BY <1>5, <1>6 DEF Sound
<1>9. \A c \in Clients : ~Serves(r, c) /\ ~Serves(th[n], c) /\ ~Sends(r, c) /\ ~Sends(th[n], c)
  BY <1>5, <1>6 DEF Serves, Sends
<1> QED BY <1>4, <1>5, <1>6, <1>7, <1>8, <1>9, UnnoticedKeeps

\* The thread takes its number.
LEMMA RegisterKeeps ==
    ASSUME SessionInv, NEW n \in DOMAIN th, Register(n)
    PROVE  SessionInv'
<1>t. /\ TypeOK /\ th[n] \in ThreadType /\ ThreadNum \in Nat /\ ThreadNum \in 0 .. Len(th)
      /\ Len(th) \in Nat /\ DOMAIN th = 1 .. Len(th)
  BY ThreadFields DEF SessionInv, TypeOK
<1>g. /\ th[n].pc = "register" /\ Sound(th[n]) /\ cl' = cl /\ accepted' = accepted
      /\ ThreadNum' = ThreadNum + 1 /\ up' = up /\ raced' = raced
  BY DEF Register, SessionInv
<1> DEFINE k == ThreadNum
           r == [th[n] EXCEPT !.myid = k, !.pc = "recv"]
<1>1. th' = [th EXCEPT ![n] = r]
  BY <1>t DEF Register, TypeOK
<1>k. k \in Nat \cup {None}
  BY <1>t
<1> HIDE DEF k, BadFd, None
<1>2. /\ r \in ThreadType /\ r.pc = "recv" /\ r.myid = k
  BY <1>t, <1>k DEF ThreadType
<1>3. r.myid # None
  BY <1>t, <1>2 DEF k, None
<1> HIDE DEF r
<1>4. /\ th' \in Seq(ThreadType) /\ Len(th') = Len(th) /\ DOMAIN th' = DOMAIN th
      /\ th'[n] = r
      /\ \A m \in DOMAIN th : m # n => th'[m] = th[m]
  BY <1>t, <1>1, <1>2, ThreadMoved
<1>5. n \notin Registered /\ Registered' = Registered \cup {n}
  BY <1>g, <1>3, <1>4 DEF Registered, Sound
<1>6. /\ IsFiniteSet(DOMAIN th) /\ Cardinality(DOMAIN th) = Len(th)
  <2> DEFINE z == Len(th)
  <2>1. z \in Nat /\ DOMAIN th = 1 .. z
    BY <1>t
  <2> HIDE DEF z
  <2>2. /\ IsFiniteSet(1 .. z)
        /\ Cardinality(1 .. z) = IF 1 > z THEN 0 ELSE z - 1 + 1
    BY <2>1, FS_Interval
  <2>3. Cardinality(1 .. z) = z
    BY <2>1, <2>2
  <2> QED BY <2>1, <2>2, <2>3 DEF z
<1>7. Registered \subseteq DOMAIN th /\ Registered' \subseteq DOMAIN th
  BY <1>4 DEF Registered
<1>8. /\ IsFiniteSet(Registered) /\ Cardinality(Registered') <= Len(th)
  BY <1>6, <1>7, FS_Subset
<1>9. Cardinality(Registered') = ThreadNum + 1
  BY <1>5, <1>8, FS_AddElement DEF SessionInv
<1>10. ThreadNum' \in 0 .. Len(th')
  BY <1>t, <1>g, <1>4, <1>8, <1>9
<1>11. TypeOK'
  BY <1>t, <1>g, <1>4, <1>10 DEF TypeOK
<1>12. \A m \in DOMAIN th' : Sound(th'[m])
  BY <1>2, <1>4 DEF SessionInv, Sound
<1>13. ASSUME NEW c \in Clients PROVE Account(c)'
  <2>1. Serving(c)' = Serving(c) /\ Sending(c)' = Sending(c)
    BY <1>g, <1>2, <1>4 DEF Serving, Sending, Serves, Sends
  <2> QED BY <1>g, <2>1, Untouched DEF SessionInv
<1> QED BY <1>g, <1>9, <1>11, <1>12, <1>13 DEF SessionInv, Sound

\* RERR.
LEMMA RecvErrorKeeps ==
    ASSUME SessionInv, NEW n \in DOMAIN th, RecvError(n)
    PROVE  SessionInv'
<1>t. TypeOK /\ th[n] \in ThreadType /\ raced \in BOOLEAN
  BY ThreadFields DEF SessionInv, TypeOK
<1> DEFINE r == [th[n] EXCEPT !.pc = "ended"]
<1>1. th' = [th EXCEPT ![n] = r]
  BY <1>t DEF RecvError, Goto, TypeOK
<1>2. /\ r \in ThreadType /\ r.pc = "ended" /\ r.myid = th[n].myid
  BY <1>t DEF ThreadType
<1> HIDE DEF r
<1>3. /\ th[n].pc = "recv" /\ cl' = cl /\ accepted' = accepted
      /\ ThreadNum' = ThreadNum /\ up' = up /\ raced' = raced
  BY DEF RecvError, Goto
<1>4. Sound(r)
  BY <1>2 DEF Sound
<1>5. \A c \in Clients : ~Serves(r, c) /\ ~Serves(th[n], c) /\ ~Sends(r, c) /\ ~Sends(th[n], c)
  BY <1>2, <1>3 DEF Serves, Sends
<1> QED BY <1>t, <1>1, <1>2, <1>3, <1>4, <1>5, UnnoticedKeeps

\* A round of split.
LEMMA SplitNextKeeps ==
    ASSUME SessionInv, NEW n \in DOMAIN th, SplitNext(n)
    PROVE  SessionInv'
<1>t. /\ TypeOK /\ th[n] \in ThreadType /\ raced \in BOOLEAN /\ Sound(th[n])
      /\ th[n].last \in 0 .. UintMax /\ th[n].ops \in 0 .. Memory
  BY ThreadFields DEF SessionInv, TypeOK
<1>g. /\ th[n].pc = "split" /\ th[n].ops < Memory /\ cl' = cl /\ accepted' = accepted
      /\ ThreadNum' = ThreadNum /\ up' = up /\ raced' = raced
  BY DEF SplitNext
<1> DEFINE f == Narrow(th[n].last + 1)
           l == Last(th[n].buf, f)
           o == th[n].ops + 1
           r == [th[n] EXCEPT !.ops = o, !.first = f, !.last = l]
<1>1. th' = [th EXCEPT ![n] = r]
  BY <1>t DEF SplitNext, TypeOK
<1>2. th[n].last + 1 \in Nat
  BY <1>t, Widths
<1>3. f \in 0 .. UintMax
  BY <1>2, NarrowType
<1>4. f \in Nat
  <2> HIDE DEF f
  <2> QED BY <1>3, Widths
<1>5. th[n].buf \in Queries \cup {<<>>}
  BY <1>t, <1>g DEF Sound
<1>6. l \in 0 .. UintMax
  <2> HIDE DEF f
  <2> QED BY <1>4, <1>5, LastType
<1>7. o \in 0 .. Memory
  BY <1>t, <1>g, Widths
<1> HIDE DEF f, l, o, BadFd, None
<1>8. /\ r \in ThreadType /\ r.pc = th[n].pc /\ r.sfd = th[n].sfd /\ r.buf = th[n].buf
      /\ r.myid = th[n].myid
  BY <1>t, <1>3, <1>6, <1>7 DEF ThreadType
<1> HIDE DEF r
<1>9. Sound(r)
  BY <1>t, <1>8 DEF Sound
<1>10. \A c \in Clients : /\ Serves(r, c) <=> Serves(th[n], c)
                          /\ Sends(r, c) <=> Sends(th[n], c)
  BY <1>8 DEF Serves, Sends
<1> QED BY <1>t, <1>g, <1>1, <1>8, <1>9, <1>10, UnnoticedKeeps

\* What a thread has after its recv.
LEMMA ReceivedLocals ==
    ASSUME SessionInv, NEW n \in DOMAIN th, NEW buf \in Queries \cup {<<>>},
           th[n].sfd \in Clients
    PROVE  \E r \in ThreadType :
              /\ Received(n, buf) = [th EXCEPT ![n] = r]
              /\ r.pc = "split" /\ r.sfd = th[n].sfd /\ r.myid = th[n].myid
              /\ Sound(r)
<1>t. TypeOK /\ th[n] \in ThreadType
  BY ThreadFields DEF SessionInv
<1> DEFINE z == 0
           l == Narrow(find_first_of(buf, z))
           r == [th[n] EXCEPT !.pc = "split", !.buf = buf, !.ops = z, !.first = z, !.last = l]
<1>1. z \in 0 .. UintMax /\ z \in 0 .. Memory /\ z \in Nat
  BY Widths
<1>2. l \in 0 .. UintMax
  <2> HIDE DEF z
  <2> QED BY <1>1, LastType
<1>3. Received(n, buf) = [th EXCEPT ![n] = r]
  BY <1>t DEF Received, TypeOK
<1>4. buf \in Buffers
  BY DEF Buffers
<1> HIDE DEF z, l, BadFd, None, Buffers
<1>5. /\ r \in ThreadType /\ r.pc = "split" /\ r.sfd = th[n].sfd /\ r.buf = buf
      /\ r.myid = th[n].myid
  BY <1>t, <1>1, <1>2, <1>4 DEF ThreadType
<1> HIDE DEF r
<1>6. Sound(r)
  BY <1>5 DEF Sound
<1> QED BY <1>3, <1>5, <1>6

\* recv of a query.
LEMMA RecvKeeps ==
    ASSUME SessionInv, NEW n \in DOMAIN th, Recv(n)
    PROVE  SessionInv'
<1>1. PICK c \in Clients :
        /\ th[n].sfd = c /\ cl[c].inbox # <<>>
        /\ th' = Received(n, Head(cl[c].inbox))
        /\ cl' = [cl EXCEPT ![c].inbox = Tail(@)]
  BY DEF Recv
<1>g. /\ th[n].pc = "recv" /\ accepted' = accepted /\ ThreadNum' = ThreadNum
      /\ up' = up /\ raced' = raced /\ up
  BY DEF Recv
<1>t. /\ TypeOK /\ cl[c] \in ClientType /\ cl[c].inbox \in Seq(Queries)
      /\ Len(cl[c].inbox) \in 0 .. 1 /\ raced \in BOOLEAN
      /\ \A d \in Clients : Len(cl[d].inbox) <= 1
  BY ClientFields DEF SessionInv, TypeOK
<1> DEFINE i == Tail(cl[c].inbox)
           k == [cl[c] EXCEPT !.inbox = i]
<1>2. /\ Head(cl[c].inbox) \in Queries /\ i \in Seq(Queries)
      /\ Len(cl[c].inbox) = 1 /\ Len(i) = 0
  BY <1>t, <1>1
<1>3. PICK r \in ThreadType :
        /\ th' = [th EXCEPT ![n] = r]
        /\ r.pc = "split" /\ r.sfd = c /\ r.myid = th[n].myid /\ Sound(r)
  BY <1>1, <1>2, ReceivedLocals
<1>4. cl' = [cl EXCEPT ![c] = k]
  BY <1>t, <1>1 DEF TypeOK
<1> HIDE DEF i
<1>5. /\ k \in ClientType /\ k.at = cl[c].at /\ k.inbox = i /\ k.acks = cl[c].acks
      /\ k.rst = cl[c].rst /\ k.sent = cl[c].sent /\ k.printed = cl[c].printed
      /\ k.committed = cl[c].committed
  BY <1>t, <1>2 DEF ClientType
<1> HIDE DEF k
<1>6. /\ cl' \in [Clients -> ClientType] /\ cl'[c] = k
      /\ \A d \in Clients : d # c => cl'[d] = cl[d]
  BY <1>t, <1>4, <1>5, ClientMoved
<1>7. /\ ~Serves(th[n], c) /\ ~Sends(th[n], c) /\ Serves(r, c) /\ ~Sends(r, c)
      /\ \A d \in Clients : d # c => ~Serves(r, d) /\ ~Serves(th[n], d)
                                       /\ ~Sends(r, d) /\ ~Sends(th[n], d)
  BY <1>1, <1>3, <1>g DEF Serves, Sends
<1>8. ASSUME NEW d \in Clients
      PROVE  /\ Cardinality(Serving(d)') = Cardinality(Serving(d)) + (IF d = c THEN 1 ELSE 0)
             /\ Cardinality(Sending(d)') = Cardinality(Sending(d))
  <2>1. /\ Cardinality(Serving(d)) \in Nat /\ Cardinality(Sending(d)) \in Nat
    BY <1>t, FiniteServing
  <2>2. /\ Cardinality(Serving(d)') = Cardinality(Serving(d))
             + (IF Serves(r, d) THEN 1 ELSE 0) - (IF Serves(th[n], d) THEN 1 ELSE 0)
        /\ Cardinality(Sending(d)') = Cardinality(Sending(d))
             + (IF Sends(r, d) THEN 1 ELSE 0) - (IF Sends(th[n], d) THEN 1 ELSE 0)
    BY <1>t, <1>3, ServingMoved
  <2> QED BY <1>7, <2>1, <2>2
<1>9. Account(c)
  BY DEF SessionInv
<1>10. Account(c)'
  <2>1. Prompt(c)'
    BY <1>5, <1>6, <1>9 DEF Account, Prompt
  <2>2. Flow(c)'
    <3> DEFINE s == Cardinality(Serving(c))
    <3>1. /\ s \in Nat /\ cl[c].printed \in Nat /\ cl[c].acks \in Nat
      BY <1>t, ClientFields, FiniteServing
    <3>2. Cardinality(Serving(c)') = s + 1
      BY <1>8
    <3> HIDE DEF s
    <3>3. cl[c].printed + cl[c].acks + 1 + s = cl[c].printed + cl[c].acks + 0 + (s + 1)
      BY <3>1
    <3>4. cl[c].at # "gone" =>
            ~cl[c].rst /\ cl[c].sent = cl[c].printed + cl[c].acks + 1 + s
      BY <1>2, <1>9, <1>g DEF Account, Flow, s
    <3> QED BY <1>2, <1>5, <1>6, <3>2, <3>3, <3>4 DEF Flow
  <2>3. Counted(c)'
    BY <1>5, <1>6, <1>8, <1>9, <1>g DEF Account, Counted
  <2> QED BY <2>1, <2>2, <2>3 DEF Account
<1>11. ASSUME NEW d \in Clients PROVE Len(cl'[d].inbox) <= 1 /\ Account(d)'
  <2>1. CASE d = c
    <3>1. Len(cl'[c].inbox) = 0
      BY <1>2, <1>5, <1>6, Zenon
    <3> QED BY <1>10, <2>1, <3>1
  <2>2. CASE d # c
    <3>1. Cardinality(Serving(d)') = Cardinality(Serving(d)) + 0
      BY <1>8, <2>2
    <3>2. Cardinality(Serving(d)') = Cardinality(Serving(d))
      BY <1>t, <3>1, FiniteServing
    <3>3. Account(d)'
      BY <1>6, <1>8, <1>g, <2>2, <3>2, Untouched DEF SessionInv
    <3> QED BY <1>t, <1>6, <2>2, <3>3
  <2> QED BY <2>1, <2>2
<1> QED BY <1>t, <1>g, <1>3, <1>6, <1>11, AfterThread

\* recv from a client that has left.
LEMMA RecvNothingKeeps ==
    ASSUME SessionInv, NEW n \in DOMAIN th, RecvNothing(n)
    PROVE  SessionInv'
<1>1. PICK c \in Clients : th[n].sfd = c /\ cl[c].at = "gone" /\ cl[c].inbox = <<>>
  BY DEF RecvNothing
<1>g. /\ th[n].pc = "recv" /\ cl' = cl /\ accepted' = accepted /\ ThreadNum' = ThreadNum
      /\ up' = up /\ raced' = raced /\ up
  BY DEF RecvNothing
<1>t. /\ TypeOK /\ raced \in BOOLEAN /\ cl \in [Clients -> ClientType]
      /\ \A d \in Clients : Len(cl[d].inbox) <= 1
  BY DEF SessionInv, TypeOK
<1>2. PICK buf \in IF th[n].buf = Uninit THEN Queries \cup {<<>>} ELSE {th[n].buf} :
        th' = Received(n, buf)
  BY DEF RecvNothing
<1>3. buf \in Queries \cup {<<>>}
  BY <1>t, <1>2, ThreadFields DEF Buffers
<1>4. PICK r \in ThreadType :
        /\ th' = [th EXCEPT ![n] = r]
        /\ r.pc = "split" /\ r.sfd = c /\ r.myid = th[n].myid /\ Sound(r)
  BY <1>1, <1>2, <1>3, ReceivedLocals
<1>5. /\ ~Serves(th[n], c) /\ ~Sends(th[n], c) /\ ~Sends(r, c)
      /\ \A d \in Clients : d # c => ~Serves(r, d) /\ ~Serves(th[n], d)
                                       /\ ~Sends(r, d) /\ ~Sends(th[n], d)
  BY <1>1, <1>4, <1>g DEF Serves, Sends
<1>6. ASSUME NEW d \in Clients
      PROVE  /\ d # c => Cardinality(Serving(d)') = Cardinality(Serving(d))
             /\ Cardinality(Sending(d)') = Cardinality(Sending(d))
  <2>1. /\ Cardinality(Serving(d)) \in Nat /\ Cardinality(Sending(d)) \in Nat
    BY <1>t, FiniteServing
  <2>2. /\ Cardinality(Serving(d)') = Cardinality(Serving(d))
             + (IF Serves(r, d) THEN 1 ELSE 0) - (IF Serves(th[n], d) THEN 1 ELSE 0)
        /\ Cardinality(Sending(d)') = Cardinality(Sending(d))
             + (IF Sends(r, d) THEN 1 ELSE 0) - (IF Sends(th[n], d) THEN 1 ELSE 0)
    BY <1>t, <1>4, ServingMoved
  <2> QED BY <1>5, <2>1, <2>2
<1>7. ASSUME NEW d \in Clients PROVE Account(d)'
  <2>1. CASE d = c
    <3>1. Account(c)
      BY DEF SessionInv
    <3>2. Prompt(c)' /\ Flow(c)'
      BY <1>1, <1>g, <3>1 DEF Account, Prompt, Flow
    <3>3. Counted(c)'
      BY <1>6, <1>g, <3>1 DEF Account, Counted
    <3> QED BY <2>1, <3>2, <3>3 DEF Account
  <2>2. CASE d # c
    BY <1>6, <1>g, <2>2, Untouched DEF SessionInv
  <2> QED BY <2>1, <2>2
<1> QED BY <1>t, <1>g, <1>4, <1>7, AfterThread

\* exec_trans runs the transaction.
LEMMA RunKeeps ==
    ASSUME SessionInv, NEW n \in DOMAIN th, Run(n)
    PROVE  SessionInv'
<1>g. /\ th[n].pc = "split" /\ accepted' = accepted /\ ThreadNum' = ThreadNum
      /\ up' = up /\ raced' = raced /\ up
  BY DEF Run, Goto
<1>p. PICK c \in Clients : th[n].sfd = c
  BY <1>g DEF SessionInv, Sound
<1>s. Sound(th[n]) /\ th[n].sfd = c
  BY <1>p DEF SessionInv
<1>t. /\ TypeOK /\ th[n] \in ThreadType /\ cl[c] \in ClientType /\ raced \in BOOLEAN
      /\ cl[c].committed \in Nat
      /\ \A d \in Clients : Len(cl[d].inbox) <= 1
  BY <1>s, ClientFields, ThreadFields DEF SessionInv, TypeOK
<1> DEFINE r == [th[n] EXCEPT !.pc = "send"]
           m == cl[c].committed + 1
           k == [cl[c] EXCEPT !.committed = m]
<1>1. th' = [th EXCEPT ![n] = r] /\ cl' = [cl EXCEPT ![c] = k]
  BY <1>t, <1>s DEF Run, Goto, TypeOK
<1>2. m \in Nat
  BY <1>t
<1> HIDE DEF m
<1>3. /\ r \in ThreadType /\ r.pc = "send" /\ r.sfd = c /\ r.myid = th[n].myid
      /\ r.buf = th[n].buf
  BY <1>t, <1>s DEF ThreadType
<1> HIDE DEF r
<1>4. /\ k \in ClientType /\ k.at = cl[c].at /\ k.inbox = cl[c].inbox /\ k.acks = cl[c].acks
      /\ k.rst = cl[c].rst /\ k.sent = cl[c].sent /\ k.printed = cl[c].printed
      /\ k.committed = m
  BY <1>t, <1>2 DEF ClientType
<1> HIDE DEF k
<1>5. Sound(r)
  BY <1>g, <1>s, <1>3 DEF Sound
<1>6. /\ cl' \in [Clients -> ClientType] /\ cl'[c] = k
      /\ \A d \in Clients : d # c => cl'[d] = cl[d]
  BY <1>t, <1>1, <1>4, ClientMoved
<1>7. /\ \A d \in Clients : Serves(r, d) <=> Serves(th[n], d)
      /\ Sends(r, c) /\ ~Sends(th[n], c)
      /\ \A d \in Clients : d # c => ~Sends(r, d) /\ ~Sends(th[n], d)
  BY <1>3, <1>g, <1>s DEF Serves, Sends
<1>8. ASSUME NEW d \in Clients
      PROVE  /\ Cardinality(Serving(d)') = Cardinality(Serving(d))
             /\ Cardinality(Sending(d)') = Cardinality(Sending(d)) + (IF d = c THEN 1 ELSE 0)
  <2>1. /\ Cardinality(Serving(d)) \in Nat /\ Cardinality(Sending(d)) \in Nat
    BY <1>t, FiniteServing
  <2>2. /\ Cardinality(Serving(d)') = Cardinality(Serving(d))
             + (IF Serves(r, d) THEN 1 ELSE 0) - (IF Serves(th[n], d) THEN 1 ELSE 0)
        /\ Cardinality(Sending(d)') = Cardinality(Sending(d))
             + (IF Sends(r, d) THEN 1 ELSE 0) - (IF Sends(th[n], d) THEN 1 ELSE 0)
    BY <1>t, <1>1, <1>3, ServingMoved
  <2>3. CASE Serves(th[n], d)
    BY <1>7, <2>1, <2>2, <2>3
  <2>4. CASE ~Serves(th[n], d)
    BY <1>7, <2>1, <2>2, <2>4
  <2> QED BY <2>3, <2>4
<1>9. Account(c)
  BY <1>s DEF SessionInv
<1>10. Account(c)'
  <2>1. Prompt(c)'
    BY <1>4, <1>6, <1>9 DEF Account, Prompt
  <2>2. Flow(c)'
    BY <1>4, <1>6, <1>8, <1>9, <1>s, <1>g DEF Account, Flow
  <2>3. Counted(c)'
    <3> DEFINE d == Cardinality(Sending(c))
               b == IF cl[c].rst THEN 1 ELSE 0
    <3>1. /\ d \in Nat /\ cl[c].printed \in Nat /\ cl[c].acks \in Nat /\ b \in Nat
      BY <1>t, <1>s, ClientFields, FiniteServing
    <3>2. Cardinality(Sending(c)') = d + 1
      BY <1>8, <1>s
    <3> HIDE DEF d, b
    <3>3. cl[c].printed + cl[c].acks + b + d + 1 = cl[c].printed + cl[c].acks + b + (d + 1)
      BY <3>1
    <3>4. cl[c].committed = cl[c].printed + cl[c].acks + b + d
      BY <1>9, <1>g DEF Account, Counted, b, d
    <3> QED BY <1>4, <1>6, <3>2, <3>3, <3>4 DEF Counted, m, b
  <2> QED BY <2>1, <2>2, <2>3 DEF Account
<1>11. ASSUME NEW d \in Clients PROVE Len(cl'[d].inbox) <= 1 /\ Account(d)'
  <2>1. CASE d = c
    BY <1>t, <1>4, <1>6, <1>10, <2>1
  <2>2. CASE d # c
    <3>1. Cardinality(Sending(d)') = Cardinality(Sending(d)) + 0
      BY <1>8, <2>2
    <3>2. Cardinality(Sending(d)') = Cardinality(Sending(d))
      BY <1>t, <3>1, FiniteServing
    <3>3. Account(d)'
      BY <1>6, <1>8, <1>g, <2>2, <3>2, Untouched DEF SessionInv
    <3> QED BY <1>t, <1>6, <2>2, <3>3
  <2> QED BY <2>1, <2>2
<1> QED BY <1>t, <1>g, <1>1, <1>3, <1>5, <1>6, <1>11, AfterThread

\* The ack goes out, or is answered by a reset.
LEMMA SendKeeps ==
    ASSUME SessionInv, NEW n \in DOMAIN th, Send(n)
    PROVE  SessionInv'
<1>g. /\ th[n].pc = "send" /\ accepted' = accepted /\ ThreadNum' = ThreadNum
      /\ up' = up /\ raced' = raced /\ up /\ ~cl[th[n].sfd].rst
  BY DEF Send, Goto
<1>p. PICK c \in Clients : th[n].sfd = c
  BY <1>g DEF SessionInv, Sound
<1>s. Sound(th[n]) /\ th[n].sfd = c /\ ~cl[c].rst
  BY <1>g, <1>p DEF SessionInv
<1>t. /\ TypeOK /\ th[n] \in ThreadType /\ cl[c] \in ClientType /\ raced \in BOOLEAN
      /\ \A d \in Clients : Len(cl[d].inbox) <= 1
  BY <1>s, ClientFields, ThreadFields DEF SessionInv, TypeOK
<1>i. /\ cl[c].at \in {"out", "idle", "waiting", "gone"} /\ cl[c].acks \in 0 .. 1
      /\ cl[c].printed \in Nat /\ Len(cl[c].inbox) \in Nat
      /\ Cardinality(Serving(c)) \in Nat /\ Cardinality(Sending(c)) \in Nat
  BY <1>s, <1>t, ClientFields, FiniteServing
<1> DEFINE r == [th[n] EXCEPT !.pc = "recv"]
           a == cl[c].acks + 1
           k == IF cl[c].at = "gone" THEN [cl[c] EXCEPT !.rst = TRUE]
                ELSE [cl[c] EXCEPT !.acks = a]
<1>1. th' = [th EXCEPT ![n] = r] /\ cl' = [cl EXCEPT ![c] = k]
  <2>1. th' = [th EXCEPT ![n] = r]
    BY <1>t DEF Send, Goto, TypeOK
  <2>2. cl' = IF cl[c].at = "gone" THEN [cl EXCEPT ![c].rst = TRUE]
              ELSE [cl EXCEPT ![c].acks = @ + 1]
    BY <1>s DEF Send
  <2>3. CASE cl[c].at = "gone"
    <3>1. k = [cl[c] EXCEPT !.rst = TRUE]
      BY <2>3
    <3>2. cl' = [cl EXCEPT ![c] = [cl[c] EXCEPT !.rst = TRUE]]
      BY <2>2, <2>3
    <3> HIDE DEF k, r
    <3> QED BY <2>1, <3>1, <3>2
  <2>4. CASE cl[c].at # "gone"
    <3>1. k = [cl[c] EXCEPT !.acks = a]
      BY <2>4
    <3>2. cl' = [cl EXCEPT ![c] = [cl[c] EXCEPT !.acks = a]]
      BY <2>2, <2>4
    <3> HIDE DEF k, r
    <3> QED BY <2>1, <3>1, <3>2
  <2> QED BY <2>3, <2>4
<1>3. /\ r \in ThreadType /\ r.pc = "recv" /\ r.sfd = c /\ r.myid = th[n].myid
  BY <1>t, <1>s DEF ThreadType
<1> HIDE DEF r
<1>5. Sound(r)
  BY <1>3 DEF Sound
<1>7. /\ ~Serves(r, c) /\ Serves(th[n], c) /\ ~Sends(r, c) /\ Sends(th[n], c)
      /\ \A d \in Clients : d # c => ~Serves(r, d) /\ ~Serves(th[n], d)
                                       /\ ~Sends(r, d) /\ ~Sends(th[n], d)
  BY <1>3, <1>g, <1>s DEF Serves, Sends
<1>8. ASSUME NEW d \in Clients
      PROVE  /\ Cardinality(Serving(d)') = Cardinality(Serving(d)) - (IF d = c THEN 1 ELSE 0)
             /\ Cardinality(Sending(d)') = Cardinality(Sending(d)) - (IF d = c THEN 1 ELSE 0)
  <2>1. /\ Cardinality(Serving(d)) \in Nat /\ Cardinality(Sending(d)) \in Nat
    BY <1>t, FiniteServing
  <2>2. /\ Cardinality(Serving(d)') = Cardinality(Serving(d))
             + (IF Serves(r, d) THEN 1 ELSE 0) - (IF Serves(th[n], d) THEN 1 ELSE 0)
        /\ Cardinality(Sending(d)') = Cardinality(Sending(d))
             + (IF Sends(r, d) THEN 1 ELSE 0) - (IF Sends(th[n], d) THEN 1 ELSE 0)
    BY <1>t, <1>1, <1>3, ServingMoved
  <2> QED BY <1>7, <2>1, <2>2
<1>b. /\ Cardinality(Serving(c)) - 1 \in Nat /\ Cardinality(Sending(c)) - 1 \in Nat
      /\ Cardinality(Serving(c)') = Cardinality(Serving(c)) - 1
      /\ Cardinality(Sending(c)') = Cardinality(Sending(c)) - 1
  <2>1. n \in Serving(c) /\ n \in Sending(c)
    BY <1>7 DEF Serving, Sending
  <2>2. Cardinality(Serving(c)) # 0 /\ Cardinality(Sending(c)) # 0
    BY <1>t, <2>1, FiniteServing, FS_EmptySet
  <2> QED BY <1>i, <1>s, <1>8, <2>2
<1>9. Account(c)
  BY <1>s DEF SessionInv
<1>w. cl[c].at # "gone" => cl[c].at = "waiting" /\ cl[c].acks = 0
  <2>1. SUFFICES ASSUME cl[c].at # "gone" PROVE cl[c].at = "waiting" /\ cl[c].acks = 0
    OBVIOUS
  <2>2. Cardinality(Serving(c)) # 0
    BY <1>i, <1>b
  <2>3. cl[c].at \notin {"out", "idle"}
    BY <1>g, <1>s, <2>1, <2>2, Open
  <2>4. 1 = cl[c].acks + Len(cl[c].inbox) + Cardinality(Serving(c))
    BY <1>g, <1>i, <1>s, <2>1, <2>3, Open
  <2> DEFINE l == Len(cl[c].inbox)
             s == Cardinality(Serving(c))
  <2>5. l \in Nat /\ s \in Nat /\ s # 0 /\ cl[c].acks \in Nat /\ 1 = cl[c].acks + l + s
    BY <1>i, <2>2, <2>4
  <2> HIDE DEF l, s
  <2>6. cl[c].acks = 0
    BY <2>5
  <2> QED BY <1>i, <2>1, <2>3, <2>6
<1>2. cl[c].at # "gone" => a = 1 /\ a \in 0 .. 1
  BY <1>w
<1> HIDE DEF a
<1>4. /\ k \in ClientType /\ k.at = cl[c].at /\ k.inbox = cl[c].inbox
      /\ k.sent = cl[c].sent /\ k.printed = cl[c].printed
      /\ k.committed = cl[c].committed
      /\ \/ cl[c].at = "gone" /\ k.rst = TRUE /\ k.acks = cl[c].acks
         \/ cl[c].at # "gone" /\ k.rst = cl[c].rst /\ k.acks = a
  <2>1. CASE cl[c].at = "gone"
    BY <1>t, <2>1 DEF ClientType
  <2>2. CASE cl[c].at # "gone"
    BY <1>t, <1>2, <2>2 DEF ClientType
  <2> QED BY <2>1, <2>2
<1> HIDE DEF k
<1>6. /\ cl' \in [Clients -> ClientType] /\ cl'[c] = k
      /\ \A d \in Clients : d # c => cl'[d] = cl[d]
  BY <1>t, <1>s, <1>1, <1>4, ClientMoved
<1>10. Account(c)'
  <2> DEFINE s == Cardinality(Serving(c))
             d == Cardinality(Sending(c))
             l == Len(cl[c].inbox)
             p == cl[c].printed
  <2>n. /\ s \in Nat /\ d \in Nat /\ p \in Nat /\ l \in Nat
        /\ Cardinality(Serving(c)') = s - 1 /\ Cardinality(Sending(c)') = d - 1
        /\ cl[c].acks \in Nat
    BY <1>i, <1>b
  <2>1. Prompt(c)'
    BY <1>4, <1>6, <1>9, <1>w DEF Account, Prompt
  <2> HIDE DEF s, d, p, l
  <2>2. Flow(c)'
    <3>1. SUFFICES ASSUME cl[c].at # "gone" PROVE Flow(c)'
      BY <1>4, <1>6 DEF Flow
    <3>2. ~cl[c].rst /\ cl[c].sent = p + 0 + l + s
      BY <1>9, <1>g, <1>w, <3>1 DEF Account, Flow, s, p, l
    <3>3. p + 0 + l + s = p + 1 + l + (s - 1)
      BY <2>n
    <3> QED BY <1>2, <1>4, <1>6, <2>n, <3>1, <3>2, <3>3 DEF Flow, p, l
  <2>3. Counted(c)'
    <3>1. cl[c].committed = p + cl[c].acks + 0 + d
      BY <1>9, <1>g, <1>s DEF Account, Counted, d, p
    <3>2. CASE cl[c].at = "gone"
      <4>1. p + cl[c].acks + 0 + d = p + cl[c].acks + 1 + (d - 1)
        BY <2>n
      <4> QED BY <1>4, <1>6, <2>n, <3>1, <3>2, <4>1 DEF Counted, p
    <3>3. CASE cl[c].at # "gone"
      <4>1. p + 0 + 0 + d = p + 1 + 0 + (d - 1)
        BY <2>n
      <4> QED BY <1>2, <1>4, <1>6, <1>s, <1>w, <2>n, <3>1, <3>3, <4>1 DEF Counted, p
    <3> QED BY <3>2, <3>3
  <2> QED BY <2>1, <2>2, <2>3 DEF Account
<1>11. ASSUME NEW d \in Clients PROVE Len(cl'[d].inbox) <= 1 /\ Account(d)'
  <2>1. CASE d = c
    BY <1>t, <1>4, <1>6, <1>10, <2>1
  <2>2. CASE d # c
    <3>1. /\ Cardinality(Serving(d)') = Cardinality(Serving(d)) - 0
          /\ Cardinality(Sending(d)') = Cardinality(Sending(d)) - 0
      BY <1>8, <2>2
    <3>2. /\ Cardinality(Serving(d)') = Cardinality(Serving(d))
          /\ Cardinality(Sending(d)') = Cardinality(Sending(d))
      BY <1>t, <3>1, FiniteServing
    <3>3. Account(d)'
      BY <1>6, <1>g, <2>2, <3>2, Untouched DEF SessionInv
    <3> QED BY <1>t, <1>6, <2>2, <3>3
  <2> QED BY <2>1, <2>2
<1> QED BY <1>t, <1>g, <1>1, <1>3, <1>5, <1>6, <1>11, AfterThread

\* The server ends.
LEMMA EndKeeps ==
    ASSUME SessionInv, UNCHANGED <<cl, accepted, th, ThreadNum, raced>>, up' = FALSE
    PROVE  SessionInv'
<1>1. TypeOK'
  BY DEF SessionInv, TypeOK
<1>2. \A c \in Clients : Account(c)'
  BY DEF SessionInv, Account, Prompt, Flow, Counted
<1>3. Registered' = Registered
  BY DEF Registered
<1> QED BY <1>1, <1>2, <1>3 DEF SessionInv, Sound

LEMMA SessionInit ==
    ASSUME Init
    PROVE  SessionInv
<1>1. /\ th = <<>> /\ accepted = <<>> /\ ThreadNum = 0 /\ up = TRUE /\ raced = FALSE
  BY DEF Init
<1>2. /\ DOMAIN <<>> = {} /\ Len(<<>>) = 0 /\ <<>> \in Seq(Clients)
      /\ <<>> \in Seq(ThreadType) /\ <<>> \in Seq(Queries)
  OBVIOUS
<1>3. \A c : Serving(c) = {} /\ Sending(c) = {}
  BY <1>1, <1>2 DEF Serving, Sending
<1>4. Registered = {}
  BY <1>1, <1>2 DEF Registered
<1> DEFINE z == 0
           e == <<>>
           r == [at |-> "out", inbox |-> e, acks |-> z, rst |-> FALSE,
                 sent |-> z, printed |-> z, committed |-> z]
<1>5. cl = [c \in Clients |-> r]
  BY DEF Init
<1>6. z \in 0 .. 1 /\ z \in 0 .. MaxQueries /\ z \in Nat /\ e \in Seq(Queries)
  BY <1>2, Widths
<1> HIDE DEF z, e
<1>7. /\ r \in ClientType /\ r.at = "out" /\ r.inbox = e /\ r.acks = z /\ r.rst = FALSE
      /\ r.sent = z /\ r.printed = z /\ r.committed = z
  BY <1>6 DEF ClientType
<1> HIDE DEF r
<1>8. cl \in [Clients -> ClientType] /\ \A c \in Clients : cl[c] = r
  BY <1>5, <1>7
<1>9. Len(e) = 0
  BY <1>2 DEF e
<1>10. TypeOK
  <2>1. \A c \in Clients : Len(cl[c].inbox) <= 1
    BY <1>7, <1>8, <1>9
  <2>2. ThreadNum \in 0 .. Len(th) /\ Len(th) = Len(accepted)
    BY <1>1, <1>2
  <2> QED BY <1>1, <1>2, <1>8, <2>1, <2>2 DEF TypeOK
<1>11. ASSUME NEW c \in Clients PROVE Account(c)
  <2>1. Cardinality(Serving(c)) = 0 /\ Cardinality(Sending(c)) = 0
    BY <1>3, FS_EmptySet
  <2>2. Prompt(c)
    BY <1>7, <1>8 DEF Prompt, z
  <2>3. Flow(c)
    BY <1>7, <1>8, <1>9, <2>1 DEF Flow, z
  <2>4. Counted(c)
    BY <1>7, <1>8, <2>1 DEF Counted, z
  <2> QED BY <2>2, <2>3, <2>4 DEF Account
<1>12. Cardinality(Registered) = ThreadNum
  BY <1>1, <1>4, FS_EmptySet
<1> QED BY <1>1, <1>2, <1>10, <1>11, <1>12 DEF SessionInv

LEMMA SessionStep ==
    ASSUME SessionInv, [Next]_vars
    PROVE  SessionInv'
<1>1. CASE UNCHANGED vars
  <2>1. UNCHANGED <<cl, accepted, th, ThreadNum, up, raced>>
    BY <1>1 DEF vars
  <2>2. TypeOK'
    BY <2>1 DEF SessionInv, TypeOK
  <2>3. ASSUME NEW c \in Clients PROVE Account(c)'
    BY <2>1, SameThreads, Untouched DEF SessionInv
  <2>4. Registered' = Registered
    BY <2>1 DEF Registered
  <2> QED BY <2>1, <2>2, <2>3, <2>4 DEF SessionInv, Sound
<1>2. ASSUME NEW n \in DOMAIN th, ThreadStep(n) PROVE SessionInv'
  <2>1. CASE Start(n)
    BY <2>1, StartKeeps
  <2>2. CASE Register(n)
    BY <2>2, RegisterKeeps
  <2>3. CASE Recv(n)
    BY <2>3, RecvKeeps
  <2>4. CASE RecvNothing(n)
    BY <2>4, RecvNothingKeeps
  <2>5. CASE RecvError(n)
    BY <2>5, RecvErrorKeeps
  <2>6. CASE SplitNext(n)
    BY <2>6, SplitNextKeeps
  <2>7. CASE SplitNoMemory(n)
    BY <2>7, EndKeeps DEF SplitNoMemory
  <2>8. CASE Run(n)
    BY <2>8, RunKeeps
  <2>9. CASE Send(n)
    BY <2>9, SendKeeps
  <2>10. CASE SendRaisesSigpipe(n)
    BY <2>10, EndKeeps DEF SendRaisesSigpipe
  <2> QED BY <1>2, <2>1, <2>2, <2>3, <2>4, <2>5, <2>6, <2>7, <2>8, <2>9, <2>10 DEF ThreadStep
<1>3. ASSUME NEW c \in Clients, Accept(c) \/ ClientStep(c) PROVE SessionInv'
  <2>1. CASE Accept(c)
    BY <2>1, AcceptKeeps
  <2>2. CASE Connect(c)
    BY <2>2, ConnectKeeps
  <2>3. CASE SendQuery(c)
    BY <2>3, SendQueryKeeps
  <2>4. CASE RecvAck(c)
    BY <2>4, RecvAckKeeps
  <2>5. CASE RecvEnd(c)
    BY <2>5, RecvEndKeeps
  <2>6. CASE SendQueryToNobody(c)
    BY <2>6, SendQueryToNobodyKeeps
  <2>7. CASE Exit(c)
    BY <2>7, ExitKeeps
  <2> QED BY <1>3, <2>1, <2>2, <2>3, <2>4, <2>5, <2>6, <2>7 DEF ClientStep
<1> QED BY <1>1, <1>2, <1>3 DEF Next

LEMMA SessionInvariant == Spec => []SessionInv
  BY SessionInit, SessionStep, PTL DEF Spec

\* Every variable keeps its type: a descriptor is one of a client or none, a
\* thread's buffer holds a query, split's indices stay in a uint (interactive.cc),
\* and there are no more numbers than threads.
THEOREM TypeCorrect == Spec => []TypeOK
<1>1. SessionInv => TypeOK
  BY DEF SessionInv
<1> QED BY <1>1, SessionInvariant, PTL

\* Whichever threads read which connections, the queries of a client that has
\* its prompt back have been run once each (doThreadInteractive, execTransaction).
THEOREM QueriesRunOnce == Spec => []RunOnce
<1>1. ASSUME SessionInv PROVE RunOnce
  <2>1. SUFFICES ASSUME up, NEW c \in Clients
                 PROVE  /\ cl[c].at = "idle" => /\ cl[c].committed = cl[c].sent
                                                /\ cl[c].printed = cl[c].sent
                        /\ cl[c].at = "waiting" =>
                              /\ cl[c].committed \in {cl[c].sent - 1, cl[c].sent}
                              /\ cl[c].printed = cl[c].sent - 1
    BY DEF RunOnce
  <2>2. Prompt(c) /\ Counted(c)
    BY <1>1 DEF SessionInv, Account
  <2> DEFINE d == Cardinality(Sending(c))
             s == Cardinality(Serving(c))
             l == Len(cl[c].inbox)
  <2>3. /\ d \in Nat /\ s \in Nat /\ d <= s /\ l \in Nat
        /\ cl[c].acks \in Nat /\ cl[c].printed \in Nat /\ cl[c].sent \in Nat
        /\ cl[c].committed \in Nat
    BY <1>1, ClientFields, FiniteServing DEF SessionInv
  <2>4. cl[c].at # "gone" => cl[c].committed = cl[c].printed + cl[c].acks + 0 + d
    BY <1>1, <2>1, <2>2, Open DEF Counted
  <2>5. /\ cl[c].at = "idle" => cl[c].sent = cl[c].printed /\ cl[c].acks = 0 /\ d = 0
        /\ cl[c].at = "waiting" => /\ cl[c].sent = cl[c].printed + 1
                                   /\ 1 = cl[c].acks + l + s
    BY <1>1, <2>1, <2>2, Open DEF Prompt
  <2> HIDE DEF d, s, l
  <2>6. CASE cl[c].at = "idle"
    BY <2>3, <2>4, <2>5, <2>6
  <2>7. CASE cl[c].at = "waiting"
    <3> DEFINE a == cl[c].acks
               p == cl[c].printed
    <3>1. /\ cl[c].committed = p + a + 0 + d /\ 1 = a + l + s /\ cl[c].sent = p + 1
          /\ a \in Nat /\ p \in Nat
      BY <2>3, <2>4, <2>5, <2>7
    <3> HIDE DEF a, p
    <3>2. a + 0 + d = 0 \/ a + 0 + d = 1
      BY <2>3, <3>1
    <3>3. cl[c].committed = p \/ cl[c].committed = p + 1
      BY <2>3, <3>1, <3>2
    <3>4. p = cl[c].sent - 1
      BY <3>1
    <3> QED BY <2>7, <3>1, <3>3, <3>4 DEF p
  <2> QED BY <2>6, <2>7
<1> QED BY <1>1, SessionInvariant, PTL

-----------------------------------------------------------------------------
(* The end of the server *)

\* SIGPIPE means that the client has left, and that one of its queries has been
\* run a second time.
LEMMA SigpipeOfOneGone ==
    ASSUME SessionInv, NEW n \in DOMAIN th, SendRaisesSigpipe(n)
    PROVE  \E c \in Clients : cl[c].at = "gone" /\ cl[c].committed > cl[c].sent
<1>g. up /\ th[n].pc = "send" /\ cl[th[n].sfd].rst
  BY DEF SendRaisesSigpipe
<1>1. PICK c \in Clients : th[n].sfd = c
  BY <1>g DEF SessionInv, Sound
<1>2. cl[c].at = "gone"
  BY <1>1, <1>g DEF SessionInv, Account, Flow
<1> DEFINE d == Cardinality(Sending(c))
<1>3. d # 0
  <2>1. n \in Sending(c)
    BY <1>1, <1>g DEF Sending, Sends
  <2> QED BY <2>1, FiniteServing, FS_EmptySet DEF SessionInv
<1>4. d \in Nat /\ cl[c].printed \in Nat /\ cl[c].sent \in Nat
  BY ClientFields, FiniteServing DEF SessionInv
<1>5. /\ cl[c].sent \in {cl[c].printed, cl[c].printed + 1} /\ cl[c].acks = 0
      /\ cl[c].committed = cl[c].printed + 0 + 1 + d
  BY <1>1, <1>2, <1>g DEF SessionInv, Account, Prompt, Counted
<1> HIDE DEF d
<1>6. cl[c].committed > cl[c].sent
  BY <1>3, <1>4, <1>5
<1> QED BY <1>2, <1>6

\* A client that has left takes no step.
LEMMA GoneIsGone ==
    ASSUME TypeOK, NEW c \in Clients, NEW d \in Clients, ClientStep(d), cl[c].at = "gone"
    PROVE  cl'[c] = cl[c] /\ th' = th /\ up' = up
<1>1. th' = th /\ up' = up
  BY DEF ClientStep, Connect, SendQuery, RecvAck, RecvEnd, SendQueryToNobody, Exit, server
<1>2. d # c
  BY DEF ClientStep, Connect, SendQuery, RecvAck, RecvEnd, SendQueryToNobody, Exit
<1>3. cl \in [Clients -> ClientType]
  BY DEF TypeOK
<1>4. cl'[c] = cl[c]
  <2> HIDE DEF ClientType
  <2>1. CASE Connect(d)
    BY <1>2, <1>3, <2>1 DEF Connect
  <2>2. CASE SendQuery(d)
    BY <1>2, <1>3, <2>2 DEF SendQuery
  <2>3. CASE RecvAck(d)
    BY <1>2, <1>3, <2>3 DEF RecvAck
  <2>4. CASE RecvEnd(d)
    BY <1>2, <1>3, <2>4 DEF RecvEnd
  <2>5. CASE SendQueryToNobody(d)
    BY <1>2, <1>3, <2>5 DEF SendQueryToNobody
  <2>6. CASE Exit(d)
    BY <1>2, <1>3, <2>6 DEF Exit
  <2> QED BY <2>1, <2>2, <2>3, <2>4, <2>5, <2>6 DEF ClientStep
<1> QED BY <1>1, <1>4

\* The server does not end while the clients stay and split comes to its end:
\* SIGPIPE needs one that has left and of which a query has been run twice.
THEOREM ServerEndsOnlyAfter == Spec => []EndsOnlyAfter
<1>1. Init => EndsOnlyAfter
  BY DEF Init, EndsOnlyAfter
<1>2. ASSUME SessionInv, EndsOnlyAfter, [Next]_vars PROVE EndsOnlyAfter'
  <2>1. CASE UNCHANGED vars
    BY <1>2, <2>1 DEF vars, EndsOnlyAfter
  <2>2. ASSUME NEW n \in DOMAIN th, ThreadStep(n) PROVE EndsOnlyAfter'
    <3>1. CASE SplitNoMemory(n)
      BY <3>1 DEF SplitNoMemory, EndsOnlyAfter
    <3>2. CASE SendRaisesSigpipe(n)
      <4>1. cl' = cl
        BY <3>2 DEF SendRaisesSigpipe
      <4> QED BY <1>2, <3>2, <4>1, SigpipeOfOneGone DEF EndsOnlyAfter
    <3>3. CASE ~ (SplitNoMemory(n) \/ SendRaisesSigpipe(n))
      <4>1. up /\ up' = up
        BY <2>2, <3>3 DEF ThreadStep, Start, Register, Recv, RecvNothing, RecvError,
                          SplitNext, Run, Send, Goto
      <4> QED BY <4>1 DEF EndsOnlyAfter
    <3> QED BY <3>1, <3>2, <3>3
  <2>3. ASSUME NEW c \in Clients, Accept(c) PROVE EndsOnlyAfter'
    BY <2>3 DEF Accept, EndsOnlyAfter
  <2>4. ASSUME NEW c \in Clients, ClientStep(c) PROVE EndsOnlyAfter'
    <3>1. th' = th /\ up' = up
      BY <2>4 DEF ClientStep, Connect, SendQuery, RecvAck, RecvEnd, SendQueryToNobody,
                  Exit, server
    <3>2. \A d \in Clients : cl[d].at = "gone" => cl'[d] = cl[d]
      BY <1>2, <2>4, GoneIsGone DEF SessionInv
    <3> QED BY <1>2, <3>1, <3>2 DEF EndsOnlyAfter
  <2> QED BY <1>2, <2>1, <2>2, <2>3, <2>4 DEF Next
<1> QED BY <1>1, <1>2, SessionInvariant, PTL DEF Spec

-----------------------------------------------------------------------------
(* The limit of threads *)

\* Until two threads have been between the test and the increment at once, a
\* thread that is between them has room.
Room ==
    ~raced => /\ ThreadNum <= MAX_TRANSACTION
              /\ \A n \in Registering : ThreadNum < MAX_TRANSACTION
              /\ \A m, n \in Registering : m = n

Numbered == {th[n].myid : n \in DOMAIN th} \ {None} = 0 .. ThreadNum - 1

LimitInv == Room /\ Numbered

\* Neither the numbers nor the threads between the test and the increment change.
LEMMA LimitUntouched ==
    ASSUME LimitInv, DOMAIN th' = DOMAIN th,
           \A n \in DOMAIN th : /\ th'[n].myid = th[n].myid
                                /\ th'[n].pc = "register" <=> th[n].pc = "register",
           ThreadNum' = ThreadNum, raced' = raced
    PROVE  LimitInv'
<1>1. Registering' = Registering
  BY DEF Registering
<1>2. {th'[n].myid : n \in DOMAIN th'} = {th[n].myid : n \in DOMAIN th}
  OBVIOUS
<1> QED BY <1>1, <1>2 DEF LimitInv, Room, Numbered

LEMMA OneThreadMoved ==
    ASSUME LimitInv, TypeOK, NEW n \in DOMAIN th, NEW r \in ThreadType,
           th' = [th EXCEPT ![n] = r], r.myid = th[n].myid,
           r.pc # "register", th[n].pc # "register",
           ThreadNum' = ThreadNum, raced' = raced
    PROVE  LimitInv'
<1>1. /\ DOMAIN th' = DOMAIN th /\ th'[n] = r
      /\ \A m \in DOMAIN th : m # n => th'[m] = th[m]
  BY ThreadMoved
<1> QED BY <1>1, LimitUntouched

LEMMA LimitStart ==
    ASSUME SessionInv, LimitInv, NEW n \in DOMAIN th, Start(n)
    PROVE  LimitInv'
<1>t. /\ TypeOK /\ th[n] \in ThreadType /\ ThreadNum \in Nat /\ MAX_TRANSACTION \in Nat
      /\ raced \in BOOLEAN
  BY ThreadFields, Widths DEF SessionInv, TypeOK
<1>1. PICK sfd \in Sfds(n) :
        th' = [th EXCEPT ![n].sfd = sfd,
                 ![n].pc = IF ThreadNum = MAX_TRANSACTION THEN "ended" ELSE "register"]
  BY DEF Start
<1>2. /\ ThreadNum' = ThreadNum
      /\ raced' = (raced \/ (ThreadNum # MAX_TRANSACTION /\ Registering # {}))
      /\ th[n].pc = "start"
  BY DEF Start
<1> DEFINE q == IF ThreadNum = MAX_TRANSACTION THEN "ended" ELSE "register"
<1>3. /\ DOMAIN th' = DOMAIN th
      /\ \A m \in DOMAIN th : th'[m].myid = th[m].myid
      /\ th'[n].pc = q
      /\ \A m \in DOMAIN th : m # n => th'[m] = th[m]
  <2>1. th \in Seq(ThreadType)
    BY <1>t DEF TypeOK
  <2>2. th[n] = [pc |-> th[n].pc, sfd |-> th[n].sfd, myid |-> th[n].myid, buf |-> th[n].buf,
                 first |-> th[n].first, last |-> th[n].last, ops |-> th[n].ops]
    BY <1>t DEF ThreadType
  <2> HIDE DEF ThreadType
  <2> QED BY <1>1, <2>1, <2>2
<1>4. Numbered'
  <2>1. {th'[m].myid : m \in DOMAIN th'} = {th[m].myid : m \in DOMAIN th}
    BY <1>3
  <2> QED BY <1>2, <2>1 DEF LimitInv, Numbered
<1>5. Room'
  <2>1. CASE ThreadNum = MAX_TRANSACTION
    <3>1. Registering' = Registering
      BY <1>2, <1>3, <2>1 DEF Registering
    <3> QED BY <1>2, <2>1, <3>1 DEF LimitInv, Room
  <2>2. CASE ThreadNum # MAX_TRANSACTION
    <3>1. Registering' = Registering \cup {n}
      BY <1>2, <1>3, <2>2 DEF Registering
    <3>2. SUFFICES ASSUME ~raced'
                   PROVE  /\ ThreadNum' <= MAX_TRANSACTION
                          /\ \A m \in Registering' : ThreadNum' < MAX_TRANSACTION
                          /\ \A m, k \in Registering' : m = k
      BY DEF Room
    <3>3. ~raced /\ Registering = {}
      BY <1>2, <2>2, <3>2
    <3>4. ThreadNum <= MAX_TRANSACTION
      BY <3>3 DEF LimitInv, Room
    <3>5. ThreadNum < MAX_TRANSACTION
      BY <1>t, <2>2, <3>4
    <3> QED BY <1>2, <3>1, <3>3, <3>4, <3>5
  <2> QED BY <2>1, <2>2
<1> QED BY <1>4, <1>5 DEF LimitInv

LEMMA LimitRegister ==
    ASSUME SessionInv, LimitInv, NEW n \in DOMAIN th, Register(n)
    PROVE  LimitInv'
<1>t. /\ TypeOK /\ th[n] \in ThreadType /\ ThreadNum \in Nat /\ MAX_TRANSACTION \in Nat
  BY ThreadFields, Widths DEF SessionInv, TypeOK
<1>1. /\ ThreadNum' = ThreadNum + 1 /\ raced' = raced /\ th[n].pc = "register"
      /\ th[n].myid = None
      /\ th' = [th EXCEPT ![n].myid = ThreadNum, ![n].pc = "recv"]
  BY DEF Register, SessionInv, Sound
<1>2. /\ DOMAIN th' = DOMAIN th /\ th'[n].pc = "recv" /\ th'[n].myid = ThreadNum
      /\ \A m \in DOMAIN th : m # n => th'[m] = th[m]
  <2>1. th \in Seq(ThreadType)
    BY <1>t DEF TypeOK
  <2>2. th[n] = [pc |-> th[n].pc, sfd |-> th[n].sfd, myid |-> th[n].myid, buf |-> th[n].buf,
                 first |-> th[n].first, last |-> th[n].last, ops |-> th[n].ops]
    BY <1>t DEF ThreadType
  <2> HIDE DEF ThreadType
  <2> QED BY <1>1, <2>1, <2>2
<1>3. Numbered'
  <2>1. {th'[m].myid : m \in DOMAIN th'} \ {None}
          = ({th[m].myid : m \in DOMAIN th} \ {None}) \cup {ThreadNum}
    <3>1. ThreadNum # None
      BY <1>t DEF None
    <3> HIDE DEF None
    <3> QED BY <1>1, <1>2, <3>1
  <2>2. (0 .. ThreadNum - 1) \cup {ThreadNum} = 0 .. ThreadNum + 1 - 1
    BY <1>t
  <2> QED BY <1>1, <2>1, <2>2 DEF LimitInv, Numbered
<1>4. Room'
  <2>1. Registering' = Registering \ {n} /\ n \in Registering
    BY <1>1, <1>2 DEF Registering
  <2> QED BY <1>1, <1>t, <2>1 DEF LimitInv, Room
<1> QED BY <1>3, <1>4 DEF LimitInv

LEMMA LimitThread ==
    ASSUME SessionInv, LimitInv, NEW n \in DOMAIN th,
           RecvError(n) \/ SplitNext(n) \/ Run(n) \/ Send(n)
    PROVE  LimitInv'
<1>t. TypeOK /\ th[n] \in ThreadType
  BY ThreadFields DEF SessionInv
<1>1. /\ ThreadNum' = ThreadNum /\ raced' = raced /\ th[n].pc # "register"
  BY DEF RecvError, SplitNext, Run, Send, Goto
<1>2. /\ DOMAIN th' = DOMAIN th
      /\ \A m \in DOMAIN th : /\ th'[m].myid = th[m].myid
                              /\ th'[m].pc = "register" <=> th[m].pc = "register"
  <2>1. th \in Seq(ThreadType)
    BY <1>t DEF TypeOK
  <2>2. th[n] = [pc |-> th[n].pc, sfd |-> th[n].sfd, myid |-> th[n].myid, buf |-> th[n].buf,
                 first |-> th[n].first, last |-> th[n].last, ops |-> th[n].ops]
    BY <1>t DEF ThreadType
  <2> HIDE DEF ThreadType
  <2>3. CASE RecvError(n)
    BY <1>1, <2>1, <2>2, <2>3 DEF RecvError, Goto
  <2>4. CASE SplitNext(n)
    BY <1>1, <2>1, <2>2, <2>4 DEF SplitNext
  <2>5. CASE Run(n)
    BY <1>1, <2>1, <2>2, <2>5 DEF Run, Goto
  <2>6. CASE Send(n)
    BY <1>1, <2>1, <2>2, <2>6 DEF Send, Goto
  <2> QED BY <2>3, <2>4, <2>5, <2>6
<1> QED BY <1>1, <1>2, LimitUntouched

LEMMA LimitRecv ==
    ASSUME SessionInv, LimitInv, NEW n \in DOMAIN th, Recv(n) \/ RecvNothing(n)
    PROVE  LimitInv'
<1>t. TypeOK
  BY DEF SessionInv
<1>1. /\ ThreadNum' = ThreadNum /\ raced' = raced /\ th[n].pc = "recv"
      /\ th[n].sfd \in Clients
  BY DEF Recv, RecvNothing
<1>2. \E buf \in Queries \cup {<<>>} : th' = Received(n, buf)
  <2>1. CASE Recv(n)
    <3>1. PICK c \in Clients : cl[c].inbox # <<>> /\ th' = Received(n, Head(cl[c].inbox))
      BY <2>1 DEF Recv
    <3>2. Head(cl[c].inbox) \in Queries
      BY <1>t, <3>1, ClientFields
    <3> QED BY <3>1, <3>2
  <2>2. CASE RecvNothing(n)
    <3>1. PICK buf \in IF th[n].buf = Uninit THEN Queries \cup {<<>>} ELSE {th[n].buf} :
            th' = Received(n, buf)
      BY <2>2 DEF RecvNothing
    <3>2. buf \in Queries \cup {<<>>}
      BY <1>t, <3>1, ThreadFields DEF Buffers
    <3> QED BY <3>1, <3>2
  <2> QED BY <2>1, <2>2
<1>3. PICK r \in ThreadType :
        th' = [th EXCEPT ![n] = r] /\ r.pc = "split" /\ r.myid = th[n].myid
  BY <1>1, <1>2, ReceivedLocals
<1> QED BY <1>t, <1>1, <1>3, OneThreadMoved

LEMMA LimitAccept ==
    ASSUME SessionInv, LimitInv, NEW c \in Clients, Accept(c)
    PROVE  LimitInv'
<1>1. /\ th' = Append(th, NewThread) /\ ThreadNum' = ThreadNum /\ raced' = raced
      /\ th \in Seq(ThreadType)
  BY DEF Accept, SessionInv, TypeOK
<1>2. NewThread \in ThreadType /\ NewThread.pc = "start" /\ NewThread.myid = None
  BY NewThreadType DEF NewThread
<1>3. \E n : /\ DOMAIN th' = DOMAIN th \cup {n} /\ n \notin DOMAIN th
             /\ th'[n] = NewThread /\ \A m \in DOMAIN th : th'[m] = th[m]
  <2> HIDE DEF ThreadType, NewThread
  <2>1. /\ DOMAIN th' = DOMAIN th \cup {Len(th) + 1} /\ Len(th) + 1 \notin DOMAIN th
        /\ th'[Len(th) + 1] = NewThread /\ \A m \in DOMAIN th : th'[m] = th[m]
    BY <1>1, <1>2
  <2> QED BY <2>1
<1>4. Registering' = Registering
  BY <1>2, <1>3 DEF Registering
<1>5. {th'[m].myid : m \in DOMAIN th'} \ {None} = {th[m].myid : m \in DOMAIN th} \ {None}
  <2> HIDE DEF None
  <2> QED BY <1>2, <1>3
<1> QED BY <1>1, <1>4, <1>5 DEF LimitInv, Room, Numbered

LEMMA LimitInvariant == Spec => [](SessionInv /\ LimitInv)
<1>1. Init => LimitInv
  <2>1. SUFFICES ASSUME Init PROVE LimitInv
    OBVIOUS
  <2>2. th = <<>> /\ ThreadNum = 0 /\ MAX_TRANSACTION \in Nat
    BY <2>1, Widths DEF Init
  <2>3. {th[n].myid : n \in DOMAIN th} = {} /\ Registering = {}
    BY <2>2 DEF Registering
  <2>4. 0 .. ThreadNum - 1 = {} /\ ThreadNum <= MAX_TRANSACTION
    BY <2>2
  <2> QED BY <2>3, <2>4 DEF LimitInv, Room, Numbered
<1>2. ASSUME SessionInv, LimitInv, [Next]_vars PROVE LimitInv'
  <2>1. CASE UNCHANGED <<th, ThreadNum, raced>>
    BY <1>2, <2>1, LimitUntouched
  <2>2. ASSUME NEW n \in DOMAIN th, ThreadStep(n) PROVE LimitInv'
    <3>1. CASE SplitNoMemory(n) \/ SendRaisesSigpipe(n)
      BY <2>1, <3>1 DEF SplitNoMemory, SendRaisesSigpipe
    <3>2. CASE Start(n)
      BY <1>2, <3>2, LimitStart
    <3>3. CASE Register(n)
      BY <1>2, <3>3, LimitRegister
    <3>4. CASE RecvError(n) \/ SplitNext(n) \/ Run(n) \/ Send(n)
      BY <1>2, <3>4, LimitThread
    <3>5. CASE Recv(n) \/ RecvNothing(n)
      BY <1>2, <3>5, LimitRecv
    <3> QED BY <2>2, <3>1, <3>2, <3>3, <3>4, <3>5 DEF ThreadStep
  <2>3. ASSUME NEW c \in Clients, Accept(c) PROVE LimitInv'
    BY <1>2, <2>3, LimitAccept
  <2>4. ASSUME NEW c \in Clients, ClientStep(c) PROVE LimitInv'
    BY <2>1, <2>4 DEF ClientStep, Connect, SendQuery, RecvAck, RecvEnd, SendQueryToNobody,
                      Exit, server
  <2>5. CASE UNCHANGED vars
    BY <2>1, <2>5 DEF vars
  <2> QED BY <1>2, <2>2, <2>3, <2>4, <2>5 DEF Next
<1> QED BY <1>1, <1>2, SessionInvariant, PTL DEF Spec

\* The numbers the threads take (interactive.cc:353-357) are those below
\* ThreadNum, one each, and the limit is passed only after a race for it.
THEOREM NumbersAndLimit == Spec => []ThreadLimit
<1>1. ASSUME SessionInv, LimitInv PROVE ThreadLimit
  <2>1. Cardinality({n \in DOMAIN th : th[n].myid # None}) = ThreadNum
    BY <1>1 DEF SessionInv, Registered
  <2>2. ThreadNum > MAX_TRANSACTION => raced
    <3>1. ThreadNum \in Nat /\ MAX_TRANSACTION \in Nat
      BY <1>1, Widths DEF SessionInv, TypeOK
    <3> QED BY <1>1, <3>1 DEF LimitInv, Room
  <2> QED BY <1>1, <2>1, <2>2 DEF ThreadLimit, LimitInv, Numbered
<1> QED BY <1>1, LimitInvariant, PTL

-----------------------------------------------------------------------------
(* The operations of a query *)

\* The delimiter, by name.
Delim == ","

\* Queries as the comment of the code gives them (interactive.cc:367):
\* operations with a delimiter between two of them, and perhaps behind the last.
Delimited ==
    \A q \in Queries :
        /\ q[1] = "op"
        /\ \A p \in 1 .. Len(q) - 1 : q[p] # q[p + 1]

\* size_t has more bits than uint, which keeps the low ones of npos: all ones.
NarrowUint == UintMax < SizeMax /\ Narrow(Npos) = UintMax

\* The operations among the first j elements of buf.
Ops(buf, j) == {p \in 1 .. j : buf[p] = "op"}

\* Where split stands in a buffer: behind a delimiter or at the start, with
\* last at the next delimiter; and it has counted the operations up to there
\* if the buffer ends in a delimiter.
Places(t) ==
    /\ t.first \in 0 .. Len(t.buf)
    /\ t.first > 0 => t.buf[t.first] = Delim
    /\ t.first < Len(t.buf) => t.last = Narrow(find_first_of(t.buf, t.first))
    /\ (t.buf = <<>> \/ t.buf[Len(t.buf)] = Delim) => t.ops = Cardinality(Ops(t.buf, t.first))
    /\ t.pc = "send" => t.first = Len(t.buf)

CountInv == \A n \in DOMAIN th : th[n].pc \in {"split", "send"} => Places(th[n])

LEMMA QueryElements ==
    ASSUME Delimited, NEW q \in Queries
    PROVE  /\ Len(q) \in Nat /\ Len(q) > 0 /\ Len(q) < UintMax /\ q # <<>>
           /\ \A p \in 1 .. Len(q) : q[p] \in {"op", Delim}
           /\ q[1] = "op"
           /\ \A p \in 1 .. Len(q) - 1 : q[p] # q[p + 1]
<1>1. q \in Seq({"op", Delim}) /\ q # <<>>
  BY SessionsAssumption, Zenon DEF Delim
<1>2. Len(q) \in Nat /\ Len(q) > 0 /\ \A p \in 1 .. Len(q) : q[p] \in {"op", Delim}
  <2>1. PICK S : S = {"op", Delim}
    OBVIOUS
  <2>2. q \in Seq(S)
    BY <1>1, <2>1
  <2>3. Len(q) \in Nat /\ Len(q) > 0 /\ \A p \in 1 .. Len(q) : q[p] \in S
    BY <1>1, <2>2
  <2> QED BY <2>1, <2>3
<1>3. Len(q) < UintMax
  BY Widths
<1> QED BY <1>1, <1>2, <1>3 DEF Delimited

\* The next delimiter is behind the next operation, or there is none.
LEMMA NextDelimiter ==
    ASSUME Delimited, NEW q \in Queries, NEW f \in 0 .. Len(q) - 1, f > 0 => q[f] = Delim
    PROVE  /\ q[f + 1] = "op"
           /\ f + 1 < Len(q) => q[f + 2] = Delim /\ find_first_of(q, f) = f + 1
           /\ f + 1 = Len(q) => find_first_of(q, f) = Npos
<1>n. PICK n \in Nat : n = Len(q) /\ n > 0
  BY QueryElements
<1>o. Delim # "op"
  BY Zenon DEF Delim
<1>1. /\ Len(q) \in Nat /\ f \in Nat /\ f + 1 \in 1 .. Len(q) /\ f < n
      /\ \A p \in 1 .. Len(q) : q[p] \in {"op", Delim}
      /\ q[1] = "op" /\ \A p \in 1 .. Len(q) - 1 : q[p] # q[p + 1]
  <2>1. f \in Nat /\ f < n
    BY <1>n
  <2> QED BY <1>n, <2>1, QueryElements
<1>2. q[f + 1] = "op"
  <2>1. CASE f = 0
    BY <1>1, <2>1
  <2>2. CASE f > 0
    <3>1. f \in 1 .. Len(q) - 1
      BY <1>1, <1>n, <2>2
    <3> QED BY <1>1, <1>o, <2>2, <3>1
  <2> QED BY <1>1, <2>1, <2>2
<1> DEFINE found == {p \in f .. Len(q) - 1 : q[p + 1] = Delim}
<1>3. find_first_of(q, f) = IF found = {} THEN Npos ELSE Min(found)
  BY Zenon DEF find_first_of, Delim
<1>4. ASSUME f + 1 < Len(q)
      PROVE  q[f + 2] = Delim /\ Min(found) = f + 1 /\ found # {}
  <2>1. f + 1 \in 1 .. Len(q) - 1 /\ f + 2 \in 1 .. Len(q) /\ (f + 1) + 1 = f + 2
    BY <1>1, <1>4
  <2>2. q[f + 2] = Delim
    BY <1>1, <1>2, <2>1
  <2>3. f + 1 \in found
    BY <1>1, <1>4, <2>1, <2>2
  <2>4. \A p \in found : p \in Nat /\ f + 1 <= p
    <3>1. ASSUME NEW p \in found PROVE p \in f .. Len(q) - 1 /\ p # f
      BY <1>2, <1>o
    <3> HIDE DEF found
    <3> QED BY <1>1, <3>1
  <2> HIDE DEF found
  <2>5. \A p \in found : (\A y \in found : p <= y) => p = f + 1
    BY <1>1, <2>3, <2>4
  <2>6. Min(found) = f + 1
    BY <1>1, <2>3, <2>4, <2>5 DEF Min
  <2> QED BY <2>2, <2>3, <2>6
<1>5. ASSUME f + 1 = Len(q) PROVE found = {}
  <2>1. ASSUME NEW p \in found PROVE FALSE
    <3>1. p \in f .. Len(q) - 1 /\ q[p + 1] = Delim
      OBVIOUS
    <3>2. p = f
      BY <1>1, <1>5, <3>1
    <3> QED BY <1>2, <1>o, <3>1, <3>2
  <2> QED BY <2>1
<1> HIDE DEF found
<1> QED BY <1>2, <1>3, <1>4, <1>5

\* What fits in a uint is kept; one more than its largest value is 0.
LEMMA NarrowSmall ==
    /\ \A x \in 0 .. UintMax : Narrow(x) = x
    /\ Narrow(UintMax + 1) = 0
<1>1. UintMax + 1 \in Nat \ {0} /\ UintMax \in Nat
  BY Widths
<1>2. PICK w \in Nat : w = UintMax + 1 /\ w > 0
  BY <1>1
<1>3. \A x \in 0 .. w - 1 : x % w = x
  BY <1>2
<1>4. w % w = 0
  BY <1>2
<1> QED BY <1>1, <1>2, <1>3, <1>4 DEF Narrow

LEMMA NoOps ==
    ASSUME NEW buf
    PROVE  Cardinality(Ops(buf, 0)) = 0
<1>1. Ops(buf, 0) = {}
  BY DEF Ops
<1> QED BY <1>1, FS_EmptySet

\* One operation more.
LEMMA OpsNext ==
    ASSUME NEW buf, NEW f \in Nat, buf[f + 1] = "op", buf[f + 2] # "op"
    PROVE  Cardinality(Ops(buf, f + 2)) = Cardinality(Ops(buf, f)) + 1
<1>1. IsFiniteSet(1 .. f)
  BY FS_Interval
<1>2. Ops(buf, f) \subseteq 1 .. f
  BY DEF Ops
<1>3. IsFiniteSet(Ops(buf, f))
  BY <1>1, <1>2, FS_Subset
<1>4. Ops(buf, f + 2) = Ops(buf, f) \cup {f + 1} /\ f + 1 \notin Ops(buf, f)
  BY DEF Ops
<1> QED BY <1>3, <1>4, FS_AddElement

\* A round of the loop of split.
LEMMA SplitPlaces ==
    ASSUME Delimited, NarrowUint, NEW t, t.pc = "split", t.buf \in Queries \cup {<<>>},
           Places(t), t.first < Len(t.buf), t.last \in Nat, NEW r, r.pc = "split", r.buf = t.buf,
           r.first = Narrow(t.last + 1), r.last = Last(t.buf, r.first), r.ops = t.ops + 1
    PROVE  Places(r)
<1>1. t.first \in 0 .. Len(t.buf) /\ Len(<<>>) = 0
  BY DEF Places
<1>q. PICK q \in Queries : q = t.buf
  BY <1>1
<1>l. PICK len \in Nat : len = Len(q) /\ len > 0 /\ len < UintMax /\ q # <<>>
  BY <1>q, QueryElements
<1>f. PICK f \in Nat : f = t.first /\ f < len
  BY <1>1, <1>q, <1>l
<1>2. f > 0 => q[f] = Delim
  BY <1>q, <1>f, Zenon DEF Places, Delim
<1>3. t.last = Narrow(find_first_of(q, f))
  BY <1>q, <1>f, <1>l DEF Places
<1>4. /\ q[f + 1] = "op"
      /\ f + 1 < Len(q) => q[f + 2] = Delim /\ find_first_of(q, f) = f + 1
      /\ f + 1 = Len(q) => find_first_of(q, f) = Npos
  <2>1. f \in 0 .. Len(q) - 1
    BY <1>l, <1>f
  <2> QED BY <1>2, <2>1, NextDelimiter
<1>u. PICK u \in Nat : u = UintMax
  BY Widths
<1>5. \A b, g : Last(b, g) = Narrow(find_first_of(b, g)) \/ g \notin Nat \/ b \notin Queries
  <2>1. ASSUME NEW b \in Queries, NEW g \in Nat PROVE Narrow(find_first_of(b, g)) # Npos
    <3>1. Narrow(find_first_of(b, g)) \in 0 .. u
      BY <1>u, LastType
    <3>2. Npos > u /\ Npos \in Nat
      BY <1>u, Widths DEF NarrowUint, Npos
    <3> QED BY <3>1, <3>2
  <2> QED BY <2>1 DEF Last
<1>o. Delim # "op" /\ Delim = ","
  BY Zenon DEF Delim
<1>6. CASE f + 1 < len
  <2>1. find_first_of(q, f) = f + 1 /\ q[f + 2] = Delim
    BY <1>4, <1>6, <1>l
  <2>2. f + 1 \in 0 .. UintMax /\ f + 2 \in 0 .. UintMax
    BY <1>6, <1>l, <1>u
  <2>3. t.last = f + 1
    BY <1>3, <2>1, <2>2, NarrowSmall
  <2>4. t.last + 1 = f + 2
    BY <2>3
  <2>5. r.first = f + 2
    BY <2>2, <2>4, NarrowSmall
  <2>6. r.first \in 0 .. len /\ r.first \in Nat /\ q[r.first] = Delim
    BY <1>6, <2>1, <2>5
  <2>7. r.last = Narrow(find_first_of(q, r.first))
    BY <1>5, <1>q, <2>6
  <2>8. q[len] = Delim => r.ops = Cardinality(Ops(q, r.first))
    <3>1. SUFFICES ASSUME q[len] = Delim PROVE r.ops = Cardinality(Ops(q, r.first))
      OBVIOUS
    <3>2. t.ops = Cardinality(Ops(q, f))
      BY <1>f, <1>l, <1>q, <3>1, Zenon DEF Places, Delim
    <3>3. Cardinality(Ops(q, f + 2)) = Cardinality(Ops(q, f)) + 1
      BY <1>4, <1>o, <2>1, OpsNext
    <3> QED BY <2>5, <3>2, <3>3
  <2>9. /\ r.first \in 0 .. Len(r.buf) /\ (r.first > 0 => r.buf[r.first] = Delim)
        /\ (r.first < Len(r.buf) => r.last = Narrow(find_first_of(r.buf, r.first)))
        /\ (r.buf = <<>> \/ r.buf[Len(r.buf)] = Delim => r.ops = Cardinality(Ops(r.buf, r.first)))
    BY <1>q, <1>l, <2>6, <2>7, <2>8
  <2> QED BY <2>9, Zenon DEF Places, Delim
<1>7. CASE f + 1 = len
  <2>1. t.last = UintMax
    BY <1>3, <1>4, <1>7, <1>l DEF NarrowUint
  <2>2. r.first = 0
    BY <2>1, NarrowSmall
  <2>3. r.last = Narrow(find_first_of(q, r.first))
    BY <1>5, <1>q, <2>2
  <2>4. q[len] = "op"
    BY <1>4, <1>7
  <2>5. r.buf # <<>> /\ r.buf[Len(r.buf)] # Delim /\ r.first \in 0 .. Len(r.buf) /\ ~(r.first > 0)
        /\ r.last = Narrow(find_first_of(r.buf, r.first))
    <3>1. r.buf = q /\ Len(q) = len /\ len \in Nat /\ q # <<>>
      BY <1>q, <1>l
    <3>2. r.first \in 0 .. Len(r.buf) /\ ~(r.first > 0)
      BY <3>1, <2>2
    <3> QED BY <1>o, <2>3, <2>4, <3>1, <3>2, Zenon
  <2> QED BY <2>5, Zenon DEF Places, Delim
<1> QED BY <1>6, <1>7, <1>f, <1>l

\* After a recv.
LEMMA ReceivedPlaces ==
    ASSUME NEW r, r.pc = "split", r.buf \in Queries \cup {<<>>}, r.first = 0, r.ops = 0,
           r.last = Narrow(find_first_of(r.buf, 0))
    PROVE  Places(r)
<1>1. Len(r.buf) \in Nat
  BY BufferLength, Widths
<1>2. Cardinality(Ops(r.buf, r.first)) = 0
  BY NoOps
<1>3. r.first \in 0 .. Len(r.buf) /\ ~(r.first > 0)
  BY <1>1
<1> QED BY <1>2, <1>3, Zenon DEF Places

\* When a round is over.
LEMMA RunPlaces ==
    ASSUME NEW t, t.pc = "split", t.first >= Len(t.buf), t.buf \in Queries \cup {<<>>},
           Places(t), NEW r, r.pc = "send", r.buf = t.buf, r.first = t.first,
           r.last = t.last, r.ops = t.ops
    PROVE  Places(r)
<1>1. Len(t.buf) \in Nat /\ t.first \in 0 .. Len(t.buf)
  BY BufferLength, Widths DEF Places
<1>2. t.first = Len(t.buf)
  BY <1>1
<1> QED BY <1>2, Zenon DEF Places

\* What recv leaves in a thread.
LEMMA ReceivedFields ==
    ASSUME TypeOK, NEW n \in DOMAIN th, NEW buf, th' = Received(n, buf)
    PROVE  /\ th'[n].pc = "split" /\ th'[n].buf = buf /\ th'[n].ops = 0 /\ th'[n].first = 0
           /\ th'[n].last = Narrow(find_first_of(buf, 0))
           /\ DOMAIN th' = DOMAIN th /\ \A m \in DOMAIN th : m # n => th'[m] = th[m]
<1>1. th \in Seq(ThreadType)
  BY DEF TypeOK
<1>2. th[n] = [pc |-> th[n].pc, sfd |-> th[n].sfd, myid |-> th[n].myid, buf |-> th[n].buf,
               first |-> th[n].first, last |-> th[n].last, ops |-> th[n].ops]
  <2>1. th[n] \in ThreadType
    BY <1>1
  <2> QED BY <2>1 DEF ThreadType
<1>3. PICK l : l = Narrow(find_first_of(buf, 0))
  OBVIOUS
<1>4. th' = [th EXCEPT ![n].pc = "split", ![n].buf = buf, ![n].ops = 0,
                       ![n].first = 0, ![n].last = l]
  BY <1>3 DEF Received
<1> HIDE DEF ThreadType
<1>5. /\ th'[n].pc = "split" /\ th'[n].buf = buf /\ th'[n].ops = 0 /\ th'[n].first = 0
      /\ th'[n].last = l
  BY <1>1, <1>2, <1>4
<1>6. DOMAIN th' = DOMAIN th /\ \A m \in DOMAIN th : m # n => th'[m] = th[m]
  BY <1>1, <1>4
<1> QED BY <1>3, <1>5, <1>6

LEMMA CountReceived ==
    ASSUME TypeOK, CountInv, NEW n \in DOMAIN th, NEW buf \in Queries \cup {<<>>},
           th' = Received(n, buf)
    PROVE  CountInv'
<1>1. /\ th'[n].pc = "split" /\ th'[n].buf = buf /\ th'[n].ops = 0 /\ th'[n].first = 0
      /\ th'[n].last = Narrow(find_first_of(buf, 0))
      /\ DOMAIN th' = DOMAIN th /\ \A m \in DOMAIN th : m # n => th'[m] = th[m]
  BY ReceivedFields
<1>2. Places(th'[n])
  BY <1>1, ReceivedPlaces
<1> QED BY <1>1, <1>2 DEF CountInv

\* A step that is none of recv's and split's.
LEMMA CountUntouched ==
    ASSUME CountInv,
           \A n \in DOMAIN th' : th'[n].pc \in {"split", "send"} => n \in DOMAIN th /\ th'[n] = th[n]
    PROVE  CountInv'
  BY DEF CountInv

\* A thread goes on.
LEMMA CountMoved ==
    ASSUME TypeOK, CountInv, NEW n \in DOMAIN th, NEW r, th' = [th EXCEPT ![n] = r],
           r.pc \in {"split", "send"} => Places(r)
    PROVE  CountInv'
<1>1. DOMAIN th' = DOMAIN th /\ th'[n] = r /\ \A m \in DOMAIN th : m # n => th'[m] = th[m]
  BY DEF TypeOK
<1> QED BY <1>1 DEF CountInv

LEMMA CountThread ==
    ASSUME Delimited, NarrowUint, SessionInv, CountInv, NEW n \in DOMAIN th, ThreadStep(n)
    PROVE  CountInv'
<1>t. /\ TypeOK /\ th[n] \in ThreadType /\ Sound(th[n]) /\ th[n].last \in Nat
      /\ th[n].pc \in {"split", "send"} => Places(th[n])
  <2>1. th[n].last \in 0 .. UintMax /\ TypeOK /\ th[n] \in ThreadType /\ Sound(th[n])
    BY ThreadFields DEF SessionInv
  <2> QED BY <2>1, Widths DEF CountInv
<1>f. th[n] = [pc |-> th[n].pc, sfd |-> th[n].sfd, myid |-> th[n].myid, buf |-> th[n].buf,
               first |-> th[n].first, last |-> th[n].last, ops |-> th[n].ops]
  BY <1>t DEF ThreadType
<1>s. th \in Seq(ThreadType)
  BY <1>t DEF TypeOK
<1> HIDE DEF ThreadType
<1>1. CASE SplitNoMemory(n) \/ SendRaisesSigpipe(n)
  BY <1>1, CountUntouched DEF SplitNoMemory, SendRaisesSigpipe
<1>2. CASE Start(n) \/ Register(n) \/ RecvError(n) \/ Send(n)
  <2>1. \E r : th' = [th EXCEPT ![n] = r] /\ r.pc \notin {"split", "send"}
    <3>1. CASE Start(n)
      <4>1. PICK sfd : th' = [th EXCEPT ![n].sfd = sfd,
                    ![n].pc = IF ThreadNum = MAX_TRANSACTION THEN "ended" ELSE "register"]
        BY <3>1 DEF Start
      <4>2. PICK r : r = [th[n] EXCEPT !.sfd = sfd,
                    !.pc = IF ThreadNum = MAX_TRANSACTION THEN "ended" ELSE "register"]
        OBVIOUS
      <4>3. th' = [th EXCEPT ![n] = r]
        BY <1>s, <4>1, <4>2
      <4>4. r.pc \notin {"split", "send"}
        BY <1>f, <4>2
      <4> QED BY <4>3, <4>4
    <3>2. CASE Register(n)
      <4>1. PICK r : r = [th[n] EXCEPT !.myid = ThreadNum, !.pc = "recv"]
        OBVIOUS
      <4>2. th' = [th EXCEPT ![n] = r]
        BY <1>s, <3>2, <4>1 DEF Register
      <4>3. r.pc \notin {"split", "send"}
        BY <1>f, <4>1
      <4> QED BY <4>2, <4>3
    <3>3. CASE RecvError(n) \/ Send(n)
      <4>1. \E to \in {"ended", "recv"} : th' = [th EXCEPT ![n].pc = to]
        BY <3>3 DEF RecvError, Send, Goto
      <4>2. PICK to \in {"ended", "recv"} : th' = [th EXCEPT ![n].pc = to]
        BY <4>1
      <4>3. PICK r : r = [th[n] EXCEPT !.pc = to]
        OBVIOUS
      <4>4. th' = [th EXCEPT ![n] = r]
        BY <1>s, <4>2, <4>3
      <4>5. r.pc \notin {"split", "send"}
        BY <1>f, <4>3
      <4> QED BY <4>4, <4>5
    <3> QED BY <1>2, <3>1, <3>2, <3>3
  <2> QED BY <1>t, <2>1, CountMoved
<1>3. CASE Recv(n) \/ RecvNothing(n)
  <2>1. PICK buf \in Queries \cup {<<>>} : th' = Received(n, buf)
    <3>1. CASE Recv(n)
      <4>1. PICK c \in Clients : cl[c].inbox # <<>> /\ th' = Received(n, Head(cl[c].inbox))
        BY <3>1 DEF Recv
      <4>2. Head(cl[c].inbox) \in Queries
        BY <1>t, <4>1, ClientFields
      <4> QED BY <4>1, <4>2
    <3>2. CASE RecvNothing(n)
      <4>1. PICK buf \in IF th[n].buf = Uninit THEN Queries \cup {<<>>} ELSE {th[n].buf} :
              th' = Received(n, buf)
        BY <3>2 DEF RecvNothing
      <4>2. buf \in Queries \cup {<<>>}
        BY <1>t, <4>1, ThreadFields DEF Buffers
      <4> QED BY <4>1, <4>2
    <3> QED BY <1>3, <3>1, <3>2
  <2> QED BY <1>t, <2>1, CountReceived
<1>4. CASE SplitNext(n)
  <2>1. PICK f : f = Narrow(th[n].last + 1)
    OBVIOUS
  <2>2. PICK l : l = Last(th[n].buf, f)
    OBVIOUS
  <2>3. PICK r : r = [th[n] EXCEPT !.ops = th[n].ops + 1, !.first = f, !.last = l]
    OBVIOUS
  <2>4. th' = [th EXCEPT ![n] = r] /\ th[n].pc = "split" /\ th[n].first < Len(th[n].buf)
    BY <1>s, <1>4, <2>1, <2>2, <2>3 DEF SplitNext
  <2>5. r.pc = th[n].pc /\ r.buf = th[n].buf /\ r.first = f /\ r.last = l /\ r.ops = th[n].ops + 1
    BY <1>f, <2>3
  <2>6. Places(r)
    <3>1. th[n].buf \in Queries \cup {<<>>}
      BY <1>t, <2>4 DEF Sound
    <3> QED BY <1>t, <2>1, <2>2, <2>4, <2>5, <3>1, SplitPlaces
  <2> QED BY <1>t, <2>4, <2>6, CountMoved
<1>5. CASE Run(n)
  <2>1. PICK r : r = [th[n] EXCEPT !.pc = "send"]
    OBVIOUS
  <2>2. th' = [th EXCEPT ![n] = r] /\ th[n].pc = "split" /\ th[n].first >= Len(th[n].buf)
    BY <1>s, <1>5, <2>1 DEF Run, Goto
  <2>3. /\ r.pc = "send" /\ r.buf = th[n].buf /\ r.first = th[n].first /\ r.last = th[n].last
        /\ r.ops = th[n].ops
    BY <1>f, <2>1
  <2>4. Places(r)
    <3>1. th[n].buf \in Queries \cup {<<>>}
      BY <1>t, <2>2 DEF Sound
    <3> QED BY <1>t, <2>2, <2>3, <3>1, RunPlaces
  <2> QED BY <1>t, <2>2, <2>4, CountMoved
<1> QED BY <1>1, <1>2, <1>3, <1>4, <1>5 DEF ThreadStep

\* split counts each operation of a query once before the transaction runs
\* (interactive.cc:322-343, 368-378), whatever the queries, if they are
\* operations with a delimiter between two of them and uint is narrower than
\* size_t, so that the npos in last is never taken for npos.
THEOREM EachOperationOnce ==
    ASSUME Delimited, NarrowUint
    PROVE  Spec => []OneOperationEach
<1>1. Init => CountInv
  BY DEF Init, CountInv
<1>2. ASSUME SessionInv, CountInv, [Next]_vars PROVE CountInv'
  <2>1. CASE UNCHANGED th
    BY <1>2, <2>1, CountUntouched
  <2>2. ASSUME NEW n \in DOMAIN th, ThreadStep(n) PROVE CountInv'
    BY <1>2, <2>2, CountThread
  <2>3. ASSUME NEW c \in Clients, Accept(c) PROVE CountInv'
    <3>1. th' = Append(th, NewThread) /\ th \in Seq(ThreadType) /\ NewThread.pc = "start"
      BY <1>2, <2>3 DEF Accept, SessionInv, TypeOK, NewThread
    <3>2. ASSUME NEW m \in DOMAIN th', th'[m].pc \in {"split", "send"}
          PROVE  m \in DOMAIN th /\ th'[m] = th[m]
      <4> HIDE DEF ThreadType, NewThread
      <4>1. m \in DOMAIN th \/ th'[m] = NewThread
        BY <3>1
      <4>2. m \in DOMAIN th => th'[m] = th[m]
        BY <3>1
      <4> QED BY <3>1, <3>2, <4>1, <4>2
    <3> QED BY <1>2, <3>2, CountUntouched
  <2>4. ASSUME NEW c \in Clients, ClientStep(c) PROVE CountInv'
    BY <2>1, <2>4 DEF ClientStep, Connect, SendQuery, RecvAck, RecvEnd, SendQueryToNobody,
                      Exit, server
  <2>5. CASE UNCHANGED vars
    BY <2>1, <2>5 DEF vars
  <2> QED BY <1>2, <2>2, <2>3, <2>4, <2>5 DEF Next
<1>3. ASSUME SessionInv, CountInv PROVE OneOperationEach
  <2>1. ASSUME NEW n \in DOMAIN th, th[n].pc = "send"
        PROVE  th[n].ops = Cardinality({p \in DOMAIN th[n].buf : th[n].buf[p] = "op"})
    <3>1. PICK b \in Queries \cup {<<>>} : b = th[n].buf
      BY <1>3, <2>1 DEF SessionInv, Sound
    <3>2. Places(th[n])
      BY <1>3, <2>1 DEF CountInv
    <3>3. b = <<>> \/ b[Len(b)] = Delim
      <4>1. SUFFICES ASSUME b # <<>> PROVE b[Len(b)] = Delim
        OBVIOUS
      <4>2. b \in Queries
        BY <3>1, <4>1
      <4>3. Len(b) > 0
        BY <4>2, QueryElements
      <4> QED BY <2>1, <3>1, <3>2, <4>3, Zenon DEF Places, Delim
    <3>4. th[n].ops = Cardinality(Ops(b, Len(b)))
      BY <2>1, <3>1, <3>2, <3>3, Zenon DEF Places, Delim
    <3>5. DOMAIN b = 1 .. Len(b)
      <4>1. CASE b = <<>>
        BY <4>1
      <4>2. CASE b \in Queries
        <5>1. PICK S : b \in Seq(S)
          BY <4>2, QueriesAreSequences
        <5> QED BY <5>1
      <4> QED BY <3>1, <4>1, <4>2
    <3> QED BY <3>1, <3>4, <3>5, Zenon DEF Ops
  <2> QED BY <2>1 DEF OneOperationEach
<1> QED BY <1>1, <1>2, <1>3, SessionInvariant, PTL DEF Spec
=============================================================================
