----------------------------- MODULE HttpProofs -----------------------------
(***************************************************************************)
(* The connection pool for any number of sockets, servers, descriptors and *)
(* connections, whichever calls fail and whichever pages close: the        *)
(* counters are exact, the queues are sound, servers outlive their users   *)
(* and no slot stays unused, in the middle of nested queue runs too.       *)
(*                                                                         *)
(* A handler that calls another is a frame below another one.  The frames  *)
(* that are interrupted are queue runs, resolver runs and closes (Low);    *)
(* all others are at the top, so what they need can be said of the head    *)
(* of the stack.                                                           *)
(*                                                                         *)
(* The last part is about descriptors.  It excludes writes that fail: then *)
(* the descriptor is closed twice, and the number may belong to another    *)
(* socket the second time (MCHttpFd.cfg).                                  *)
(***************************************************************************)
EXTENDS Http, TLAPS, SequenceTheorems, FiniteSetTheorems, WellFoundedInduction

Frame == [fn : {"queue"}, srv : Servers, i : Nat \ {0}]
         \cup [fn : {"connect", "tls", "free"}, s : Socks]
         \cup [fn : {"dns"}, s : Socks, success : BOOLEAN]
         \cup [fn : {"done"}, fd : Fds \cup {NoFd}, success : BOOLEAN]
         \cup [fn : {"close"}, fd : Fds \cup {NoFd}]
         \cup [fn : {"answer"}, srv : Servers, success : BOOLEAN]

LowFrame == {f \in Frame : f.fn \in {"queue", "close", "answer"}}

Frames == stack \in Seq(Frame) /\ (stack # <<>> => Tail(stack) \in Seq(LowFrame))

(* The queue runs of a server in a stack.                                  *)
Runs(st, v) == {p \in 1 .. Len(st) : st[p].fn = "queue" /\ st[p].srv = v}

(* running_the_queue counts the runs, and active_conns the connections;    *)
(* both keep the server.                                                   *)
CountedAt(v) ==
  /\ server[v].running = Cardinality(Runs(stack, v))
  /\ server[v].running # 0 => server[v].live
  /\ server[v].active_conns = Cardinality(Connections(v))
  /\ server[v].active_conns <= MaxConns
  /\ Connections(v) # {} => server[v].live

Counted == \A v \in Servers : CountedAt(v)

Queued(s) == "QUEUED" \in sd[s].flags

(* The queues and the flags of the sockets agree.                          *)
QueuesAgree ==
  /\ \A v \in Servers : \A i, j \in 1 .. Len(server[v].queue) :
       server[v].queue[i] = server[v].queue[j] => i = j
  /\ \A v, w \in Servers : \A i \in 1 .. Len(server[v].queue), j \in 1 .. Len(server[w].queue) :
       server[v].queue[i] = server[w].queue[j] => v = w
  /\ \A v \in Servers : \A i \in 1 .. Len(server[v].queue) : Queued(server[v].queue[i])
  /\ \A s \in Socks : Queued(s) =>
       /\ \E v \in Servers : \E i \in 1 .. Len(server[v].queue) : server[v].queue[i] = s
       /\ s \notin freed /\ sd[s].connected_to = NoServer
       /\ s \in ValidSocks <=> "TO_BE_FREED" \notin sd[s].flags

(* A socket that streams, or that fd_map names, is connected; one that     *)
(* waits for connect() too, and has an address left to try.                *)
SocketsAgree ==
  /\ \A s \in ValidSocks : s \notin freed /\ "TO_BE_FREED" \notin sd[s].flags
  /\ \A s \in Socks : "IOWATCH_ACTIVE" \in sd[s].flags =>
                        sd[s].connected_to # NoServer /\ sd[s].idx < NumAddrs
  /\ \A s \in ValidSocks : ioFD[s] # NoFd => sd[s].connected_to # NoServer
  /\ \A e \in fd_map : e.skey \in ValidSocks => sd[e.skey].connected_to # NoServer

(* A socket that waits for the resolver is not in use.                     *)
Asking(s) == /\ chain[s] # "none" /\ sd[s].srv \in Servers
             /\ ~Queued(s) /\ sd[s].connected_to = NoServer

WaitersAgree ==
  /\ \A i \in 1 .. Len(waitDns) : Asking(waitDns[i])
  /\ \A i, j \in 1 .. Len(waitDns) : waitDns[i] = waitDns[j] => i = j

(* A key that was not used is nowhere.                                     *)
Unused ==
  \A s \in Socks :
    chain[s] = "none" => /\ sd[s] = NewSocket /\ s \notin ValidSocks /\ s \notin freed
                         /\ ioFD[s] = NoFd /\ \A e \in fd_map : e.skey # s

(* What the handler at the top of the stack relies on.                     *)
Ready ==
  stack # <<>> =>
    LET f == Head(stack) IN
    /\ f.fn = "connect" => /\ sd[f.s].connected_to # NoServer
                           /\ "IOWATCH_ACTIVE" \notin sd[f.s].flags
    /\ f.fn = "tls" => sd[f.s].SockFD \in Fds
    /\ f.fn = "dns" => Asking(f.s) /\ \A i \in 1 .. Len(waitDns) : waitDns[i] # f.s

(* The sockets a run of the queue may connect, and the stack that has not  *)
(* passed them: the last run that was started stands before them all.      *)
Usable(v) == {i \in 1 .. Len(server[v].queue) :
                server[v].queue[i] \in ValidSocks /\ server[v].queue[i] \in webs}

Covers(st, v, ix) == \E p \in Runs(st, v) : /\ \A r \in Runs(st, v) : p <= r
                                            /\ \A i \in ix : st[p].i <= i

SlotUsed(v) == \/ Usable(v) = {}
               \/ server[v].active_conns = MaxConns
               \/ Covers(stack, v, Usable(v))

SlotsUsed == \A v \in Servers \ TlsServers : SlotUsed(v)

IInv == /\ TypeOK /\ Frames /\ Counted /\ QueuesAgree /\ SocketsAgree
        /\ WaitersAgree /\ Unused /\ Ready /\ SlotsUsed
-----------------------------------------------------------------------------
(***************************************************************************)
(* Sequences.                                                              *)
(***************************************************************************)
LEMMA RemoveAtType ==
  ASSUME NEW S, NEW q \in Seq(S), NEW i \in 1 .. Len(q)
  PROVE  /\ RemoveAt(q, i) \in Seq(S) /\ Len(q) \in Nat
         /\ Len(RemoveAt(q, i)) = Len(q) - 1
         /\ \A j \in 1 .. Len(q) - 1 :
              RemoveAt(q, i)[j] = IF j < i THEN q[j] ELSE q[j + 1]
<1> DEFINE a == SubSeq(q, 1, i - 1)
           b == SubSeq(q, i + 1, Len(q))
<1>1. Len(q) \in Nat /\ i \in Nat /\ i - 1 \in Int /\ (\A j \in 1 .. Len(q) : q[j] \in S)
  BY LenProperties, ElementOfSeq
<1>2. /\ a \in Seq(S) /\ Len(a) = i - 1
      /\ \A j \in 1 .. i - 1 : a[j] = q[j]
  BY <1>1, SubSeqProperties
<1>3. /\ b \in Seq(S) /\ Len(b) = Len(q) - i
      /\ \A j \in 1 .. Len(q) - i : b[j] = q[i + j]
  <2>1. /\ b \in Seq(S) /\ Len(b) = IF i + 1 <= Len(q) THEN Len(q) - (i + 1) + 1 ELSE 0
        /\ \A j \in 1 .. Len(q) - (i + 1) + 1 : b[j] = q[(i + 1) + j - 1]
    BY <1>1, SubSeqProperties
  <2> HIDE DEF b
  <2>2. \A j \in 1 .. Len(q) - i : (i + 1) + j - 1 = i + j
    BY <1>1
  <2> QED BY <1>1, <2>1, <2>2
<1> HIDE DEF a, b
<1>4. /\ a \o b \in Seq(S) /\ Len(a \o b) = Len(q) - 1
      /\ \A j \in 1 .. Len(q) - 1 : (a \o b)[j] = IF j <= i - 1 THEN a[j] ELSE b[j - (i - 1)]
  BY <1>1, <1>2, <1>3, ConcatProperties, SMTT(30)
<1>5. RemoveAt(q, i) = a \o b
  BY DEF RemoveAt, a, b
<1>6. ASSUME NEW j \in 1 .. Len(q) - 1
      PROVE  (a \o b)[j] = IF j < i THEN q[j] ELSE q[j + 1]
  <2>1. CASE j < i
    BY <2>1, <1>1, <1>2, <1>4
  <2>2. CASE ~(j < i)
    <3>1. j - (i - 1) \in 1 .. Len(q) - i /\ i + (j - (i - 1)) = j + 1 /\ ~(j <= i - 1)
      BY <2>2, <1>1
    <3>2. (a \o b)[j] = b[j - (i - 1)]
      BY <3>1, <1>4
    <3>3. b[j - (i - 1)] = q[j + 1]
      BY <3>1, <1>3
    <3> QED BY <2>2, <3>2, <3>3
  <2> QED BY <2>1, <2>2
<1> QED BY <1>1, <1>4, <1>5, <1>6

LEMMA InsertAtType ==
  ASSUME NEW S, NEW q \in Seq(S), NEW i \in 1 .. Len(q) + 1, NEW e \in S
  PROVE  /\ InsertAt(q, i, e) \in Seq(S) /\ Len(q) \in Nat
         /\ Len(InsertAt(q, i, e)) = Len(q) + 1
         /\ \A j \in 1 .. Len(q) + 1 :
              InsertAt(q, i, e)[j] = IF j < i THEN q[j] ELSE IF j = i THEN e ELSE q[j - 1]
<1> DEFINE a == SubSeq(q, 1, i - 1)
           b == SubSeq(q, i, Len(q))
<1>1. Len(q) \in Nat /\ i \in Nat /\ i - 1 \in Int /\ (\A j \in 1 .. Len(q) : q[j] \in S)
  BY LenProperties, ElementOfSeq
<1>2. /\ a \in Seq(S) /\ Len(a) = i - 1
      /\ \A j \in 1 .. i - 1 : a[j] = q[j]
  BY <1>1, SubSeqProperties
<1>3. /\ b \in Seq(S) /\ Len(b) = Len(q) - i + 1
      /\ \A j \in 1 .. Len(q) - i + 1 : b[j] = q[i + j - 1]
  BY <1>1, SubSeqProperties
<1> HIDE DEF a, b
<1> DEFINE c == a \o <<e>>
<1>4. /\ c \in Seq(S) /\ Len(c) = i
      /\ \A j \in 1 .. i : c[j] = IF j <= i - 1 THEN a[j] ELSE e
  BY <1>1, <1>2, ConcatProperties
<1> HIDE DEF c
<1>5. /\ c \o b \in Seq(S)
      /\ Len(c \o b) = Len(q) + 1
      /\ \A j \in 1 .. Len(q) + 1 : (c \o b)[j] = IF j <= i THEN c[j] ELSE b[j - i]
  <2>1. /\ c \o b \in Seq(S) /\ Len(c \o b) = Len(c) + Len(b)
        /\ \A j \in 1 .. Len(c) + Len(b) : (c \o b)[j] = IF j <= Len(c) THEN c[j]
                                                          ELSE b[j - Len(c)]
    BY <1>3, <1>4, ConcatProperties
  <2>2. Len(c) = i /\ Len(c) + Len(b) = Len(q) + 1
    BY <1>1, <1>3, <1>4
  <2> QED BY <2>1, <2>2
<1>6. InsertAt(q, i, e) = c \o b
  BY DEF InsertAt, a, b, c
<1>7. ASSUME NEW j \in 1 .. Len(q) + 1
      PROVE  (c \o b)[j] = IF j < i THEN q[j] ELSE IF j = i THEN e ELSE q[j - 1]
  <2>1. CASE j < i
    BY <2>1, <1>1, <1>2, <1>4, <1>5
  <2>2. CASE j = i
    BY <2>2, <1>1, <1>4, <1>5
  <2>3. CASE j > i
    <3>1. j - i \in 1 .. Len(q) - i + 1 /\ i + (j - i) - 1 = j - 1 /\ ~(j <= i)
      BY <2>3, <1>1
    <3>2. (c \o b)[j] = b[j - i]
      BY <3>1, <1>5
    <3>3. b[j - i] = q[j - 1]
      BY <3>1, <1>3
    <3>4. ~(j < i) /\ j # i
      BY <2>3, <1>1
    <3> QED BY <3>2, <3>3, <3>4
  <2>4. j < i \/ j = i \/ j > i
    BY <1>1
  <2> QED BY <2>1, <2>2, <2>3, <2>4
<1> QED BY <1>1, <1>5, <1>6, <1>7

LEMMA ConsAt ==
  ASSUME NEW S, NEW T \in Seq(S), NEW f \in S
  PROVE  /\ <<f>> \o T \in Seq(S) /\ Len(T) \in Nat
         /\ Len(<<f>> \o T) = Len(T) + 1
         /\ (<<f>> \o T)[1] = f
         /\ \A j \in 1 .. Len(T) : (<<f>> \o T)[j + 1] = T[j]
         /\ Head(<<f>> \o T) = f /\ Tail(<<f>> \o T) = T /\ <<f>> \o T # <<>>
BY ConcatProperties, LenProperties

LEMMA HeadAndRest ==
  ASSUME NEW S, NEW st \in Seq(S), st # <<>>
  PROVE  st = <<Head(st)>> \o Tail(st) /\ Head(st) \in S /\ Tail(st) \in Seq(S)
<1>1. Head(st) \in S /\ Tail(st) \in Seq(S) /\ Len(Tail(st)) = Len(st) - 1
      /\ Len(st) \in Nat /\ \A i \in 1 .. Len(Tail(st)) : Tail(st)[i] = st[i + 1]
  BY HeadTailProperties, LenProperties
<1> DEFINE t == <<Head(st)>> \o Tail(st)
<1>2. t \in Seq(S) /\ Len(t) = Len(st) /\ t[1] = Head(st)
      /\ \A j \in 1 .. Len(Tail(st)) : t[j + 1] = Tail(st)[j]
  BY <1>1, ConsAt
<1>3. st[1] = Head(st)
  BY HeadTailProperties
<1>4. \A j \in 1 .. Len(st) : t[j] = st[j]
  <2> TAKE j \in 1 .. Len(st)
  <2>1. CASE j = 1
    BY <2>1, <1>2, <1>3
  <2>2. CASE j # 1
    <3>1. j - 1 \in 1 .. Len(Tail(st)) /\ (j - 1) + 1 = j
      BY <2>2, <1>1
    <3> QED BY <3>1, <1>1, <1>2
  <2> QED BY <2>1, <2>2
<1> QED BY <1>1, <1>2, <1>4, SeqEqual

(* A set of naturals has a least element.                                  *)
LEMMA Least ==
  ASSUME NEW T, T \subseteq Nat, T # {}
  PROVE  \E x \in T : \A y \in T : x <= y
<1> DEFINE R == {ss \in Nat \X Nat : ss[1] < ss[2]}
<1>1. IsWellFoundedOn(R, Nat)
  <2>1. R = OpToRel(<, Nat)
    BY DEF OpToRel
  <2> QED BY <2>1, NatLessThanWellFounded
<1>2. \A x, y \in Nat : x < y => <<x, y>> \in R
  <2> TAKE x, y \in Nat
  <2> HAVE x < y
  <2>1. <<x, y>> \in Nat \X Nat /\ <<x, y>>[1] = x /\ <<x, y>>[2] = y
    OBVIOUS
  <2> QED BY <2>1
<1> HIDE DEF R
<1>3. PICK x \in T : \A y \in T : ~(<<y, x>> \in R)
  BY <1>1, WFMin
<1>4. \A y \in T : x <= y
  <2> TAKE y \in T
  <2>1. x \in Nat /\ y \in Nat
    OBVIOUS
  <2>2. ~(y < x)
    BY <1>2, <1>3, <2>1
  <2> QED BY <2>1, <2>2
<1> QED BY <1>4

(***************************************************************************)
(* Stacks.                                                                 *)
(***************************************************************************)
IsRun(f, v) == f.fn = "queue" /\ f.srv = v

LEMMA ConsRuns ==
  ASSUME NEW T \in Seq(Frame), NEW f \in Frame, NEW v
  PROVE  /\ Cardinality(Runs(T, v)) \in Nat
         /\ Cardinality(Runs(<<f>> \o T, v)) =
              Cardinality(Runs(T, v)) + IF IsRun(f, v) THEN 1 ELSE 0
<1> DEFINE R == Runs(T, v)
           U == {p + 1 : p \in R}
<1>1. /\ Len(T) \in Nat /\ Len(<<f>> \o T) = Len(T) + 1 /\ (<<f>> \o T)[1] = f
      /\ \A j \in 1 .. Len(T) : (<<f>> \o T)[j + 1] = T[j]
  BY ConsAt
<1>2. R \subseteq 1 .. Len(T) /\ IsFiniteSet(R) /\ Cardinality(R) \in Nat
  <2>1. R \subseteq 1 .. Len(T) /\ IsFiniteSet(1 .. Len(T))
    BY <1>1, FS_Interval DEF Runs
  <2> HIDE DEF R
  <2> QED BY <2>1, FS_Subset, FS_CardinalityType
<1>3. IsFiniteSet(U) /\ Cardinality(U) = Cardinality(R)
  <2> DEFINE g == [p \in R |-> p + 1]
  <2>1. g \in Bijection(R, U)
    BY <1>2 DEF Bijection, Injection, Surjection, IsInjective
  <2>2. ExistsBijection(R, U)
    BY <2>1 DEF ExistsBijection
  <2> QED BY <2>2, <1>2, FS_Bijection
<1>4. Runs(<<f>> \o T, v) = IF IsRun(f, v) THEN U \cup {1} ELSE U
  <2>1. \A p \in 2 .. Len(T) + 1 : p - 1 \in 1 .. Len(T) /\ (p - 1) + 1 = p
    BY <1>1
  <2>2. \A p \in 2 .. Len(T) + 1 : (<<f>> \o T)[p] = T[p - 1]
    BY <1>1, <2>1
  <2>3. \A p \in 2 .. Len(T) + 1 : p \in U <=> p \in Runs(<<f>> \o T, v)
    BY <2>1, <2>2, <1>1 DEF Runs
  <2>4. U \subseteq 2 .. Len(T) + 1
    BY <1>1, <1>2
  <2>5. 1 \in Runs(<<f>> \o T, v) <=> IsRun(f, v)
    BY <1>1 DEF Runs, IsRun
  <2>6. Runs(<<f>> \o T, v) \subseteq {1} \cup 2 .. Len(T) + 1
    BY <1>1 DEF Runs
  <2> QED BY <2>3, <2>4, <2>5, <2>6
<1>5. 1 \notin U
  BY <1>2
<1>6. CASE IsRun(f, v)
  <2>1. Cardinality(U \cup {1}) = Cardinality(U) + 1
    <3> HIDE DEF U
    <3> QED BY <1>3, <1>5, FS_AddElement
  <2> QED BY <2>1, <1>2, <1>3, <1>4, <1>6
<1>7. CASE ~IsRun(f, v)
  <2>1. Runs(<<f>> \o T, v) = U
    BY <1>4, <1>7
  <2> HIDE DEF U
  <2> QED BY <2>1, <1>2, <1>3, <1>7
<1> QED BY <1>6, <1>7

LEMMA ConsCovers ==
  ASSUME NEW T \in Seq(Frame), NEW f \in Frame, NEW v, NEW ix
  PROVE  /\ IsRun(f, v) => (Covers(<<f>> \o T, v, ix) <=> \A i \in ix : f.i <= i)
         /\ ~IsRun(f, v) => (Covers(<<f>> \o T, v, ix) <=> Covers(T, v, ix))
<1>1. /\ Len(T) \in Nat /\ Len(<<f>> \o T) = Len(T) + 1 /\ (<<f>> \o T)[1] = f
      /\ \A j \in 1 .. Len(T) : (<<f>> \o T)[j + 1] = T[j]
  BY ConsAt
<1>2. \A p \in 1 .. Len(T) + 1 : p = 1 \/ (p - 1 \in 1 .. Len(T) /\ (p - 1) + 1 = p)
  BY <1>1
<1>3. \A p \in 1 .. Len(T) : p + 1 \in Runs(<<f>> \o T, v) <=> p \in Runs(T, v)
  BY <1>1 DEF Runs
<1>4. 1 \in Runs(<<f>> \o T, v) <=> IsRun(f, v)
  BY <1>1 DEF Runs, IsRun
<1>5. Runs(<<f>> \o T, v) \subseteq 1 .. Len(T) + 1 /\ Runs(T, v) \subseteq 1 .. Len(T)
  BY <1>1 DEF Runs
<1>6. CASE IsRun(f, v)
  <2>1. \A p \in Runs(<<f>> \o T, v) : 1 <= p
    BY <1>5, <1>1
  <2>2. \A p \in Runs(<<f>> \o T, v) : (\A r \in Runs(<<f>> \o T, v) : p <= r) => p = 1
    BY <2>1, <1>4, <1>5, <1>6, <1>1
  <2> QED BY <2>1, <2>2, <1>1, <1>4, <1>6 DEF Covers
<1>7. CASE ~IsRun(f, v)
  <2>1. ASSUME NEW p \in Runs(<<f>> \o T, v), \A r \in Runs(<<f>> \o T, v) : p <= r,
               \A i \in ix : (<<f>> \o T)[p].i <= i
        PROVE  Covers(T, v, ix)
    <3>1. p - 1 \in Runs(T, v) /\ (<<f>> \o T)[p] = T[p - 1]
      BY <1>1, <1>2, <1>3, <1>4, <1>5, <1>7
    <3>2. \A r \in Runs(T, v) : p - 1 <= r
      <4> TAKE r \in Runs(T, v)
      <4>1. p <= r + 1
        BY <2>1, <1>3, <1>5
      <4> QED BY <4>1, <1>1, <1>5
    <3> QED BY <3>1, <3>2, <2>1 DEF Covers
  <2>2. ASSUME NEW p \in Runs(T, v), \A r \in Runs(T, v) : p <= r, \A i \in ix : T[p].i <= i
        PROVE  Covers(<<f>> \o T, v, ix)
    <3>1. p + 1 \in Runs(<<f>> \o T, v) /\ (<<f>> \o T)[p + 1] = T[p]
      BY <1>1, <1>3, <1>5
    <3>2. \A r \in Runs(<<f>> \o T, v) : p + 1 <= r
      <4> TAKE r \in Runs(<<f>> \o T, v)
      <4>1. r - 1 \in Runs(T, v)
        BY <1>2, <1>3, <1>4, <1>5, <1>7
      <4> QED BY <4>1, <2>2, <1>1, <1>5
    <3> QED BY <3>1, <3>2, <2>2 DEF Covers
  <2> QED BY <2>1, <2>2, <1>7 DEF Covers
<1> QED BY <1>6, <1>7

LEMMA StackTop ==
  ASSUME Frames, stack # <<>>
  PROVE  /\ stack = <<Head(stack)>> \o Rest
         /\ Head(stack) \in Frame /\ Rest \in Seq(LowFrame) /\ Rest \in Seq(Frame)
<1>1. Rest \in Seq(LowFrame) /\ stack \in Seq(Frame)
  BY DEF Frames, Rest
<1> QED BY <1>1, HeadAndRest DEF Rest

LEMMA LowIsFrame == Seq(LowFrame) \subseteq Seq(Frame) /\ LowFrame \subseteq Frame
<1>1. LowFrame \subseteq Frame
  BY DEF LowFrame
<1> QED BY <1>1, SeqMonotonic

LEMMA NoRuns == \A v : Runs(<<>>, v) = {} /\ \A ix : ~Covers(<<>>, v, ix)
BY DEF Runs, Covers

(* The runs a step leaves as they are.                                     *)
SameRuns ==
  /\ \A v : Cardinality(Runs(stack', v)) = Cardinality(Runs(stack, v))
  /\ \A v, ix : Covers(stack', v, ix) <=> Covers(stack, v, ix)

LEMMA Popped ==
  ASSUME Frames, stack # <<>>, stack' = Rest
  PROVE  /\ Frames' /\ (stack' # <<>> => Head(stack') \in LowFrame)
         /\ \A v : /\ Cardinality(Runs(stack', v)) \in Nat
                   /\ Cardinality(Runs(stack, v)) = Cardinality(Runs(stack', v))
                                                + IF IsRun(Head(stack), v) THEN 1 ELSE 0
         /\ \A v, ix : ~IsRun(Head(stack), v)
                         => (Covers(stack', v, ix) <=> Covers(stack, v, ix))
         /\ Head(stack).fn # "queue" => SameRuns
<1>1. /\ stack = <<Head(stack)>> \o Rest
      /\ Head(stack) \in Frame /\ Rest \in Seq(LowFrame) /\ Rest \in Seq(Frame)
  BY StackTop
<1>2. Frames' /\ (stack' # <<>> => Head(stack') \in LowFrame)
  BY <1>1, LowIsFrame, HeadTailProperties DEF Frames
<1>3. \A v : /\ Cardinality(Runs(Rest, v)) \in Nat
             /\ Cardinality(Runs(<<Head(stack)>> \o Rest, v)) = Cardinality(Runs(Rest, v))
                                                + IF IsRun(Head(stack), v) THEN 1 ELSE 0
  BY <1>1, ConsRuns
<1>4. \A v, ix : ~IsRun(Head(stack), v)
                   => (Covers(<<Head(stack)>> \o Rest, v, ix) <=> Covers(Rest, v, ix))
  BY <1>1, ConsCovers
<1>5. \A v : /\ Cardinality(Runs(stack', v)) \in Nat
             /\ Cardinality(Runs(stack, v)) = Cardinality(Runs(stack', v))
                                                + IF IsRun(Head(stack), v) THEN 1 ELSE 0
  BY <1>1, <1>3
<1>6. \A v, ix : ~IsRun(Head(stack), v)
                   => (Covers(stack', v, ix) <=> Covers(stack, v, ix))
  BY <1>1, <1>4
<1>7. Head(stack).fn # "queue" => SameRuns
  BY <1>5, <1>6 DEF SameRuns, IsRun
<1> QED BY <1>2, <1>5, <1>6, <1>7

LEMMA Swapped ==
  ASSUME Frames, stack # <<>>, NEW f \in Frame, stack' = <<f>> \o Rest
  PROVE  /\ Frames' /\ stack' # <<>> /\ Head(stack') = f
         /\ \A v : /\ Cardinality(Runs(stack', v)) \in Nat
                   /\ Cardinality(Runs(stack, v)) \in Nat
                   /\ IsRun(f, v) /\ ~IsRun(Head(stack), v)
                        => Cardinality(Runs(stack', v)) = Cardinality(Runs(stack, v)) + 1
                   /\ (IsRun(f, v) <=> IsRun(Head(stack), v))
                        => Cardinality(Runs(stack', v)) = Cardinality(Runs(stack, v))
         /\ \A v, ix : ~IsRun(Head(stack), v) /\ ~IsRun(f, v)
                         => (Covers(stack', v, ix) <=> Covers(stack, v, ix))
         /\ \A v, ix : IsRun(f, v) => (Covers(stack', v, ix) <=> \A i \in ix : f.i <= i)
         /\ \A v, ix : IsRun(Head(stack), v)
                         => (Covers(stack, v, ix) <=> \A i \in ix : Head(stack).i <= i)
         /\ Head(stack).fn # "queue" /\ f.fn # "queue" => SameRuns
<1>1. /\ stack = <<Head(stack)>> \o Rest
      /\ Head(stack) \in Frame /\ Rest \in Seq(LowFrame) /\ Rest \in Seq(Frame)
  BY StackTop
<1>2. stack' \in Seq(Frame) /\ Head(stack') = f /\ Tail(stack') = Rest /\ stack' # <<>>
  BY <1>1, ConsAt
<1>3. Frames'
  BY <1>1, <1>2 DEF Frames
<1>4. \A v : /\ Cardinality(Runs(Rest, v)) \in Nat
             /\ Cardinality(Runs(<<Head(stack)>> \o Rest, v)) = Cardinality(Runs(Rest, v))
                                                + IF IsRun(Head(stack), v) THEN 1 ELSE 0
             /\ Cardinality(Runs(<<f>> \o Rest, v)) = Cardinality(Runs(Rest, v))
                                                + IF IsRun(f, v) THEN 1 ELSE 0
  BY <1>1, ConsRuns
<1>5. \A v, ix :
        /\ ~IsRun(Head(stack), v)
             => (Covers(<<Head(stack)>> \o Rest, v, ix) <=> Covers(Rest, v, ix))
        /\ IsRun(Head(stack), v)
             => (Covers(<<Head(stack)>> \o Rest, v, ix) <=> \A i \in ix : Head(stack).i <= i)
        /\ ~IsRun(f, v) => (Covers(<<f>> \o Rest, v, ix) <=> Covers(Rest, v, ix))
        /\ IsRun(f, v) => (Covers(<<f>> \o Rest, v, ix) <=> \A i \in ix : f.i <= i)
  BY <1>1, ConsCovers
<1>6. \A v : /\ Cardinality(Runs(stack', v)) \in Nat
             /\ Cardinality(Runs(stack, v)) \in Nat
             /\ IsRun(f, v) /\ ~IsRun(Head(stack), v)
                  => Cardinality(Runs(stack', v)) = Cardinality(Runs(stack, v)) + 1
             /\ (IsRun(f, v) <=> IsRun(Head(stack), v))
                  => Cardinality(Runs(stack', v)) = Cardinality(Runs(stack, v))
  <2> TAKE v
  <2>1. /\ Cardinality(Runs(Rest, v)) \in Nat
        /\ Cardinality(Runs(stack, v)) = Cardinality(Runs(Rest, v))
                                           + IF IsRun(Head(stack), v) THEN 1 ELSE 0
        /\ Cardinality(Runs(stack', v)) = Cardinality(Runs(Rest, v))
                                           + IF IsRun(f, v) THEN 1 ELSE 0
    BY <1>1, <1>4
  <2> QED BY <2>1
<1>7. \A v, ix : ~IsRun(Head(stack), v) /\ ~IsRun(f, v)
                   => (Covers(stack', v, ix) <=> Covers(stack, v, ix))
  BY <1>1, <1>5
<1>8. /\ \A v, ix : IsRun(f, v) => (Covers(stack', v, ix) <=> \A i \in ix : f.i <= i)
      /\ \A v, ix : IsRun(Head(stack), v)
                      => (Covers(stack, v, ix) <=> \A i \in ix : Head(stack).i <= i)
  BY <1>1, <1>5
<1>9. Head(stack).fn # "queue" /\ f.fn # "queue" => SameRuns
  BY <1>6, <1>7 DEF SameRuns, IsRun
<1> QED BY <1>2, <1>3, <1>6, <1>7, <1>8, <1>9

LEMMA Pushed ==
  ASSUME Frames, stack # <<>>, NEW f \in Frame, f.fn # "queue",
         Head(stack) \in LowFrame, stack' = <<f>> \o stack
  PROVE  Frames' /\ stack' # <<>> /\ Head(stack') = f /\ SameRuns
<1>1. /\ stack = <<Head(stack)>> \o Rest
      /\ Head(stack) \in Frame /\ Rest \in Seq(LowFrame) /\ stack \in Seq(Frame)
  BY StackTop DEF Frames
<1>2. stack' \in Seq(Frame) /\ Head(stack') = f /\ Tail(stack') = stack /\ stack' # <<>>
  BY <1>1, ConsAt
<1>3. <<Head(stack)>> \o Rest \in Seq(LowFrame)
  BY <1>1, ConsAt
<1>4. \A v : ~IsRun(f, v)
  BY DEF IsRun
<1>5. \A v : /\ Cardinality(Runs(stack, v)) \in Nat
             /\ Cardinality(Runs(<<f>> \o stack, v)) = Cardinality(Runs(stack, v)) + 0
  BY <1>1, <1>4, ConsRuns
<1>6. \A v, ix : Covers(<<f>> \o stack, v, ix) <=> Covers(stack, v, ix)
  BY <1>1, <1>4, ConsCovers
<1>7. SameRuns
  BY <1>5, <1>6 DEF SameRuns
<1> QED BY <1>1, <1>2, <1>3, <1>7 DEF Frames

(* A handler of the main loop.                                             *)
LEMMA Started ==
  ASSUME stack = <<>>, NEW f \in Frame, f.fn # "queue",
         stack' = <<f>> \/ \E g \in LowFrame : g.fn # "queue" /\ stack' = <<f, g>>
  PROVE  Frames' /\ stack' # <<>> /\ Head(stack') = f /\ SameRuns
<1>1. CASE stack' = <<f>>
  <2>1. stack' \in Seq(Frame) /\ Tail(stack') = <<>> /\ Head(stack') = f /\ stack' # <<>>
    BY <1>1
  <2>2. Frames'
    BY <2>1, EmptySeq DEF Frames
  <2>3. \A v : Runs(stack', v) = {}
    BY <1>1 DEF Runs
  <2> QED BY <2>1, <2>2, <2>3, NoRuns DEF SameRuns, Covers
<1>2. ASSUME NEW g \in LowFrame, g.fn # "queue", stack' = <<f, g>>
      PROVE  Frames' /\ stack' # <<>> /\ Head(stack') = f /\ SameRuns
  <2>1. stack' \in Seq(Frame) /\ Tail(stack') = <<g>> /\ Head(stack') = f /\ stack' # <<>>
    BY <1>2, LowIsFrame
  <2>2. <<g>> \in Seq(LowFrame)
    OBVIOUS
  <2>3. Frames'
    BY <2>1, <2>2 DEF Frames
  <2>4. \A v : Runs(stack', v) = {}
    BY <1>2 DEF Runs
  <2> QED BY <2>1, <2>3, <2>4, NoRuns DEF SameRuns, Covers
<1> QED BY <1>1, <1>2

LEMMA RunsKept == ASSUME UNCHANGED stack PROVE SameRuns
BY DEF SameRuns

LEMMA CoversLess ==
  ASSUME NEW st, NEW v, NEW ix, NEW jx, jx \subseteq ix, Covers(st, v, ix)
  PROVE  Covers(st, v, jx)
BY DEF Covers

LEMMA FrameFields ==
  ASSUME NEW f \in Frame
  PROVE  /\ f.fn = "queue" => f.srv \in Servers /\ f.i \in Nat \ {0}
         /\ f.fn \in {"connect", "tls", "free"} => f.s \in Socks
         /\ f.fn = "dns" => f.s \in Socks /\ f.success \in BOOLEAN
         /\ f.fn = "done" => f.fd \in Fds \cup {NoFd} /\ f.success \in BOOLEAN
         /\ f.fn = "close" => f.fd \in Fds \cup {NoFd}
         /\ f.fn = "answer" => f.srv \in Servers /\ f.success \in BOOLEAN
BY DEF Frame

LEMMA FramesTyped ==
  /\ \A v \in Servers : \A i \in Nat \ {0} : QueueFrame(v, i) \in Frame
  /\ \A s \in Socks : /\ ConnectFrame(s) \in Frame /\ ConnectFrame(s).fn = "connect"
                      /\ ConnectFrame(s).s = s
                      /\ TlsFrame(s) \in Frame /\ TlsFrame(s).fn = "tls" /\ TlsFrame(s).s = s
                      /\ FreeFrame(s) \in Frame /\ FreeFrame(s).fn = "free"
  /\ \A s \in Socks, r \in BOOLEAN : /\ DnsFrame(s, r) \in Frame /\ DnsFrame(s, r).fn = "dns"
                                     /\ DnsFrame(s, r).s = s
  /\ \A fd \in Fds \cup {NoFd}, r \in BOOLEAN :
       /\ DoneFrame(fd, r) \in Frame /\ DoneFrame(fd, r).fn = "done"
       /\ CloseFrame(fd) \in LowFrame /\ CloseFrame(fd).fn = "close"
  /\ \A v \in Servers, r \in BOOLEAN :
       AnswerFrame(v, r) \in Frame /\ AnswerFrame(v, r).fn = "answer"
BY DEF Frame, LowFrame, QueueFrame, ConnectFrame, TlsFrame, FreeFrame, DnsFrame, DoneFrame,
       CloseFrame, AnswerFrame
-----------------------------------------------------------------------------
(***************************************************************************)
(* What steps leave alone.                                                 *)
(***************************************************************************)
LEMMA CountKept ==
  ASSUME NEW v \in Servers, CountedAt(v), server'[v] = server[v],
         Cardinality(Runs(stack', v)) = Cardinality(Runs(stack, v)),
         \A s \in Socks : sd'[s].connected_to = v <=> sd[s].connected_to = v
  PROVE  CountedAt(v)'
<1>1. Connections(v)' = Connections(v)
  BY DEF Connections
<1> QED BY <1>1 DEF CountedAt

LEMMA CountedKept ==
  ASSUME Counted, SameRuns, UNCHANGED server,
         \A s \in Socks : sd'[s].connected_to = sd[s].connected_to
  PROVE  Counted'
BY CountKept DEF Counted, SameRuns

LEMMA QueuesKept ==
  ASSUME TypeOK, QueuesAgree, \A v \in Servers : server'[v].queue = server[v].queue,
         \A s \in Socks : "QUEUED" \in sd'[s].flags <=> "QUEUED" \in sd[s].flags,
         \A s \in Socks : Queued(s) => /\ sd'[s].connected_to = sd[s].connected_to
                                       /\ s \notin freed'
                                       /\ s \in ValidSocks' <=> "TO_BE_FREED" \notin sd'[s].flags
  PROVE  QueuesAgree'
<1>1. \A v \in Servers : \A i \in 1 .. Len(server[v].queue) : server[v].queue[i] \in Socks
  BY ElementOfSeq DEF TypeOK
<1>2. /\ \A v \in Servers : \A i, j \in 1 .. Len(server'[v].queue) :
           server'[v].queue[i] = server'[v].queue[j] => i = j
      /\ \A v, w \in Servers :
           \A i \in 1 .. Len(server'[v].queue), j \in 1 .. Len(server'[w].queue) :
             server'[v].queue[i] = server'[w].queue[j] => v = w
  <2>1. ASSUME NEW v \in Servers, NEW i \in 1 .. Len(server'[v].queue),
               NEW j \in 1 .. Len(server'[v].queue),
               server'[v].queue[i] = server'[v].queue[j]
        PROVE  i = j
    <3>1. server'[v].queue = server[v].queue
      OBVIOUS
    <3> QED BY <2>1, <3>1 DEF QueuesAgree
  <2>2. ASSUME NEW v \in Servers, NEW w \in Servers,
               NEW i \in 1 .. Len(server'[v].queue), NEW j \in 1 .. Len(server'[w].queue),
               server'[v].queue[i] = server'[w].queue[j]
        PROVE  v = w
    <3>1. server'[v].queue = server[v].queue /\ server'[w].queue = server[w].queue
      OBVIOUS
    <3>2. /\ i \in 1 .. Len(server[v].queue) /\ j \in 1 .. Len(server[w].queue)
          /\ server[v].queue[i] = server[w].queue[j]
      BY <2>2, <3>1
    <3> QED BY <3>2 DEF QueuesAgree
  <2> QED BY <2>1, <2>2
<1>3. \A v \in Servers : \A i \in 1 .. Len(server'[v].queue) :
        "QUEUED" \in sd'[server'[v].queue[i]].flags
  BY <1>1 DEF QueuesAgree, Queued
<1>4. ASSUME NEW s \in Socks, "QUEUED" \in sd'[s].flags
      PROVE  /\ \E v \in Servers : \E i \in 1 .. Len(server'[v].queue) : server'[v].queue[i] = s
             /\ s \notin freed' /\ sd'[s].connected_to = NoServer
             /\ s \in ValidSocks' <=> "TO_BE_FREED" \notin sd'[s].flags
  <2>1. Queued(s)
    BY <1>4 DEF Queued
  <2>2. PICK v \in Servers : \E i \in 1 .. Len(server[v].queue) : server[v].queue[i] = s
    BY <2>1 DEF QueuesAgree
  <2>3. sd[s].connected_to = NoServer
    BY <2>1 DEF QueuesAgree
  <2> QED BY <2>1, <2>2, <2>3
<1> QED BY <1>2, <1>3, <1>4 DEF QueuesAgree, Queued

LEMMA SlotKept ==
  ASSUME NEW v \in Servers, SlotUsed(v),
         server'[v].queue = server[v].queue,
         server'[v].active_conns = server[v].active_conns,
         \A ix : Covers(stack, v, ix) => Covers(stack', v, ix),
         \A i \in 1 .. Len(server[v].queue) :
           server[v].queue[i] \in ValidSocks' /\ server[v].queue[i] \in webs'
             => server[v].queue[i] \in ValidSocks /\ server[v].queue[i] \in webs
  PROVE  SlotUsed(v)'
<1>1. Usable(v)' \subseteq Usable(v)
  BY DEF Usable
<1>2. CASE Usable(v) = {}
  BY <1>1, <1>2 DEF SlotUsed
<1>3. CASE server[v].active_conns = MaxConns
  BY <1>3 DEF SlotUsed
<1>4. CASE Covers(stack, v, Usable(v))
  BY <1>1, <1>4, CoversLess DEF SlotUsed
<1> QED BY <1>2, <1>3, <1>4 DEF SlotUsed

LEMMA SlotsKept ==
  ASSUME SlotsUsed, SameRuns, UNCHANGED server,
         \A v \in Servers : \A i \in 1 .. Len(server[v].queue) :
           server[v].queue[i] \in ValidSocks' /\ server[v].queue[i] \in webs'
             => server[v].queue[i] \in ValidSocks /\ server[v].queue[i] \in webs
  PROVE  SlotsUsed'
<1> SUFFICES ASSUME NEW v \in Servers \ TlsServers PROVE SlotUsed(v)'
  BY DEF SlotsUsed
<1> QED BY SlotKept DEF SlotsUsed, SameRuns

(* The sockets of the queues.                                              *)
LEMMA QueueTyped ==
  ASSUME TypeOK, NEW v \in Servers
  PROVE  /\ server[v].queue \in Seq(Socks) /\ Len(server[v].queue) \in Nat
         /\ \A i \in 1 .. Len(server[v].queue) : server[v].queue[i] \in Socks
<1>1. server[v].queue \in Seq(Socks)
  BY DEF TypeOK
<1> QED BY <1>1, ElementOfSeq, LenProperties

LEMMA ReadyOther ==
  ASSUME stack' # <<>> => Head(stack').fn \notin {"connect", "tls", "dns"}
  PROVE  Ready'
BY DEF Ready

(* What a step keeps that changes no socket and no server.                 *)
LEMMA Quiet ==
  ASSUME IInv, SameRuns, UNCHANGED <<sd, ValidSocks, freed, server, waitDns, fd_map>>,
         webs' \subseteq webs, 
         \A s \in Socks : chain'[s] = "none" <=> chain[s] = "none",
         \A s \in Socks : \/ ioFD'[s] \in {ioFD[s], NoFd}
                          \/ s \in ValidSocks /\ sd[s].connected_to # NoServer
  PROVE  Counted' /\ QueuesAgree' /\ SocketsAgree' /\ WaitersAgree' /\ Unused' /\ SlotsUsed'
<1>1. Counted'
  BY CountedKept DEF IInv
<1>2. QueuesAgree'
  BY QueuesKept DEF IInv, Queued, QueuesAgree
<1>3. SocketsAgree'
  <2>1. \A s \in ValidSocks : s \in Socks
    BY DEF IInv, TypeOK
  <2> QED BY <2>1 DEF IInv, SocketsAgree
<1>4. WaitersAgree'
  <2>1. \A i \in 1 .. Len(waitDns) : waitDns[i] \in Socks
    BY ElementOfSeq DEF IInv, TypeOK
  <2> QED BY <2>1 DEF IInv, WaitersAgree, Asking, Queued
<1>5. Unused'
  BY DEF IInv, Unused
<1>6. SlotsUsed'
  BY SlotsKept DEF IInv
<1> QED BY <1>1, <1>2, <1>3, <1>4, <1>5, <1>6
-----------------------------------------------------------------------------
(***************************************************************************)
(* The steps that change no socket and no server.                          *)
(***************************************************************************)
LEMMA HeadTyped ==
  ASSUME Frames, stack # <<>>
  PROVE  Head(stack) \in Frame
BY StackTop

LEMMA LowHead ==
  ASSUME NEW f \in LowFrame
  PROVE  f.fn \notin {"connect", "tls", "dns"}
BY DEF LowFrame

(* A handler returns.                                                      *)
LEMMA PopKeeps ==
  ASSUME IInv, stack # <<>>, Head(stack).fn # "queue", stack' = Rest
  PROVE  Frames' /\ SameRuns /\ Ready'
<1>1. Frames' /\ SameRuns /\ (stack' # <<>> => Head(stack') \in LowFrame)
  BY Popped DEF IInv
<1> QED BY <1>1, LowHead, ReadyOther

(* A handler calls another at its end.                                     *)
LEMMA SwapKeeps ==
  ASSUME IInv, stack # <<>>, Head(stack).fn # "queue", NEW f \in Frame,
         f.fn \notin {"queue", "connect", "tls", "dns"}, stack' = <<f>> \o Rest
  PROVE  Frames' /\ SameRuns /\ Ready'
<1>1. Frames' /\ SameRuns /\ Head(stack') = f
  BY Swapped DEF IInv
<1> QED BY <1>1, ReadyOther

(* An event is handled.                                                    *)
LEMMA StartKeeps ==
  ASSUME IInv, AtRest, NEW f \in Frame, f.fn \notin {"queue", "connect", "tls", "dns"},
         stack' = <<f>> \/ \E g \in LowFrame : g.fn # "queue" /\ stack' = <<f, g>>
  PROVE  Frames' /\ SameRuns /\ Ready'
<1>1. Frames' /\ SameRuns /\ Head(stack') = f
  BY Started DEF AtRest
<1> QED BY <1>1, ReadyOther

LEMMA ConnectGivesUpKeeps ==
  ASSUME IInv, ConnectGivesUp
  PROVE  IInv'
<1>1. stack # <<>> /\ Head(stack).fn = "connect" /\ Head(stack).s \in Socks
  BY HeadTyped, FrameFields DEF ConnectGivesUp, Top, IInv
<1>2. DoneFrame(sd[CS].SockFD, FALSE) \in Frame /\ DoneFrame(sd[CS].SockFD, FALSE).fn = "done"
  BY <1>1, FramesTyped DEF IInv, TypeOK, CS
<1>3. Frames' /\ SameRuns /\ Ready'
  BY <1>1, <1>2, SwapKeeps DEF ConnectGivesUp
<1>4. TypeOK'
  BY DEF ConnectGivesUp, IInv, TypeOK
<1> QED BY <1>3, <1>4, Quiet DEF ConnectGivesUp, IInv

LEMMA DoneKeeps ==
  ASSUME IInv, a_Http_connect_done
  PROVE  IInv'
<1>1. /\ stack # <<>> /\ Head(stack).fn = "done" /\ Head(stack).fd \in Fds \cup {NoFd}
      /\ Head(stack).success \in BOOLEAN
  BY HeadTyped, FrameFields DEF a_Http_connect_done, Top, IInv
<1>2. ASSUME NEW s \in FdOwners(Head(stack).fd)
      PROVE  /\ s \in Socks /\ s \in ValidSocks /\ sd[s].connected_to # NoServer
             /\ chain[s] # "none"
  <2>1. PICK e \in fd_map : e.skey = s /\ e.fd = Head(stack).fd
    BY DEF FdOwners
  <2> QED BY <2>1 DEF FdOwners, IInv, TypeOK, SocketsAgree, Unused
<1>3. CASE stack' = Rest /\ UNCHANGED <<ioFD, open, chain>>
  <2>1. Frames' /\ SameRuns /\ Ready'
    BY <1>1, <1>3, PopKeeps
  <2>2. TypeOK'
    BY <1>3 DEF a_Http_connect_done, IInv, TypeOK
  <2> QED BY <1>3, <2>1, <2>2, Quiet DEF a_Http_connect_done, IInv
<1>4. ASSUME NEW s \in FdOwners(Head(stack).fd), stack' = Rest,
             ioFD' = [ioFD EXCEPT ![s] = Head(stack).fd], UNCHANGED <<open, chain>>
      PROVE  IInv'
  <2>1. Frames' /\ SameRuns /\ Ready'
    BY <1>1, <1>4, PopKeeps
  <2>2. TypeOK'
    <3>1. ioFD' \in [Socks -> Fds \cup {NoFd}]
      BY <1>1, <1>2, <1>4 DEF IInv, TypeOK
    <3> QED BY <1>4, <3>1 DEF a_Http_connect_done, IInv, TypeOK
  <2>3. \A t \in Socks : \/ ioFD'[t] \in {ioFD[t], NoFd}
                         \/ t \in ValidSocks /\ sd[t].connected_to # NoServer
    BY <1>2, <1>4 DEF IInv, TypeOK
  <2> QED BY <1>4, <2>1, <2>2, <2>3, Quiet DEF a_Http_connect_done, IInv
<1>5. ASSUME NEW s \in FdOwners(Head(stack).fd), stack' = <<FreeFrame(s)>> \o Rest,
             open' = open \ {Head(stack).fd}, chain' = [chain EXCEPT ![s] = "aborted"],
             UNCHANGED ioFD
      PROVE  IInv'
  <2>1. FreeFrame(s) \in Frame /\ FreeFrame(s).fn = "free"
    BY <1>2, FramesTyped
  <2>2. Frames' /\ SameRuns /\ Ready'
    BY <1>1, <1>5, <2>1, SwapKeeps
  <2>3. TypeOK'
    BY <1>2, <1>5 DEF a_Http_connect_done, IInv, TypeOK
  <2>4. \A t \in Socks : chain'[t] = "none" <=> chain[t] = "none"
    BY <1>2, <1>5 DEF IInv, TypeOK
  <2> QED BY <1>5, <2>2, <2>3, <2>4, Quiet DEF a_Http_connect_done, IInv
<1> QED BY <1>3, <1>4, <1>5 DEF a_Http_connect_done

LEMMA ConnectTlsKeeps ==
  ASSUME IInv, Http_connect_tls
  PROVE  IInv'
<1>1. stack # <<>> /\ Head(stack).fn = "tls" /\ Head(stack).s \in Socks
  BY HeadTyped, FrameFields DEF Http_connect_tls, Top, IInv
<1>2. sd[Head(stack).s].SockFD \in Fds
  BY <1>1 DEF IInv, Ready
<1>3. TypeOK'
  <2>1. [fd |-> sd[Head(stack).s].SockFD, owner |-> Head(stack).s, connecting |-> TRUE]
          \in [fd : Fds, owner : Socks, connecting : BOOLEAN]
    BY <1>1, <1>2
  <2>2. tls' \subseteq [fd : Fds, owner : Socks, connecting : BOOLEAN]
    <3>1. \/ tls' = tls
          \/ tls' = tls \cup {[fd |-> sd[Head(stack).s].SockFD, owner |-> Head(stack).s,
                               connecting |-> TRUE]}
      BY DEF Http_connect_tls
    <3>2. tls \subseteq [fd : Fds, owner : Socks, connecting : BOOLEAN]
      BY DEF IInv, TypeOK
    <3> QED BY <2>1, <3>1, <3>2
  <2> QED BY <2>2 DEF Http_connect_tls, IInv, TypeOK
<1>4. Frames' /\ SameRuns /\ Ready'
  <2>1. /\ DoneFrame(sd[Head(stack).s].SockFD, FALSE) \in Frame
        /\ DoneFrame(sd[Head(stack).s].SockFD, FALSE).fn = "done"
    BY <1>2, FramesTyped
  <2> QED BY <1>1, <2>1, PopKeeps, SwapKeeps DEF Http_connect_tls
<1> QED BY <1>3, <1>4, Quiet DEF Http_connect_tls, IInv

(* The TLS layer tells http.c, or the user is asked.                       *)
LEMMA FinishKeeps ==
  ASSUME IInv, AtRest, NEW t \in tls, NEW r \in BOOLEAN, Tls_finish(t, r),
         popups' \subseteq Socks, cert' \in [TlsServers -> CertStatus]
  PROVE  IInv'
<1>1. t.fd \in Fds
  BY DEF IInv, TypeOK
<1>2. DoneFrame(t.fd, r) \in Frame /\ DoneFrame(t.fd, r).fn = "done"
  BY <1>1, FramesTyped
<1>3. Frames' /\ SameRuns /\ Ready'
  BY <1>2, StartKeeps DEF Tls_finish
<1>4. [t EXCEPT !.connecting = FALSE] \in [fd : Fds, owner : Socks, connecting : BOOLEAN]
  <2>1. t \in [fd : Fds, owner : Socks, connecting : BOOLEAN]
    BY DEF IInv, TypeOK
  <2> QED BY <2>1
<1>5. TypeOK'
  BY <1>4 DEF Tls_finish, IInv, TypeOK
<1> QED BY <1>3, <1>5, Quiet DEF Tls_finish, IInv

LEMMA TlsKeeps ==
  ASSUME IInv, NEW t \in tls, TlsFails(t) \/ TlsClean(t) \/ TlsDoubt(t)
  PROVE  IInv'
<1>1. CASE TlsFails(t)
  <2>1. cert' \in [TlsServers -> CertStatus] /\ popups' \subseteq Socks
    BY <1>1 DEF TlsFails, Tls_reset_server_state, IInv, TypeOK, CertStatus
  <2> QED BY <1>1, <2>1, FinishKeeps DEF TlsFails
<1>2. CASE TlsClean(t)
  <2>1. cert' \in [TlsServers -> CertStatus] /\ popups' \subseteq Socks
    BY <1>2 DEF TlsClean, IInv, TypeOK, CertStatus
  <2> QED BY <1>2, <2>1, FinishKeeps DEF TlsClean
<1>3. CASE TlsDoubt(t)
  <2>1. TypeOK'
    BY <1>3 DEF TlsDoubt, IInv, TypeOK
  <2>2. SameRuns /\ Frames' /\ Ready'
    BY <1>3, RunsKept DEF TlsDoubt, IInv, Frames, Ready, Asking, Queued, AtRest
  <2> QED BY <1>3, <2>1, <2>2, Quiet DEF TlsDoubt, IInv
<1> QED BY <1>1, <1>2, <1>3

LEMMA UserAnswersKeeps ==
  ASSUME IInv, NEW s \in Socks, NEW r \in BOOLEAN, TlsUserAnswers(s, r)
  PROVE  IInv'
<1>1. cert' \in [TlsServers -> CertStatus] /\ popups' \subseteq Socks /\ AtRest
  BY DEF TlsUserAnswers, IInv, TypeOK, CertStatus
<1>2. ASSUME NEW t \in tls, Tls_finish(t, r) PROVE IInv'
  BY <1>1, <1>2, FinishKeeps
<1>3. CASE UNCHANGED <<sd, ValidSocks, freed, server, fd_map, tls, open, watch, ioFD, webs,
                       chain, waitDns, resolved, stack>>
  <2>1. TypeOK'
    BY <1>1, <1>3 DEF IInv, TypeOK
  <2>2. SameRuns /\ Frames' /\ Ready'
    BY <1>1, <1>3, RunsKept DEF IInv, Frames, Ready, AtRest
  <2> QED BY <1>3, <2>1, <2>2, Quiet DEF IInv
<1> QED BY <1>2, <1>3 DEF TlsUserAnswers

LEMMA CloseKeeps ==
  ASSUME IInv, IO_close_fd
  PROVE  IInv'
<1>1. Frames' /\ SameRuns /\ Ready'
  BY PopKeeps DEF IO_close_fd, Top
<1>2. TypeOK'
  BY DEF IO_close_fd, IInv, TypeOK
<1> QED BY <1>1, <1>2, Quiet DEF IO_close_fd, IInv

(* The end of a request.                                                   *)
LEMMA EndsKeeps ==
  ASSUME IInv, NEW s \in Socks, IoEof(s) \/ (\E b \in IoErrors : IoError(s, b)) \/ Abort(s)
  PROVE  IInv'
<1>1. /\ AtRest /\ chain[s] = "open" /\ ioFD[s] \in Fds \cup {NoFd}
      /\ Ends(s, "ended") \/ Ends(s, "aborted")
      /\ stack' \in {<<FreeFrame(s)>>, <<FreeFrame(s), CloseFrame(ioFD[s])>>}
      /\ open' \in {open, open \ {ioFD[s]}}
      /\ UNCHANGED <<sd, ValidSocks, freed, server, fd_map, cert, tls, popups, watch, webs,
                     waitDns, resolved>>
  BY DEF IoEof, IoError, Abort, Streaming, IInv, TypeOK
<1>2. /\ FreeFrame(s) \in Frame /\ FreeFrame(s).fn = "free"
      /\ CloseFrame(ioFD[s]) \in LowFrame /\ CloseFrame(ioFD[s]).fn = "close"
  BY <1>1, FramesTyped
<1>3. Frames' /\ SameRuns /\ Ready'
  BY <1>1, <1>2, StartKeeps
<1>4. TypeOK'
  BY <1>1 DEF Ends, IInv, TypeOK
<1>5. /\ \A t \in Socks : chain'[t] = "none" <=> chain[t] = "none"
      /\ \A t \in Socks : ioFD'[t] \in {ioFD[t], NoFd}
  BY <1>1 DEF Ends, IInv, TypeOK
<1> QED BY <1>1, <1>3, <1>4, <1>5, Quiet DEF IInv

LEMMA WebCloseKeeps ==
  ASSUME IInv, NEW s \in Socks, WebClose(s)
  PROVE  IInv'
<1>1. TypeOK'
  BY DEF WebClose, IInv, TypeOK
<1>2. SameRuns /\ Frames' /\ Ready'
  BY RunsKept DEF WebClose, IInv, Frames, Ready, AtRest
<1> QED BY <1>1, <1>2, Quiet DEF WebClose, IInv

LEMMA DnsAnswerKeeps ==
  ASSUME IInv, NEW v \in Servers, NEW r \in BOOLEAN, DnsAnswer(v, r)
  PROVE  IInv'
<1>1. AnswerFrame(v, r) \in Frame /\ AnswerFrame(v, r).fn = "answer"
  BY FramesTyped
<1>2. Frames' /\ SameRuns /\ Ready'
  BY <1>1, StartKeeps DEF DnsAnswer
<1>3. TypeOK'
  BY DEF DnsAnswer, IInv, TypeOK
<1> QED BY <1>2, <1>3, Quiet DEF DnsAnswer, IInv

(* Dns_serve_channel: the socket that is called waits no more.             *)
LEMMA ServeKeeps ==
  ASSUME IInv, Dns_serve_channel
  PROVE  IInv'
<1>1. stack # <<>> /\ Head(stack).fn = "answer" /\ Head(stack).success \in BOOLEAN
  BY HeadTyped, FrameFields DEF Dns_serve_channel, Top, IInv
<1>2. waitDns \in Seq(Socks)
  BY DEF IInv, TypeOK
<1>3. CASE stack' = Rest /\ UNCHANGED waitDns
  <2>1. Frames' /\ SameRuns /\ Ready'
    BY <1>1, <1>3, PopKeeps
  <2>2. TypeOK'
    BY <1>3 DEF Dns_serve_channel, IInv, TypeOK
  <2> QED BY <1>3, <2>1, <2>2, Quiet DEF Dns_serve_channel, IInv
<1>4. ASSUME NEW i \in 1 .. Len(waitDns), waitDns' = RemoveAt(waitDns, i),
             stack' = <<DnsFrame(waitDns[i], Head(stack).success)>> \o stack
      PROVE  IInv'
  <2>1. PICK s \in Socks : s = waitDns[i]
    BY <1>2, ElementOfSeq
  <2>2. /\ DnsFrame(s, Head(stack).success) \in Frame
        /\ DnsFrame(s, Head(stack).success).fn = "dns"
        /\ DnsFrame(s, Head(stack).success).s = s
    BY <1>1, FramesTyped
  <2>3. Head(stack) \in LowFrame
    BY <1>1, HeadTyped DEF LowFrame, IInv
  <2>4. Frames' /\ Head(stack') = DnsFrame(s, Head(stack).success) /\ SameRuns
    BY <1>1, <1>4, <2>1, <2>2, <2>3, Pushed DEF IInv
  <2>5. /\ waitDns' \in Seq(Socks) /\ Len(waitDns) \in Nat /\ Len(waitDns') = Len(waitDns) - 1
        /\ \A j \in 1 .. Len(waitDns) - 1 :
             waitDns'[j] = IF j < i THEN waitDns[j] ELSE waitDns[j + 1]
    BY <1>2, <1>4, RemoveAtType
  <2>6. UNCHANGED <<sd, ValidSocks, freed, server, fd_map, cert, tls, popups, open,
                    watch, ioFD, webs, chain, resolved>>
    BY DEF Dns_serve_channel
  <2>7. TypeOK'
    BY <2>5, <2>6 DEF IInv, TypeOK
  <2>8. \A j \in 1 .. Len(waitDns) : Asking(waitDns[j])
    BY DEF IInv, WaitersAgree
  <2>9. \A j \in 1 .. Len(waitDns') : /\ Asking(waitDns'[j])
                                      /\ waitDns'[j] # s
    <3> TAKE j \in 1 .. Len(waitDns')
    <3>1. PICK k \in 1 .. Len(waitDns) : k # i /\ waitDns'[j] = waitDns[k]
      BY <2>5
    <3> QED BY <3>1, <2>1, <2>8 DEF IInv, WaitersAgree
  <2>10. \A x : Asking(x) => Asking(x)'
    BY <2>6 DEF Asking, Queued
  <2>11. WaitersAgree'
    <3>1. \A j, k \in 1 .. Len(waitDns') : waitDns'[j] = waitDns'[k] => j = k
      BY <2>5, SMTT(30) DEF IInv, WaitersAgree
    <3> QED BY <3>1, <2>6, <2>9 DEF WaitersAgree, Asking, Queued
  <2>12. Ready'
    BY <2>1, <2>2, <2>4, <2>8, <2>9, <2>10 DEF Ready
  <2>13. Counted' /\ SlotsUsed'
    BY <2>4, <2>6, CountedKept, SlotsKept DEF IInv
  <2>14. QueuesAgree' /\ SocketsAgree' /\ Unused'
    BY <2>6 DEF IInv, QueuesAgree, SocketsAgree, Unused, Queued
  <2> QED BY <2>4, <2>7, <2>11, <2>12, <2>13, <2>14 DEF IInv
<1> QED BY <1>3, <1>4 DEF Dns_serve_channel, Waiting

-----------------------------------------------------------------------------
(***************************************************************************)
(* Http_socket_free.                                                       *)
(***************************************************************************)
Socket == [srv : Servers \cup {NoServer}, image : BOOLEAN, flags : SUBSET Flags,
           SockFD : Fds \cup {NoFd}, connected_to : Servers \cup {NoServer},
           idx : 0 .. NumAddrs]

ServerData == [live : BOOLEAN, active_conns : Nat, running : Nat, queue : Seq(Socks)]

LEMMA NewTyped == NewSocket \in Socket
BY HttpAssumption DEF NewSocket, Socket

LEMMA DeadTyped ==
  ASSUME TypeOK, NEW s \in Socks
  PROVE  /\ Dead(s) \in Socket /\ Dead(s).flags = {} /\ Dead(s).connected_to = NoServer
         /\ Dead(s).srv = sd[s].srv /\ Dead(s).idx = 0
<1>1. sd[s].srv \in Servers \cup {NoServer}
  BY DEF TypeOK
<1> QED BY <1>1, NewTyped DEF Dead, NewSocket, Socket

LEMMA FiniteConnections ==
  ASSUME TypeOK
  PROVE  \A v : /\ IsFiniteSet(Connections(v)) /\ Cardinality(Connections(v)) \in Nat
                /\ Connections(v) \subseteq Socks
<1>1. \A v : Connections(v) \subseteq Socks
  BY DEF Connections
<1> QED BY <1>1, HttpAssumption, FS_Subset, FS_CardinalityType

LEMMA FreeQueuedKeeps ==
  ASSUME IInv, stack # <<>>, Head(stack).fn = "free", NEW s \in Socks, FreeQueued(s),
         UNCHANGED <<popups, ioFD, webs, chain, waitDns, resolved>>
  PROVE  IInv'
<1>1. Frames' /\ SameRuns /\ Ready'
  BY PopKeeps DEF FreeQueued
<1>2. TypeOK'
  <2>1. sd[s] \in Socket /\ sd \in [Socks -> Socket]
    BY DEF IInv, TypeOK, Socket
  <2>2. [sd[s] EXCEPT !.flags = @ \cup {"TO_BE_FREED"}] \in Socket
    BY <2>1 DEF Socket, Flags
  <2>3. sd' \in [Socks -> Socket]
    BY <2>1, <2>2 DEF FreeQueued
  <2> QED BY <2>3 DEF FreeQueued, IInv, TypeOK, Socket
<1>3. /\ sd'[s].flags = sd[s].flags \cup {"TO_BE_FREED"}
      /\ \A t \in Socks : t # s => sd'[t] = sd[t]
      /\ \A t \in Socks : /\ sd'[t].connected_to = sd[t].connected_to
                          /\ sd'[t].srv = sd[t].srv /\ sd'[t].idx = sd[t].idx
      /\ s \in ValidSocks /\ Queued(s) /\ ValidSocks' = ValidSocks \ {s}
      /\ UNCHANGED <<freed, server, fd_map>>
  BY DEF FreeQueued, IInv, TypeOK, Queued
<1>4. Counted'
  BY <1>1, <1>3, CountedKept DEF IInv
<1>5. QueuesAgree'
  <2>1. \A t \in Socks : "QUEUED" \in sd'[t].flags <=> "QUEUED" \in sd[t].flags
    BY <1>3
  <2>2. \A t \in Socks : Queued(t) => /\ t \notin freed'
                                      /\ t \in ValidSocks' <=> "TO_BE_FREED" \notin sd'[t].flags
    BY <1>3 DEF IInv, QueuesAgree
  <2> QED BY <1>3, <2>1, <2>2, QueuesKept DEF IInv
<1>6. SocketsAgree'
  <2>1. \A t \in Socks : "IOWATCH_ACTIVE" \in sd'[t].flags <=> "IOWATCH_ACTIVE" \in sd[t].flags
    BY <1>3
  <2>2. \A t \in ValidSocks' : t \in ValidSocks /\ t # s /\ t \in Socks /\ sd'[t] = sd[t]
    BY <1>3 DEF IInv, TypeOK
  <2> QED BY <1>3, <2>1, <2>2 DEF IInv, SocketsAgree
<1>7. WaitersAgree'
  <2>1. \A i \in 1 .. Len(waitDns) : waitDns[i] \in Socks /\ waitDns[i] # s
    BY <1>3, ElementOfSeq DEF IInv, TypeOK, WaitersAgree, Asking
  <2> QED BY <1>3, <2>1 DEF IInv, WaitersAgree, Asking, Queued
<1>8. Unused'
  BY <1>3 DEF IInv, Unused
<1>9. SlotsUsed'
  BY <1>1, <1>3, SlotsKept DEF IInv
<1> QED BY <1>1, <1>2, <1>4, <1>5, <1>6, <1>7, <1>8, <1>9 DEF IInv

(* Any other socket: its connection is given up.                           *)
LEMMA Disconnects ==
  ASSUME TypeOK, Counted, NEW v \in Servers, NEW s \in Connections(v),
         sd'[s].connected_to = NoServer,
         \A t \in Socks : t # s => sd'[t].connected_to = sd[t].connected_to
  PROVE  /\ Cardinality(Connections(v)') = Cardinality(Connections(v)) - 1
         /\ server[v].active_conns - 1 \in Nat /\ server[v].live
<1>1. Connections(v)' = Connections(v) \ {s}
  BY HttpAssumption DEF Connections
<1>2. /\ Cardinality(Connections(v) \ {s}) = Cardinality(Connections(v)) - 1
      /\ Cardinality(Connections(v)) \in Nat /\ Cardinality(Connections(v) \ {s}) \in Nat
  BY FiniteConnections, FS_RemoveElement, FS_CardinalityType
<1> QED BY <1>1, <1>2 DEF Counted, CountedAt

LEMMA FreeUnqueuedKeeps ==
  ASSUME IInv, stack # <<>>, Head(stack).fn = "free", NEW s \in Socks, FreeUnqueued(s),
         UNCHANGED <<popups, ioFD, webs, chain, waitDns, resolved>>
  PROVE  IInv'
<1>1. /\ sd'[s] = Dead(s) /\ \A t \in Socks : t # s => sd'[t] = sd[t]
      /\ sd' \in [Socks -> Socket]
      /\ s \in ValidSocks /\ ~Queued(s)
      /\ ValidSocks' = ValidSocks \ {s} /\ freed' = freed \cup {s}
      /\ fd_map' = Http_fd_map_remove_entry(sd[s].SockFD)
  BY DeadTyped DEF FreeUnqueued, IInv, TypeOK, Queued, Socket
<1>2. /\ Dead(s).flags = {} /\ Dead(s).connected_to = NoServer /\ Dead(s).srv = sd[s].srv
  BY DeadTyped DEF IInv
<1>3. \A v \in Servers : server'[v].queue = server[v].queue
  <2>1. CASE UNCHANGED server
    BY <2>1
  <2>2. ASSUME NEW w, server' = [server EXCEPT ![w].active_conns = @ - 1, ![w].running = @ + 1]
        PROVE  \A v \in Servers : server'[v].queue = server[v].queue
    BY <2>2 DEF IInv, TypeOK
  <2> QED BY <2>1, <2>2 DEF FreeUnqueued, GiveBackSlot
<1>4. fd_map' \subseteq fd_map
  BY <1>1 DEF Http_fd_map_remove_entry
<1>5. QueuesAgree'
  <2>1. \A t \in Socks : "QUEUED" \in sd'[t].flags <=> "QUEUED" \in sd[t].flags
    BY <1>1, <1>2 DEF Queued
  <2>2. \A t \in Socks : Queued(t) => /\ sd'[t].connected_to = sd[t].connected_to
                                      /\ t \notin freed'
                                      /\ t \in ValidSocks' <=> "TO_BE_FREED" \notin sd'[t].flags
    BY <1>1 DEF IInv, QueuesAgree
  <2> QED BY <1>3, <2>1, <2>2, QueuesKept DEF IInv
<1>6. SocketsAgree'
  <2>1. \A t \in Socks : "IOWATCH_ACTIVE" \in sd'[t].flags => t # s /\ sd'[t] = sd[t]
    BY <1>1, <1>2
  <2>2. \A t \in ValidSocks' : t \in ValidSocks /\ t \notin freed' /\ t \in Socks /\ sd'[t] = sd[t]
    BY <1>1 DEF IInv, TypeOK, SocketsAgree
  <2> QED BY <1>4, <2>1, <2>2 DEF IInv, SocketsAgree
<1>7. WaitersAgree'
  <2>1. \A i \in 1 .. Len(waitDns) : waitDns[i] \in Socks
    BY ElementOfSeq DEF IInv, TypeOK
  <2> QED BY <1>1, <1>2, <2>1 DEF IInv, WaitersAgree, Asking, Queued
<1>8. Unused'
  BY <1>1, <1>4 DEF IInv, Unused
<1>9. /\ cert' \in [TlsServers -> CertStatus] /\ open' \subseteq Fds /\ watch' \subseteq Fds
      /\ tls' \subseteq tls
  BY DEF FreeUnqueued, Tls_reset_server_state, CertStatus, IInv, TypeOK
<1>10. CASE sd[s].connected_to = NoServer
  <2>1. Frames' /\ SameRuns /\ Ready' /\ UNCHANGED server
    BY <1>10, PopKeeps DEF FreeUnqueued
  <2>2. TypeOK'
    BY <1>1, <1>4, <1>9, <2>1 DEF IInv, TypeOK, Socket
  <2>3. Counted' /\ SlotsUsed'
    BY <1>1, <1>2, <1>10, <2>1, CountedKept, SlotsKept DEF IInv
  <2> QED BY <1>5, <1>6, <1>7, <1>8, <2>1, <2>2, <2>3 DEF IInv
<1>11. ASSUME NEW v \in Servers, v = sd[s].connected_to PROVE IInv'
  <2>1. /\ server' = [server EXCEPT ![v].active_conns = @ - 1, ![v].running = @ + 1]
        /\ stack' = <<QueueFrame(v, 1)>> \o Rest
    BY <1>11, HttpAssumption DEF FreeUnqueued, GiveBackSlot
  <2>2. QueueFrame(v, 1) \in Frame /\ QueueFrame(v, 1).fn = "queue"
        /\ QueueFrame(v, 1).srv = v /\ QueueFrame(v, 1).i = 1
    BY FramesTyped DEF QueueFrame
  <2>3. /\ Frames' /\ Head(stack') = QueueFrame(v, 1)
        /\ Cardinality(Runs(stack', v)) = Cardinality(Runs(stack, v)) + 1
        /\ \A w : w # v => Cardinality(Runs(stack', w)) = Cardinality(Runs(stack, w))
        /\ \A w, ix : w # v => (Covers(stack', w, ix) <=> Covers(stack, w, ix))
        /\ \A ix : Covers(stack', v, ix) <=> \A i \in ix : 1 <= i
    BY <2>1, <2>2, Swapped DEF IInv, IsRun
  <2>4. Ready'
    BY <2>2, <2>3, ReadyOther
  <2>5. /\ Cardinality(Connections(v)') = Cardinality(Connections(v)) - 1
        /\ server[v].active_conns - 1 \in Nat /\ server[v].live
    BY <1>1, <1>2, <1>11, Disconnects DEF Connections, IInv
  <2>6. TypeOK'
    <3>1. server \in [Servers -> ServerData] /\ server[v] \in ServerData
      BY DEF IInv, TypeOK, ServerData
    <3>2. [server[v] EXCEPT !.active_conns = @ - 1, !.running = @ + 1] \in ServerData
      <4>1. server[v].running + 1 \in Nat /\ server[v].active_conns - 1 \in Nat
        BY <2>5, <3>1 DEF ServerData
      <4> QED BY <3>1, <4>1 DEF ServerData
    <3>3. server' \in [Servers -> ServerData]
      BY <2>1, <3>1, <3>2
    <3> QED BY <1>1, <1>4, <1>9, <3>3 DEF IInv, TypeOK, Socket, ServerData
  <2>7. Counted'
    <3>1. CountedAt(v)'
      <4>1. /\ server'[v].active_conns = server[v].active_conns - 1
            /\ server'[v].running = server[v].running + 1
            /\ server'[v].live = server[v].live /\ server[v].active_conns \in Nat
        BY <2>1 DEF IInv, TypeOK
      <4> QED BY <2>3, <2>5, <4>1, HttpAssumption DEF IInv, Counted, CountedAt
    <3>2. ASSUME NEW w \in Servers, w # v PROVE CountedAt(w)'
      <4>1. server'[w] = server[w] /\ w # NoServer
        BY <2>1, <3>2, HttpAssumption DEF IInv, TypeOK
      <4> QED BY <1>1, <1>2, <1>11, <2>3, <3>2, <4>1, CountKept DEF IInv, Counted
    <3> QED BY <3>1, <3>2 DEF Counted
  <2>8. SlotsUsed'
    <3>1. SlotUsed(v)'
      BY <2>3 DEF SlotUsed, Usable
    <3>2. ASSUME NEW w \in Servers \ TlsServers, w # v PROVE SlotUsed(w)'
      <4>1. server'[w] = server[w]
        BY <2>1, <3>2 DEF IInv, TypeOK
      <4> QED BY <1>1, <2>3, <3>2, <4>1, SlotKept DEF IInv, SlotsUsed
    <3> QED BY <3>1, <3>2 DEF SlotsUsed
  <2> QED BY <1>5, <1>6, <1>7, <1>8, <2>3, <2>4, <2>6, <2>7, <2>8 DEF IInv
<1> QED BY <1>10, <1>11 DEF IInv, TypeOK

LEMMA FreeKeeps ==
  ASSUME IInv, Http_socket_free
  PROVE  IInv'
<1>1. stack # <<>> /\ Head(stack).fn = "free" /\ Head(stack).s \in Socks
  BY HeadTyped, FrameFields DEF Http_socket_free, Top, IInv
<1>2. CASE FreeUnknown(Head(stack).s)
  <2>1. Frames' /\ SameRuns /\ Ready'
    BY <1>1, <1>2, PopKeeps DEF FreeUnknown
  <2>2. TypeOK'
    BY <1>2 DEF FreeUnknown, Http_socket_free, IInv, TypeOK
  <2> QED BY <1>2, <2>1, <2>2, Quiet DEF FreeUnknown, Http_socket_free, IInv
<1> QED BY <1>1, <1>2, FreeQueuedKeeps, FreeUnqueuedKeeps DEF Http_socket_free

-----------------------------------------------------------------------------
(***************************************************************************)
(* The turns of a queue run.                                               *)
(***************************************************************************)
LEMMA QueueTurn ==
  ASSUME IInv, Top("queue")
  PROVE  /\ stack # <<>> /\ Head(stack) \in LowFrame /\ Head(stack).fn = "queue"
         /\ QV \in Servers /\ QI \in Nat \ {0}
         /\ IsRun(Head(stack), QV) /\ \A v : v # QV => ~IsRun(Head(stack), v)
         /\ server[QV].running \in Nat \ {0} /\ server[QV].live
         /\ QueueGoesOn => /\ QI \in 1 .. Len(server[QV].queue) /\ QS \in Socks /\ Queued(QS)
                           /\ sd[QS].connected_to = NoServer
                           /\ "IOWATCH_ACTIVE" \notin sd[QS].flags
<1>1. stack # <<>> /\ Head(stack) \in Frame /\ Head(stack).fn = "queue"
  BY HeadTyped DEF IInv, Top
<1>2. QV \in Servers /\ QI \in Nat \ {0} /\ Head(stack) \in LowFrame
  BY <1>1, FrameFields DEF QV, QI, LowFrame
<1>3. IsRun(Head(stack), QV) /\ \A v : v # QV => ~IsRun(Head(stack), v)
  BY <1>1 DEF IsRun, QV
<1>4. server[QV].running \in Nat \ {0} /\ server[QV].live
  <2>1. stack = <<Head(stack)>> \o Rest /\ Rest \in Seq(Frame)
    BY <1>1, StackTop DEF IInv
  <2>2. /\ Cardinality(Runs(Rest, QV)) \in Nat
        /\ Cardinality(Runs(<<Head(stack)>> \o Rest, QV)) = Cardinality(Runs(Rest, QV)) + 1
    BY <1>1, <1>3, <2>1, ConsRuns
  <2>3. Cardinality(Runs(stack, QV)) = Cardinality(Runs(Rest, QV)) + 1
    BY <2>1, <2>2
  <2> QED BY <1>2, <2>2, <2>3 DEF IInv, Counted, CountedAt
<1>5. ASSUME QueueGoesOn
      PROVE  /\ QI \in 1 .. Len(server[QV].queue) /\ QS \in Socks /\ Queued(QS)
             /\ sd[QS].connected_to = NoServer
             /\ "IOWATCH_ACTIVE" \notin sd[QS].flags
  <2>1. Len(server[QV].queue) \in Nat
    BY <1>2, QueueTyped DEF IInv
  <2>2. QI \in 1 .. Len(server[QV].queue)
    BY <1>2, <1>5, <2>1 DEF QueueGoesOn
  <2>3. QS \in Socks /\ Queued(QS)
    BY <1>2, <2>2, QueueTyped DEF QS, IInv, QueuesAgree
  <2> QED BY <2>2, <2>3 DEF IInv, QueuesAgree, SocketsAgree
<1> QED BY <1>1, <1>2, <1>3, <1>4, <1>5

LEMMA HeadCovers ==
  ASSUME Frames, stack # <<>>, NEW v, IsRun(Head(stack), v), NEW ix
  PROVE  Covers(stack, v, ix) <=> \A i \in ix : Head(stack).i <= i
<1>1. /\ stack = <<Head(stack)>> \o Rest
      /\ Head(stack) \in Frame /\ Rest \in Seq(Frame)
  BY StackTop
<1>2. Covers(<<Head(stack)>> \o Rest, v, ix) <=> \A i \in ix : Head(stack).i <= i
  BY <1>1, ConsCovers
<1> QED BY <1>1, <1>2

(* A run has not passed a socket that could take a free slot.              *)
LEMMA NothingBehind ==
  ASSUME IInv, Top("queue"), QV \notin TlsServers, server[QV].active_conns # MaxConns
  PROVE  \A u \in Usable(QV) : QI <= u
<1>1. SlotUsed(QV)
  BY QueueTurn DEF IInv, SlotsUsed
<1>2. CASE Covers(stack, QV, Usable(QV))
  BY <1>2, QueueTurn, HeadCovers DEF IInv, QI
<1> QED BY <1>1, <1>2 DEF SlotUsed

LEMMA EntryTakenOut ==
  \A q \in Seq(Socks) : \A i \in 1 .. Len(q) :
    /\ Len(RemoveAt(q, i)) = Len(q) - 1
    /\ \A j \in 1 .. Len(q) - 1 : RemoveAt(q, i)[j] = IF j < i THEN q[j] ELSE q[j + 1]
BY RemoveAtType

(* The entry of a queue that is taken out is not queued any more.          *)
LEMMA EntryRemoved ==
  ASSUME IInv, NEW v \in Servers, NEW i \in 1 .. Len(server[v].queue), NEW n \in Socks,
         n = server[v].queue[i],
         server'[v].queue = RemoveAt(server[v].queue, i),
         \A w \in Servers : w # v => server'[w].queue = server[w].queue,
         "QUEUED" \notin sd'[n].flags,
         \A t \in Socks : t # n =>
           /\ "QUEUED" \in sd'[t].flags <=> Queued(t)
           /\ Queued(t) => /\ sd'[t] = sd[t] /\ (t \in freed' <=> t \in freed)
                           /\ t \in ValidSocks' <=> t \in ValidSocks
  PROVE  /\ QueuesAgree'
         /\ \A j \in 1 .. Len(server'[v].queue) :
              server'[v].queue[j] = server[v].queue[IF j < i THEN j ELSE j + 1]
         /\ Len(server'[v].queue) = Len(server[v].queue) - 1
<1>1. /\ server[v].queue \in Seq(Socks) /\ Len(server[v].queue) \in Nat
      /\ \A w \in Servers : \A k \in 1 .. Len(server[w].queue) : server[w].queue[k] \in Socks
  BY QueueTyped DEF IInv
<1>2. /\ Len(server'[v].queue) = Len(server[v].queue) - 1
      /\ \A j \in 1 .. Len(server[v].queue) - 1 :
           server'[v].queue[j] = IF j < i THEN server[v].queue[j] ELSE server[v].queue[j + 1]
  <2> DEFINE r == RemoveAt(server[v].queue, i)
  <2>1. /\ Len(r) = Len(server[v].queue) - 1
        /\ \A j \in 1 .. Len(server[v].queue) - 1 :
             r[j] = IF j < i THEN server[v].queue[j] ELSE server[v].queue[j + 1]
    BY <1>1, EntryTakenOut
  <2> HIDE DEF r
  <2>2. server'[v].queue = r
    BY DEF r
  <2> QED BY <2>1, <2>2
<1>3. \A j \in 1 .. Len(server'[v].queue) :
        /\ (IF j < i THEN j ELSE j + 1) \in 1 .. Len(server[v].queue)
        /\ (IF j < i THEN j ELSE j + 1) # i
        /\ server'[v].queue[j] = server[v].queue[IF j < i THEN j ELSE j + 1]
  BY <1>1, <1>2
<1>4. /\ \A k, l \in 1 .. Len(server[v].queue) : server[v].queue[k] = server[v].queue[l] => k = l
      /\ \A x, w \in Servers :
           \A k \in 1 .. Len(server[x].queue), l \in 1 .. Len(server[w].queue) :
             server[x].queue[k] = server[w].queue[l] => x = w
      /\ \A w \in Servers : \A k \in 1 .. Len(server[w].queue) : Queued(server[w].queue[k])
  BY DEF IInv, QueuesAgree
<1>5. \A w \in Servers : \A j \in 1 .. Len(server'[w].queue) :
        \E k \in 1 .. Len(server[w].queue) :
          /\ server'[w].queue[j] = server[w].queue[k]
          /\ server[w].queue[k] # n
  <2> TAKE w \in Servers
  <2>1. CASE w = v
    BY <2>1, <1>3, <1>4, SMTT(30)
  <2>2. CASE w # v
    BY <2>2, <1>4
  <2> QED BY <2>1, <2>2
<1>6. \A w \in Servers : \A j, k \in 1 .. Len(server'[w].queue) :
        server'[w].queue[j] = server'[w].queue[k] => j = k
  <2> TAKE w \in Servers
  <2>1. CASE w = v
    <3> SUFFICES ASSUME NEW j \in 1 .. Len(server'[v].queue), NEW k \in 1 .. Len(server'[v].queue),
                        server'[v].queue[j] = server'[v].queue[k]
                 PROVE  j = k
      BY <2>1
    <3>1. (IF j < i THEN j ELSE j + 1) = (IF k < i THEN k ELSE k + 1)
      <4> DEFINE a == IF j < i THEN j ELSE j + 1
                 b == IF k < i THEN k ELSE k + 1
      <4>1. /\ a \in 1 .. Len(server[v].queue) /\ server'[v].queue[j] = server[v].queue[a]
            /\ b \in 1 .. Len(server[v].queue) /\ server'[v].queue[k] = server[v].queue[b]
        BY <1>3
      <4> HIDE DEF a, b
      <4>2. a = b
        <5>1. server[v].queue[a] = server[v].queue[b]
          BY <4>1
        <5> QED BY <4>1, <5>1, <1>4
      <4> QED BY <4>2 DEF a, b
    <3>2. j \in Nat /\ k \in Nat /\ i \in Nat
      BY <1>1, <1>2
    <3> QED BY <3>1, <3>2
  <2>2. CASE w # v
    BY <2>2, SMTT(30) DEF IInv, QueuesAgree
  <2> QED BY <2>1, <2>2
<1>7. \A x, w \in Servers :
        \A j \in 1 .. Len(server'[x].queue), k \in 1 .. Len(server'[w].queue) :
          server'[x].queue[j] = server'[w].queue[k] => x = w
  BY <1>4, <1>5, SMTT(30)
<1>8. \A w \in Servers : \A j \in 1 .. Len(server'[w].queue) :
        "QUEUED" \in sd'[server'[w].queue[j]].flags
  <2> TAKE w \in Servers
  <2> TAKE j \in 1 .. Len(server'[w].queue)
  <2>1. PICK k \in 1 .. Len(server[w].queue) : /\ server'[w].queue[j] = server[w].queue[k]
                                               /\ server[w].queue[k] # n
    BY <1>5
  <2>2. server[w].queue[k] \in Socks /\ Queued(server[w].queue[k])
    BY <1>1, <1>4
  <2> QED BY <2>1, <2>2
<1>9. ASSUME NEW s \in Socks, "QUEUED" \in sd'[s].flags
      PROVE  /\ \E w \in Servers : \E j \in 1 .. Len(server'[w].queue) : server'[w].queue[j] = s
             /\ s \notin freed' /\ sd'[s].connected_to = NoServer
             /\ s \in ValidSocks' <=> "TO_BE_FREED" \notin sd'[s].flags
  <2>1. s # n /\ Queued(s)
    BY <1>9
  <2>2. PICK w \in Servers : \E k \in 1 .. Len(server[w].queue) : server[w].queue[k] = s
    BY <2>1 DEF IInv, QueuesAgree
  <2>3. PICK k \in 1 .. Len(server[w].queue) : server[w].queue[k] = s
    BY <2>2
  <2>4. \E x \in Servers : \E j \in 1 .. Len(server'[x].queue) : server'[x].queue[j] = s
    <3>1. CASE w = v
      <4> DEFINE j == IF k < i THEN k ELSE k - 1
      <4>1. k # i /\ k \in Nat /\ i \in Nat
        BY <2>1, <2>3, <3>1, <1>1
      <4>2. j \in 1 .. Len(server'[v].queue) /\ (IF j < i THEN j ELSE j + 1) = k
        BY <4>1, <1>1, <1>2, <3>1
      <4>3. server'[v].queue[j] = s
        BY <4>2, <1>3, <2>3, <3>1
      <4> QED BY <4>2, <4>3
    <3>2. CASE w # v
      BY <3>2, <2>3
    <3> QED BY <3>1, <3>2
  <2>5. /\ s \notin freed /\ sd[s].connected_to = NoServer
        /\ s \in ValidSocks <=> "TO_BE_FREED" \notin sd[s].flags
    BY <2>1 DEF IInv, QueuesAgree
  <2> QED BY <2>1, <2>4, <2>5
<1> QED BY <1>2, <1>3, <1>6, <1>7, <1>8, <1>9 DEF QueuesAgree, Queued

(* A queued socket changes.                                                *)
LEMMA QueuedChanges ==
  ASSUME IInv, NEW n \in Socks, Queued(n), \A t \in Socks : t # n => sd'[t] = sd[t],
         "IOWATCH_ACTIVE" \notin sd'[n].flags, sd'[n].srv = sd[n].srv,
         UNCHANGED <<fd_map, ioFD, chain, waitDns>>,
         ValidSocks' \in {ValidSocks, ValidSocks \ {n}},
         n \in ValidSocks' => n \notin freed' /\ "TO_BE_FREED" \notin sd'[n].flags,
         freed' \in {freed, freed \cup {n}}
  PROVE  SocketsAgree' /\ WaitersAgree' /\ Unused' /\ chain[n] # "none"
<1>1. sd[n].connected_to = NoServer
  BY DEF IInv, QueuesAgree
<1>2. chain[n] # "none"
  BY DEF IInv, Unused, Queued, NewSocket
<1>3. \A t \in ValidSocks : t \in Socks
  BY DEF IInv, TypeOK
<1>4. SocketsAgree'
  <2>1. n \in ValidSocks => ioFD[n] = NoFd /\ \A e \in fd_map : e.skey # n
    BY <1>1 DEF IInv, SocketsAgree
  <2> QED BY <1>3, <2>1 DEF IInv, SocketsAgree
<1>5. WaitersAgree'
  <2>1. \A i \in 1 .. Len(waitDns) : waitDns[i] \in Socks /\ waitDns[i] # n
    BY ElementOfSeq DEF IInv, TypeOK, WaitersAgree, Asking
  <2> QED BY <2>1 DEF IInv, WaitersAgree, Asking, Queued
<1>6. Unused'
  BY <1>2, <1>3 DEF IInv, Unused
<1> QED BY <1>2, <1>4, <1>5, <1>6

LEMMA StillAhead ==
  ASSUME IInv, NEW v \in Servers, NEW i \in 1 .. Len(server[v].queue),
         \A j \in 1 .. Len(server'[v].queue) :
           server'[v].queue[j] = server[v].queue[IF j < i THEN j ELSE j + 1],
         Len(server'[v].queue) = Len(server[v].queue) - 1,
         ValidSocks' \subseteq ValidSocks, webs' \subseteq webs,
         \A u \in Usable(v) : i <= u
  PROVE  \A u \in Usable(v)' : i <= u
<1>1. Len(server[v].queue) \in Nat
  BY QueueTyped DEF IInv
<1> SUFFICES ASSUME NEW u \in 1 .. Len(server'[v].queue), u < i,
                    server'[v].queue[u] \in ValidSocks /\ server'[v].queue[u] \in webs
             PROVE  FALSE
  BY <1>1 DEF Usable
<1>2. u \in 1 .. Len(server[v].queue) /\ server'[v].queue[u] = server[v].queue[u]
  BY <1>1
<1> QED BY <1>1, <1>2 DEF Usable

LEMMA OtherSlots ==
  ASSUME IInv, NEW w \in Servers \ TlsServers, server'[w] = server[w],
         ValidSocks' \subseteq ValidSocks, webs' \subseteq webs,
         \A ix : Covers(stack', w, ix) <=> Covers(stack, w, ix)
  PROVE  SlotUsed(w)'
<1>1. \A i \in 1 .. Len(server[w].queue) :
        server[w].queue[i] \in ValidSocks' /\ server[w].queue[i] \in webs'
          => server[w].queue[i] \in ValidSocks /\ server[w].queue[i] \in webs
  OBVIOUS
<1> QED BY <1>1, SlotKept DEF IInv, SlotsUsed

LEMMA ReapKeeps ==
  ASSUME IInv, QueueReap
  PROVE  IInv'
<1>0. PICK v, n, i : v = QV /\ n = QS /\ i = QI
  OBVIOUS
<1>1. /\ stack # <<>> /\ Head(stack) \in LowFrame /\ v \in Servers /\ i \in Nat \ {0}
      /\ IsRun(Head(stack), v)
      /\ i \in 1 .. Len(server[v].queue) /\ n \in Socks /\ Queued(n)
      /\ sd[n].connected_to = NoServer /\ n = server[v].queue[i]
      /\ server[v].active_conns # MaxConns
  BY <1>0, QueueTurn, HttpAssumption DEF QueueReap, QueueGoesOn, QS, IInv, TypeOK
<1>2. /\ server' = [server EXCEPT ![v].queue = RemoveAt(@, i)]
      /\ sd' = [sd EXCEPT ![n] = Dead(n)] /\ freed' = freed \cup {n}
      /\ "TO_BE_FREED" \in sd[n].flags
      /\ UNCHANGED <<ValidSocks, fd_map, cert, tls, popups, open, watch, ioFD, webs,
                     chain, waitDns, resolved, stack>>
  BY <1>0 DEF QueueReap
<1>3. /\ Dead(n) \in Socket /\ Dead(n).flags = {} /\ Dead(n).connected_to = NoServer
      /\ Dead(n).srv = sd[n].srv
  BY <1>1, DeadTyped DEF IInv
<1>4. \A u \in Usable(v) : v \notin TlsServers => i <= u
  BY <1>0, <1>1, NothingBehind DEF QueueReap
<1>5. sd'[n] = Dead(n) /\ (\A t \in Socks : t # n => sd'[t] = sd[t]) /\ sd' \in [Socks -> Socket]
  BY <1>1, <1>2, <1>3 DEF IInv, TypeOK, Socket
<1>6. /\ server'[v].queue = RemoveAt(server[v].queue, i)
      /\ server'[v].active_conns = server[v].active_conns
      /\ server'[v].running = server[v].running /\ server'[v].live = server[v].live
      /\ \A w \in Servers : w # v => server'[w] = server[w]
  BY <1>1, <1>2 DEF IInv, TypeOK
<1>7. /\ QueuesAgree'
      /\ \A j \in 1 .. Len(server'[v].queue) :
           server'[v].queue[j] = server[v].queue[IF j < i THEN j ELSE j + 1]
      /\ Len(server'[v].queue) = Len(server[v].queue) - 1
  <2>1. \A t \in Socks : t # n =>
          /\ "QUEUED" \in sd'[t].flags <=> Queued(t)
          /\ Queued(t) => /\ sd'[t] = sd[t] /\ (t \in freed' <=> t \in freed)
                          /\ t \in ValidSocks' <=> t \in ValidSocks
    BY <1>2, <1>5 DEF Queued
  <2>2. /\ "QUEUED" \notin sd'[n].flags
        /\ \A w \in Servers : w # v => server'[w].queue = server[w].queue
    BY <1>3, <1>5, <1>6
  <2>3. /\ v \in Servers /\ n \in Socks
        /\ i \in 1 .. Len(server[v].queue) /\ n = server[v].queue[i]
        /\ server'[v].queue = RemoveAt(server[v].queue, i)
    BY <1>1, <1>6
  <2> QED BY <2>1, <2>2, <2>3, EntryRemoved
<1>8. TypeOK'
  <2>1. server' \in [Servers -> ServerData]
    <3>1. server[v].queue \in Seq(Socks) /\ server \in [Servers -> ServerData]
      BY <1>1 DEF IInv, TypeOK, ServerData
    <3>2. RemoveAt(server[v].queue, i) \in Seq(Socks)
      BY <1>1, <3>1, RemoveAtType
    <3>3. [server[v] EXCEPT !.queue = RemoveAt(@, i)] \in ServerData
      BY <1>1, <3>1, <3>2 DEF ServerData
    <3> QED BY <1>2, <3>1, <3>3
  <2> QED BY <1>1, <1>2, <1>5, <2>1 DEF IInv, TypeOK, ServerData, Socket
<1>9. SocketsAgree' /\ WaitersAgree' /\ Unused'
  <2>1. n \notin ValidSocks
    BY <1>1, <1>2 DEF IInv, QueuesAgree
  <2> QED BY <1>1, <1>2, <1>3, <1>5, <2>1, QueuedChanges
<1>10. Frames' /\ Ready' /\ SameRuns
  <2>1. stack' # <<>> => Head(stack').fn \notin {"connect", "tls", "dns"}
    BY <1>1, <1>2, LowHead
  <2> QED BY <1>2, <2>1, ReadyOther, RunsKept DEF IInv, Frames
<1>11. Counted'
  <2>1. \A w \in Servers : Connections(w)' = Connections(w)
    BY <1>1, <1>3, <1>5 DEF Connections
  <2> QED BY <1>6, <1>10, <2>1 DEF IInv, Counted, CountedAt, SameRuns
<1>12. SlotsUsed'
  <2> SUFFICES ASSUME NEW w \in Servers \ TlsServers PROVE SlotUsed(w)'
    BY DEF SlotsUsed
  <2>1. CASE w = v
    <3>1. \A u \in Usable(v)' : i <= u
      BY <1>1, <1>2, <1>4, <1>7, <2>1, StillAhead
    <3>2. Covers(stack, v, Usable(v)')
      BY <1>0, <1>1, <3>1, HeadCovers DEF IInv, QI
    <3> QED BY <1>2, <2>1, <3>2 DEF SlotUsed
  <2>2. CASE w # v
    BY <1>2, <1>6, <1>10, <2>2, OtherSlots DEF SameRuns
  <2> QED BY <2>1, <2>2
<1> QED BY <1>7, <1>8, <1>9, <1>10, <1>11, <1>12 DEF IInv

(* The loop passes an entry.                                               *)
LEMMA NextEntryKeeps ==
  ASSUME IInv, Top("queue"), QueueGoesOn, NextEntry, UNCHANGED <<server, webs>>,
         ValidSocks' \subseteq ValidSocks,
         QV \notin TlsServers => QS \notin ValidSocks' \/ QS \notin webs,
         \A t \in Socks : sd'[t].connected_to = sd[t].connected_to
  PROVE  Frames' /\ Ready' /\ Counted' /\ SlotsUsed'
<1> DEFINE f == QueueFrame(QV, QI + 1)
<1>1. /\ stack # <<>> /\ QV \in Servers /\ QI \in Nat \ {0} /\ IsRun(Head(stack), QV)
      /\ \A v : v # QV => ~IsRun(Head(stack), v)
      /\ QI \in 1 .. Len(server[QV].queue) /\ Len(server[QV].queue) \in Nat
      /\ server[QV].active_conns # MaxConns
  BY QueueTurn, QueueTyped, HttpAssumption, SMTT(30) DEF QueueGoesOn, IInv, TypeOK
<1>2. f \in Frame /\ f.i = QI + 1 /\ f.fn = "queue" /\ \A v : IsRun(f, v) <=> v = QV
  BY <1>1, FramesTyped DEF QueueFrame, IsRun
<1>3. stack' = <<f>> \o Rest
  BY DEF NextEntry
<1> HIDE DEF f
<1>4. Frames' /\ Head(stack') = f
  BY <1>1, <1>2, <1>3, Swapped DEF IInv
<1>5. \A v : Cardinality(Runs(stack', v)) = Cardinality(Runs(stack, v))
  BY <1>1, <1>2, <1>3, Swapped DEF IInv
<1>6. /\ \A v, ix : v # QV => (Covers(stack', v, ix) <=> Covers(stack, v, ix))
      /\ \A ix : Covers(stack', QV, ix) <=> \A u \in ix : QI + 1 <= u
  BY <1>1, <1>2, <1>3, Swapped DEF IInv
<1>7. Ready'
  BY <1>2, <1>4, ReadyOther
<1>8. Counted'
  BY <1>5, CountKept DEF IInv, Counted
<1>9. SlotsUsed'
  <2> SUFFICES ASSUME NEW w \in Servers \ TlsServers PROVE SlotUsed(w)'
    BY DEF SlotsUsed
  <2>1. CASE w = QV
    <3>1. \A u \in Usable(QV) : QI <= u
      BY <1>1, <2>1, NothingBehind
    <3>2. \A u \in Usable(w)' : u \in Usable(QV) /\ u # QI /\ u \in Nat
      BY <1>1, <2>1 DEF Usable, QS
    <3>3. Covers(stack', QV, Usable(w)')
      BY <1>1, <1>6, <3>1, <3>2
    <3> QED BY <2>1, <3>3 DEF SlotUsed
  <2>2. CASE w # QV
    BY <1>6, <2>2, OtherSlots
  <2> QED BY <2>1, <2>2
<1> QED BY <1>4, <1>7, <1>8, <1>9

LEMMA SkipKeeps ==
  ASSUME IInv, QueueSkip
  PROVE  IInv'
<1>1. QV \in TlsServers
  BY DEF QueueSkip, a_Tls_connect_ready
<1>2. Frames' /\ Ready' /\ Counted' /\ SlotsUsed'
  BY <1>1, NextEntryKeeps DEF QueueSkip
<1>3. TypeOK'
  BY DEF QueueSkip, IInv, TypeOK
<1>4. QueuesAgree' /\ SocketsAgree' /\ Unused'
  BY DEF QueueSkip, IInv, QueuesAgree, SocketsAgree, Unused, Queued
<1>5. WaitersAgree'
  BY DEF QueueSkip, IInv, WaitersAgree, Asking, Queued
<1> QED BY <1>2, <1>3, <1>4, <1>5 DEF IInv

LEMMA AskedTyped ==
  ASSUME TypeOK, NEW v \in Servers PROVE AskedReady(v) \in [TlsServers -> CertStatus]
BY DEF AskedReady, TypeOK, CertStatus

LEMMA DiscardKeeps ==
  ASSUME IInv, QueueDiscard
  PROVE  IInv'
<1> DEFINE n == QS
<1>1. /\ Top("queue") /\ QueueGoesOn /\ QV \in Servers /\ n \in Socks /\ Queued(n)
      /\ "IOWATCH_ACTIVE" \notin sd[n].flags
      /\ cert' \in [TlsServers -> CertStatus]
      /\ ValidSocks' = ValidSocks \ {n}
      /\ sd' = [sd EXCEPT ![n].flags = @ \cup {"TO_BE_FREED"}]
      /\ NextEntry
      /\ UNCHANGED <<freed, server, fd_map, tls, popups, open, watch, ioFD, webs,
                     chain, waitDns, resolved>>
  BY QueueTurn, AskedTyped DEF QueueDiscard, IInv
<1>2. Frames' /\ Ready' /\ Counted' /\ SlotsUsed'
  <2>1. \A t \in Socks : sd'[t].connected_to = sd[t].connected_to
    BY <1>1 DEF IInv, TypeOK
  <2> QED BY <1>1, <2>1, NextEntryKeeps
<1> HIDE DEF n
<1>3. /\ sd'[n].flags = sd[n].flags \cup {"TO_BE_FREED"} /\ sd'[n].srv = sd[n].srv
      /\ sd'[n].connected_to = sd[n].connected_to
      /\ \A t \in Socks : t # n => sd'[t] = sd[t]
  BY <1>1 DEF IInv, TypeOK
<1>4. TypeOK'
  <2>1. sd[n] \in Socket /\ sd \in [Socks -> Socket]
    BY <1>1 DEF IInv, TypeOK, Socket
  <2>2. [sd[n] EXCEPT !.flags = @ \cup {"TO_BE_FREED"}] \in Socket
    BY <2>1 DEF Socket, Flags
  <2>3. sd' \in [Socks -> Socket]
    BY <1>1, <2>1, <2>2
  <2> QED BY <1>1, <2>3 DEF NextEntry, IInv, TypeOK, Socket
<1>5. QueuesAgree'
  <2>1. \A t \in Socks : "QUEUED" \in sd'[t].flags <=> "QUEUED" \in sd[t].flags
    BY <1>3
  <2>2. \A t \in Socks : Queued(t) => /\ sd'[t].connected_to = sd[t].connected_to
                                      /\ t \notin freed'
                                      /\ t \in ValidSocks' <=> "TO_BE_FREED" \notin sd'[t].flags
    BY <1>1, <1>3 DEF IInv, QueuesAgree
  <2> QED BY <1>1, <2>1, <2>2, QueuesKept DEF IInv
<1>6. SocketsAgree' /\ WaitersAgree' /\ Unused'
  BY <1>1, <1>3, QueuedChanges
<1> QED BY <1>2, <1>4, <1>5, <1>6 DEF IInv

(* A socket gets a connection.                                             *)
LEMMA Connects ==
  ASSUME TypeOK, Counted, NEW v \in Servers, NEW s \in Socks, sd[s].connected_to = NoServer,
         sd'[s].connected_to = v, \A t \in Socks : t # s => sd'[t].connected_to = sd[t].connected_to
  PROVE  /\ Cardinality(Connections(v)') = Cardinality(Connections(v)) + 1
         /\ Cardinality(Connections(v)) \in Nat
         /\ \A w \in Servers : w # v => Connections(w)' = Connections(w)
<1>1. Connections(v)' = Connections(v) \cup {s} /\ s \notin Connections(v)
  BY HttpAssumption DEF Connections
<1>2. \A w \in Servers : w # v => Connections(w)' = Connections(w)
  BY HttpAssumption DEF Connections
<1>3. /\ Cardinality(Connections(v) \cup {s}) = Cardinality(Connections(v)) + 1
      /\ Cardinality(Connections(v)) \in Nat
  BY <1>1, FiniteConnections, FS_AddElement
<1> QED BY <1>1, <1>2, <1>3

LEMMA QueueConnectKeeps ==
  ASSUME IInv, QueueConnect
  PROVE  IInv'
<1>0. PICK v, n, i : v = QV /\ n = QS /\ i = QI
  OBVIOUS
<1>1. /\ stack # <<>> /\ Head(stack) \in LowFrame /\ v \in Servers
      /\ IsRun(Head(stack), v) /\ server[v].live
      /\ i \in 1 .. Len(server[v].queue) /\ n \in Socks /\ Queued(n)
      /\ sd[n].connected_to = NoServer /\ n = server[v].queue[i]
      /\ "IOWATCH_ACTIVE" \notin sd[n].flags
      /\ server[v].active_conns \in Nat /\ server[v].active_conns < MaxConns /\ MaxConns \in Nat
  BY <1>0, QueueTurn, HttpAssumption DEF QueueConnect, QueueGoesOn, QS, IInv, TypeOK
<1>2. /\ server' = [server EXCEPT ![v].queue = RemoveAt(@, i), ![v].active_conns = @ + 1]
      /\ sd' = [sd EXCEPT ![n].flags = @ \ {"QUEUED"}, ![n].connected_to = v]
      /\ stack' = <<ConnectFrame(n)>> \o stack
      /\ "TO_BE_FREED" \notin sd[n].flags
      /\ cert' \in [TlsServers -> CertStatus]
      /\ UNCHANGED <<ValidSocks, freed, fd_map, tls, popups, open, watch, ioFD, webs,
                     chain, waitDns, resolved>>
  BY <1>0, <1>1, AskedTyped DEF QueueConnect, IInv
<1>4. v \notin TlsServers => \A u \in Usable(v) : i <= u
  <2>1. server[v].active_conns # MaxConns
    BY <1>1
  <2>2. Top("queue")
    BY DEF QueueConnect
  <2> QED BY <1>0, <2>1, <2>2, NothingBehind
<1>5. /\ sd'[n].flags = sd[n].flags \ {"QUEUED"} /\ sd'[n].connected_to = v
      /\ sd'[n].srv = sd[n].srv
      /\ \A t \in Socks : t # n => sd'[t] = sd[t]
  <2>1. sd \in [Socks -> Socket] /\ sd[n] \in Socket
    BY <1>1 DEF IInv, TypeOK, Socket
  <2> QED BY <1>1, <1>2, <2>1 DEF Socket
<1>6. /\ server'[v].queue = RemoveAt(server[v].queue, i)
      /\ server'[v].active_conns = server[v].active_conns + 1
      /\ server'[v].running = server[v].running /\ server'[v].live = server[v].live
      /\ \A w \in Servers : w # v => server'[w] = server[w]
  <2>1. server \in [Servers -> ServerData] /\ server[v] \in ServerData
    BY <1>1 DEF IInv, TypeOK, ServerData
  <2> QED BY <1>1, <1>2, <2>1 DEF ServerData
<1>7. /\ QueuesAgree'
      /\ \A j \in 1 .. Len(server'[v].queue) :
           server'[v].queue[j] = server[v].queue[IF j < i THEN j ELSE j + 1]
      /\ Len(server'[v].queue) = Len(server[v].queue) - 1
  <2>1. \A t \in Socks : t # n =>
          /\ "QUEUED" \in sd'[t].flags <=> Queued(t)
          /\ Queued(t) => /\ sd'[t] = sd[t] /\ (t \in freed' <=> t \in freed)
                          /\ t \in ValidSocks' <=> t \in ValidSocks
    BY <1>2, <1>5 DEF Queued
  <2>2. /\ "QUEUED" \notin sd'[n].flags
        /\ \A w \in Servers : w # v => server'[w].queue = server[w].queue
    BY <1>5, <1>6
  <2>3. /\ v \in Servers /\ n \in Socks
        /\ i \in 1 .. Len(server[v].queue) /\ n = server[v].queue[i]
        /\ server'[v].queue = RemoveAt(server[v].queue, i)
    BY <1>1, <1>6
  <2> QED BY <2>1, <2>2, <2>3, EntryRemoved
<1>8. TypeOK'
  <2>1. server' \in [Servers -> ServerData]
    <3>1. server[v].queue \in Seq(Socks) /\ server \in [Servers -> ServerData]
      BY <1>1 DEF IInv, TypeOK, ServerData
    <3>2. RemoveAt(server[v].queue, i) \in Seq(Socks) /\ server[v].active_conns + 1 \in Nat
      BY <1>1, <3>1, RemoveAtType, SMTT(30)
    <3>3. [server[v] EXCEPT !.queue = RemoveAt(@, i), !.active_conns = @ + 1] \in ServerData
      BY <1>1, <3>1, <3>2 DEF ServerData
    <3> QED BY <1>2, <3>1, <3>3
  <2>2. sd' \in [Socks -> Socket]
    <3>1. sd[n] \in Socket /\ sd \in [Socks -> Socket]
      BY <1>1 DEF IInv, TypeOK, Socket
    <3>2. [sd[n] EXCEPT !.flags = @ \ {"QUEUED"}, !.connected_to = v] \in Socket
      BY <1>1, <3>1 DEF Socket, Flags
    <3> QED BY <1>2, <3>1, <3>2
  <2> QED BY <1>1, <1>2, <2>1, <2>2 DEF IInv, TypeOK, ServerData, Socket
<1>9. SocketsAgree' /\ WaitersAgree' /\ Unused'
  <2>1. n \in ValidSocks => n \notin freed
    BY <1>1 DEF IInv, SocketsAgree
  <2>2. "TO_BE_FREED" \notin sd'[n].flags /\ "IOWATCH_ACTIVE" \notin sd'[n].flags
    BY <1>1, <1>2, <1>5
  <2> QED BY <1>1, <1>2, <1>5, <2>1, <2>2, QueuedChanges
<1>10. Frames' /\ Ready' /\ SameRuns
  <2>1. ConnectFrame(n) \in Frame /\ ConnectFrame(n).fn = "connect" /\ ConnectFrame(n).s = n
    BY <1>1, FramesTyped
  <2>2. Frames' /\ Head(stack') = ConnectFrame(n) /\ SameRuns
    BY <1>1, <1>2, <2>1, Pushed DEF IInv
  <2>3. sd'[n].connected_to # NoServer /\ "IOWATCH_ACTIVE" \notin sd'[n].flags
    BY <1>1, <1>5, HttpAssumption
  <2> QED BY <2>1, <2>2, <2>3 DEF Ready
<1>11. Counted'
  <2>1. /\ Cardinality(Connections(v)') = Cardinality(Connections(v)) + 1
        /\ Cardinality(Connections(v)) \in Nat
        /\ \A w \in Servers : w # v => Connections(w)' = Connections(w)
    BY <1>1, <1>5, Connects DEF IInv
  <2>2. CountedAt(v)'
    BY <1>1, <1>6, <1>10, <2>1 DEF IInv, Counted, CountedAt, SameRuns
  <2>3. \A w \in Servers : w # v => CountedAt(w)'
    BY <1>6, <1>10, <2>1 DEF IInv, Counted, CountedAt, SameRuns
  <2> QED BY <2>2, <2>3 DEF Counted
<1>12. SlotsUsed'
  <2> SUFFICES ASSUME NEW w \in Servers \ TlsServers PROVE SlotUsed(w)'
    BY DEF SlotsUsed
  <2>1. CASE w = v
    <3>1. \A u \in Usable(v)' : i <= u
      BY <1>1, <1>2, <1>4, <1>7, <2>1, StillAhead
    <3>2. Covers(stack, v, Usable(v)')
      BY <1>0, <1>1, <3>1, HeadCovers DEF IInv, QI
    <3> QED BY <1>10, <2>1, <3>2 DEF SlotUsed, SameRuns
  <2>2. CASE w # v
    BY <1>2, <1>6, <1>10, <2>2, OtherSlots DEF SameRuns
  <2> QED BY <2>1, <2>2
<1> QED BY <1>7, <1>8, <1>9, <1>10, <1>11, <1>12 DEF IInv

(* The end of a run.                                                       *)
LEMMA RunEnds ==
  ASSUME IInv, Top("queue"), ~QueueGoesOn, stack' = Rest, NEW v, v = QV
  PROVE  /\ Frames' /\ Ready'
         /\ Cardinality(Runs(stack', v)) = server[v].running - 1
         /\ server[v].running - 1 \in Nat
         /\ \A w : w # v => Cardinality(Runs(stack', w)) = Cardinality(Runs(stack, w))
         /\ \A w, ix : w # v => (Covers(stack', w, ix) <=> Covers(stack, w, ix))
         /\ v \notin TlsServers => Usable(v) = {} \/ server[v].active_conns = MaxConns
<1>1. /\ stack # <<>> /\ v \in Servers /\ IsRun(Head(stack), v)
      /\ \A w : w # v => ~IsRun(Head(stack), w)
      /\ server[v].running \in Nat \ {0}
  BY QueueTurn
<1>2. /\ Frames' /\ (stack' # <<>> => Head(stack') \in LowFrame)
      /\ \A w : /\ Cardinality(Runs(stack', w)) \in Nat
                /\ Cardinality(Runs(stack, w)) = Cardinality(Runs(stack', w))
                                                   + IF IsRun(Head(stack), w) THEN 1 ELSE 0
      /\ \A w, ix : ~IsRun(Head(stack), w)
                      => (Covers(stack', w, ix) <=> Covers(stack, w, ix))
  BY <1>1, Popped DEF IInv
<1>3. Ready'
  BY <1>2, LowHead, ReadyOther
<1>4. server[v].running = Cardinality(Runs(stack, v))
  BY <1>1 DEF IInv, Counted, CountedAt
<1>5. /\ Cardinality(Runs(stack', v)) = server[v].running - 1
      /\ server[v].running - 1 \in Nat
  BY <1>1, <1>2, <1>4
<1>6. \A w : w # v => Cardinality(Runs(stack', w)) = Cardinality(Runs(stack, w))
  BY <1>1, <1>2
<1>7. v \notin TlsServers => Usable(v) = {} \/ server[v].active_conns = MaxConns
  <2>1. SUFFICES ASSUME v \notin TlsServers, server[v].active_conns # MaxConns
                 PROVE  Usable(v) = {}
    OBVIOUS
  <2>2. \A u \in Usable(v) : QI <= u
    BY <2>1, NothingBehind
  <2>3. server[v].active_conns < MaxConns
    BY <1>1, <2>1, HttpAssumption DEF IInv, TypeOK, Counted, CountedAt
  <2>4. QI \in Nat /\ Len(server[v].queue) \in Nat /\ QI > Len(server[v].queue)
    BY <1>1, <2>3, QueueTurn, QueueTyped DEF QueueGoesOn, IInv
  <2>5. Usable(v) \subseteq 1 .. Len(server[v].queue)
    BY DEF Usable
  <2> QED BY <2>2, <2>4, <2>5
<1> QED BY <1>1, <1>2, <1>3, <1>5, <1>6, <1>7

LEMMA ServerRemoved ==
  ASSUME IInv, NEW v \in Servers, Http_server_remove(v), server[v].active_conns = 0,
         server[v].running = 1, Cardinality(Runs(stack', v)) = 0,
         \A w : w # v => Cardinality(Runs(stack', w)) = Cardinality(Runs(stack, w)),
         UNCHANGED <<ValidSocks, fd_map, cert, tls, popups, open, watch, ioFD, webs,
                     chain, waitDns, resolved>>
  PROVE  /\ TypeOK' /\ Counted' /\ QueuesAgree' /\ SocketsAgree' /\ WaitersAgree' /\ Unused'
         /\ server'[v].queue = <<>> /\ \A w \in Servers : w # v => server'[w] = server[w]
<1> DEFINE q == Range(server[v].queue)
           marked == {s \in q : "TO_BE_FREED" \in sd[s].flags}
<1>1. /\ server' = [server EXCEPT ![v] = NoServerData]
      /\ freed' = freed \cup marked
      /\ sd' = [s \in Socks |->
                  IF s \in marked THEN Dead(s)
                  ELSE IF s \in q THEN [sd[s] EXCEPT !.flags = @ \ {"QUEUED"}]
                  ELSE sd[s]]
  BY DEF Http_server_remove
<1>2. /\ server'[v] = NoServerData /\ \A w \in Servers : w # v => server'[w] = server[w]
      /\ server \in [Servers -> ServerData]
  BY <1>1 DEF IInv, TypeOK, ServerData
<1>3. q = {server[v].queue[i] : i \in 1 .. Len(server[v].queue)}
  <2>1. server[v].queue \in Seq(Socks)
    BY QueueTyped DEF IInv
  <2> QED BY <2>1 DEF Range
<1>4. \A s \in q : s \in Socks /\ Queued(s) /\ sd[s].connected_to = NoServer
  BY <1>3, QueueTyped DEF IInv, QueuesAgree
<1>5. \A s \in marked : s \in q /\ s \notin ValidSocks /\ s \in Socks
  BY <1>4 DEF IInv, QueuesAgree
<1>6. \A s \in q : chain[s] # "none"
  BY <1>4 DEF IInv, Unused, Queued, NewSocket
<1>7. \A s \in Socks : /\ sd'[s].connected_to = sd[s].connected_to
                       /\ sd'[s].srv = sd[s].srv
                       /\ "QUEUED" \in sd'[s].flags <=> Queued(s) /\ s \notin q
                       /\ s \notin q => sd'[s] = sd[s]
                       /\ s \notin marked => sd'[s].flags \subseteq sd[s].flags
                       /\ s \notin marked => sd'[s].idx = sd[s].idx
                       /\ s \in marked => sd'[s].flags = {}
                       /\ sd'[s] \in Socket
  <2> TAKE s \in Socks
  <2> HIDE DEF q, marked
  <2>1. /\ Dead(s) \in Socket /\ Dead(s).flags = {} /\ Dead(s).connected_to = NoServer
        /\ Dead(s).srv = sd[s].srv /\ sd[s] \in Socket
    BY DeadTyped DEF IInv, TypeOK, Socket
  <2>2. CASE s \in marked
    BY <1>1, <1>4, <1>5, <2>1, <2>2
  <2>3. CASE s \notin marked /\ s \in q
    <3>1. sd'[s] = [sd[s] EXCEPT !.flags = @ \ {"QUEUED"}]
      BY <1>1, <2>3
    <3> QED BY <2>1, <2>3, <3>1 DEF Socket, Flags
  <2>4. CASE s \notin q
    BY <1>1, <1>5, <2>1, <2>4 DEF Queued
  <2> QED BY <2>2, <2>3, <2>4
<1> HIDE DEF marked
<1>8. TypeOK'
  <2>1. server' \in [Servers -> ServerData]
    <3>1. NoServerData \in ServerData
      BY EmptySeq DEF NoServerData, ServerData
    <3> QED BY <1>1, <1>2, <3>1
  <2>2. sd' \in [Socks -> Socket]
    BY <1>1, <1>7
  <2>3. freed' \subseteq Socks
    BY <1>1, <1>5 DEF IInv, TypeOK
  <2> QED BY <2>1, <2>2, <2>3 DEF IInv, TypeOK, Socket, ServerData
<1>9. Counted'
  <2>1. \A w : Connections(w)' = Connections(w)
    BY <1>7 DEF Connections
  <2>2. Connections(v) = {} /\ Cardinality({}) = 0
    <3>1. Cardinality(Connections(v)) = 0
      BY DEF IInv, Counted, CountedAt
    <3> QED BY <3>1, FiniteConnections, FS_EmptySet DEF IInv
  <2>3. CountedAt(v)'
    <3>1. server'[v].running = 0 /\ server'[v].active_conns = 0
      BY <1>2 DEF NoServerData
    <3>2. Connections(v)' = {} /\ 0 <= MaxConns
      BY <2>1, <2>2, HttpAssumption
    <3> QED BY <2>2, <3>1, <3>2 DEF CountedAt
  <2>4. ASSUME NEW w \in Servers, w # v PROVE CountedAt(w)'
    BY <1>2, <1>7, <2>4, CountKept DEF IInv, Counted
  <2> QED BY <2>3, <2>4 DEF Counted
<1>10. QueuesAgree'
  <2>1. server'[v].queue = <<>>
    BY <1>2 DEF NoServerData
  <2>2. \A w \in Servers : \A i \in 1 .. Len(server'[w].queue) :
          w # v /\ server'[w].queue = server[w].queue
    BY <1>2, <2>1
  <2>3. \A w \in Servers : w # v => \A i \in 1 .. Len(server[w].queue) :
                             server[w].queue[i] \notin q /\ server[w].queue[i] \in Socks
    <3> TAKE w \in Servers
    <3> HAVE w # v
    <3> TAKE i \in 1 .. Len(server[w].queue)
    <3>1. server[w].queue[i] \in Socks
      BY QueueTyped DEF IInv
    <3>2. \A k \in 1 .. Len(server[v].queue) : server[v].queue[k] # server[w].queue[i]
      BY DEF IInv, QueuesAgree
    <3> QED BY <1>3, <3>1, <3>2
  <2>4. ASSUME NEW s \in Socks, "QUEUED" \in sd'[s].flags
        PROVE  /\ \E w \in Servers : \E i \in 1 .. Len(server'[w].queue) : server'[w].queue[i] = s
               /\ s \notin freed' /\ sd'[s].connected_to = NoServer
               /\ s \in ValidSocks' <=> "TO_BE_FREED" \notin sd'[s].flags
    <3>1. Queued(s) /\ s \notin q /\ sd'[s] = sd[s]
      BY <1>7, <2>4
    <3>2. /\ s \notin freed /\ sd[s].connected_to = NoServer
          /\ s \in ValidSocks <=> "TO_BE_FREED" \notin sd[s].flags
      BY <3>1 DEF IInv, QueuesAgree
    <3>3. PICK w \in Servers : \E i \in 1 .. Len(server[w].queue) : server[w].queue[i] = s
      BY <3>1 DEF IInv, QueuesAgree
    <3>4. w # v
      BY <1>3, <3>1, <3>3
    <3> QED BY <1>1, <1>2, <1>5, <3>1, <3>2, <3>3, <3>4
  <2>5. \A w \in Servers : \A i, j \in 1 .. Len(server'[w].queue) :
          server'[w].queue[i] = server'[w].queue[j] => i = j
    BY <2>2 DEF IInv, QueuesAgree
  <2>6. \A x, w \in Servers :
          \A i \in 1 .. Len(server'[x].queue), j \in 1 .. Len(server'[w].queue) :
            server'[x].queue[i] = server'[w].queue[j] => x = w
    <3> SUFFICES ASSUME NEW x \in Servers, NEW w \in Servers,
                        NEW i \in 1 .. Len(server'[x].queue), NEW j \in 1 .. Len(server'[w].queue),
                        server'[x].queue[i] = server'[w].queue[j]
                 PROVE  x = w
      OBVIOUS
    <3>1. server'[x].queue = server[x].queue /\ server'[w].queue = server[w].queue
      BY <2>2
    <3> QED BY <3>1 DEF IInv, QueuesAgree
  <2>7. \A w \in Servers : \A i \in 1 .. Len(server'[w].queue) :
          "QUEUED" \in sd'[server'[w].queue[i]].flags
    BY <1>7, <2>2, <2>3 DEF IInv, QueuesAgree
  <2> QED BY <2>4, <2>5, <2>6, <2>7 DEF QueuesAgree, Queued
<1>11. SocketsAgree'
  <2>1. \A s \in ValidSocks : /\ s \in Socks /\ s \notin marked
    BY <1>5 DEF IInv, TypeOK
  <2>2. \A s \in ValidSocks : s \notin freed' /\ "TO_BE_FREED" \notin sd'[s].flags
    BY <1>1, <1>7, <2>1 DEF IInv, SocketsAgree
  <2>3. \A s \in Socks : "IOWATCH_ACTIVE" \in sd'[s].flags =>
                           s \notin marked /\ "IOWATCH_ACTIVE" \in sd[s].flags
    BY <1>7
  <2>4. \A s \in Socks : "IOWATCH_ACTIVE" \in sd'[s].flags =>
                           sd'[s].connected_to # NoServer /\ sd'[s].idx < NumAddrs
    BY <1>7, <2>3 DEF IInv, SocketsAgree
  <2>5. /\ \A s \in ValidSocks : ioFD[s] # NoFd => sd'[s].connected_to # NoServer
        /\ \A e \in fd_map : e.skey \in ValidSocks => sd'[e.skey].connected_to # NoServer
    BY <1>7, <2>1 DEF IInv, SocketsAgree
  <2> QED BY <2>2, <2>4, <2>5 DEF SocketsAgree
<1>12. WaitersAgree'
  <2>1. \A i \in 1 .. Len(waitDns) : waitDns[i] \in Socks
    BY ElementOfSeq DEF IInv, TypeOK
  <2> QED BY <1>7, <2>1 DEF IInv, WaitersAgree, Asking, Queued
<1>13. Unused'
  BY <1>1, <1>5, <1>6, <1>7 DEF IInv, Unused
<1> QED BY <1>2, <1>8, <1>9, <1>10, <1>11, <1>12, <1>13 DEF NoServerData

LEMMA QueueEndKeeps ==
  ASSUME IInv, QueueEnd
  PROVE  IInv'
<1>1. PICK v \in Servers : v = QV
  BY QueueTurn DEF QueueEnd
<1>2. /\ Frames' /\ Ready'
      /\ Cardinality(Runs(stack', v)) = server[v].running - 1
      /\ server[v].running - 1 \in Nat
      /\ \A w : w # v => Cardinality(Runs(stack', w)) = Cardinality(Runs(stack, w))
      /\ \A w, ix : w # v => (Covers(stack', w, ix) <=> Covers(stack, w, ix))
      /\ v \notin TlsServers => Usable(v) = {} \/ server[v].active_conns = MaxConns
  BY <1>1, RunEnds DEF QueueEnd
<1>3. UNCHANGED <<ValidSocks, fd_map, cert, tls, popups, open, watch, ioFD, webs,
                  chain, waitDns, resolved>>
  BY DEF QueueEnd
<1>4. CASE LastRun(v) /\ server[v].active_conns = 0
  <2>1. Http_server_remove(v) /\ server[v].running = 1
    BY <1>1, <1>4 DEF QueueEnd, LastRun
  <2>2. /\ TypeOK' /\ Counted' /\ QueuesAgree' /\ SocketsAgree' /\ WaitersAgree' /\ Unused'
        /\ server'[v].queue = <<>> /\ \A w \in Servers : w # v => server'[w] = server[w]
    BY <1>2, <1>3, <1>4, <2>1, ServerRemoved
  <2>3. SlotsUsed'
    <3> SUFFICES ASSUME NEW w \in Servers \ TlsServers PROVE SlotUsed(w)'
      BY DEF SlotsUsed
    <3>1. CASE w = v
      BY <2>2, <3>1 DEF SlotUsed, Usable
    <3>2. CASE w # v
      BY <1>2, <1>3, <2>2, <3>2, OtherSlots
    <3> QED BY <3>1, <3>2
  <2> QED BY <1>2, <2>2, <2>3 DEF IInv
<1>5. CASE ~(LastRun(v) /\ server[v].active_conns = 0)
  <2>1. server' = [server EXCEPT ![v].running = @ - 1] /\ UNCHANGED <<freed, sd>>
    BY <1>1, <1>5 DEF QueueEnd
  <2>2. /\ server'[v].running = server[v].running - 1
        /\ server'[v].queue = server[v].queue /\ server'[v].live = server[v].live
        /\ server'[v].active_conns = server[v].active_conns
        /\ \A w \in Servers : w # v => server'[w] = server[w]
    BY <2>1 DEF IInv, TypeOK
  <2>3. TypeOK'
    <3>1. server \in [Servers -> ServerData] /\ server[v] \in ServerData
      BY DEF IInv, TypeOK, ServerData
    <3>2. [server[v] EXCEPT !.running = @ - 1] \in ServerData
      BY <1>2, <3>1 DEF ServerData
    <3>3. server' \in [Servers -> ServerData]
      BY <2>1, <3>1, <3>2
    <3> QED BY <1>3, <2>1, <3>3 DEF IInv, TypeOK, ServerData
  <2>4. Counted'
    <3>1. \A w : Connections(w)' = Connections(w)
      BY <2>1 DEF Connections
    <3>2. CountedAt(v)'
      BY <1>2, <2>2, <3>1 DEF IInv, Counted, CountedAt
    <3>3. \A w \in Servers : w # v => CountedAt(w)'
      BY <1>2, <2>2, <3>1 DEF IInv, Counted, CountedAt
    <3> QED BY <3>2, <3>3 DEF Counted
  <2>5. \A w \in Servers : server'[w].queue = server[w].queue
    BY <2>2
  <2>6. QueuesAgree' /\ SocketsAgree' /\ Unused' /\ WaitersAgree'
    <3>1. QueuesAgree'
      BY <1>3, <2>1, <2>5, QueuesKept DEF IInv, QueuesAgree, Queued
    <3>2. SocketsAgree' /\ Unused'
      BY <1>3, <2>1 DEF IInv, SocketsAgree, Unused
    <3>3. WaitersAgree'
      BY <1>3, <2>1 DEF IInv, WaitersAgree, Asking, Queued
    <3> QED BY <3>1, <3>2, <3>3
  <2>7. SlotsUsed'
    <3> SUFFICES ASSUME NEW w \in Servers \ TlsServers PROVE SlotUsed(w)'
      BY DEF SlotsUsed
    <3>1. CASE w = v
      BY <1>2, <1>3, <2>2, <3>1 DEF SlotUsed, Usable
    <3>2. CASE w # v
      BY <1>2, <1>3, <2>2, <3>2, OtherSlots
    <3> QED BY <3>1, <3>2
  <2> QED BY <1>2, <2>3, <2>4, <2>6, <2>7 DEF IInv
<1> QED BY <1>4, <1>5

-----------------------------------------------------------------------------
(***************************************************************************)
(* connect().                                                              *)
(***************************************************************************)
LEMMA ConnectedChanges ==
  ASSUME IInv, SameRuns, NEW c \in Socks, sd[c].connected_to # NoServer,
         \A t \in Socks : t # c => sd'[t] = sd[t],
         sd'[c].connected_to = sd[c].connected_to, sd'[c].srv = sd[c].srv,
         "QUEUED" \in sd'[c].flags <=> Queued(c),
         "TO_BE_FREED" \in sd'[c].flags <=> "TO_BE_FREED" \in sd[c].flags,
         "IOWATCH_ACTIVE" \in sd'[c].flags => sd'[c].idx < NumAddrs,
         UNCHANGED <<ValidSocks, freed, server, ioFD, webs, chain, waitDns>>,
         \A e \in fd_map' : e \in fd_map \/ e.skey = c
  PROVE  Counted' /\ QueuesAgree' /\ SocketsAgree' /\ WaitersAgree' /\ Unused' /\ SlotsUsed'
<1>1. \A t \in Socks : sd'[t].connected_to = sd[t].connected_to /\ sd'[t].srv = sd[t].srv
  OBVIOUS
<1>2. Counted'
  BY <1>1, CountedKept DEF IInv
<1>3. \A t \in Socks : /\ "QUEUED" \in sd'[t].flags <=> "QUEUED" \in sd[t].flags
                       /\ "TO_BE_FREED" \in sd'[t].flags <=> "TO_BE_FREED" \in sd[t].flags
  BY DEF Queued
<1>4. QueuesAgree'
  BY <1>1, <1>3, QueuesKept DEF IInv, QueuesAgree, Queued
<1>5. SocketsAgree'
  <2>1. \A s \in ValidSocks : s \in Socks
    BY DEF IInv, TypeOK
  <2>2. \A s \in ValidSocks' : s \notin freed' /\ "TO_BE_FREED" \notin sd'[s].flags
    BY <1>3, <2>1 DEF IInv, SocketsAgree
  <2>3. \A s \in Socks : "IOWATCH_ACTIVE" \in sd'[s].flags =>
                           sd'[s].connected_to # NoServer /\ sd'[s].idx < NumAddrs
    BY DEF IInv, SocketsAgree
  <2>4. \A s \in ValidSocks' : ioFD'[s] # NoFd => sd'[s].connected_to # NoServer
    BY <1>1, <2>1 DEF IInv, SocketsAgree
  <2>5. \A e \in fd_map' : e.skey \in ValidSocks' => sd'[e.skey].connected_to # NoServer
    BY <1>1, <2>1 DEF IInv, SocketsAgree
  <2> QED BY <2>2, <2>3, <2>4, <2>5 DEF SocketsAgree
<1>6. WaitersAgree'
  <2>1. \A i \in 1 .. Len(waitDns) : waitDns[i] \in Socks
    BY ElementOfSeq DEF IInv, TypeOK
  <2> QED BY <1>1, <1>3, <2>1 DEF IInv, WaitersAgree, Asking, Queued
<1>7. Unused'
  <2>1. chain[c] # "none"
    BY DEF IInv, Unused, NewSocket
  <2> QED BY <2>1 DEF IInv, Unused
<1>8. SlotsUsed'
  BY SlotsKept DEF IInv
<1> QED BY <1>2, <1>4, <1>5, <1>6, <1>7, <1>8

LEMMA ConnectHead ==
  ASSUME IInv, Top("connect")
  PROVE  /\ stack # <<>> /\ Head(stack).fn = "connect" /\ CS \in Socks
         /\ sd[CS].connected_to # NoServer /\ "IOWATCH_ACTIVE" \notin sd[CS].flags
         /\ sd[CS] \in Socket /\ sd[CS].idx \in 0 .. NumAddrs
<1>1. stack # <<>> /\ Head(stack).fn = "connect" /\ Head(stack).s \in Socks
  BY HeadTyped, FrameFields DEF Top, IInv
<1> QED BY <1>1 DEF CS, IInv, TypeOK, Ready, Socket

LEMMA ConnectNoSocketKeeps ==
  ASSUME IInv, ConnectNoSocket
  PROVE  IInv'
<1>1. PICK c : c = CS
  OBVIOUS
<1>2. /\ stack # <<>> /\ c \in Socks /\ sd[c].connected_to # NoServer
      /\ "IOWATCH_ACTIVE" \notin sd[c].flags
      /\ sd[c] \in Socket /\ sd[c].idx \in Nat /\ sd[c].idx < NumAddrs /\ NumAddrs \in Nat
  BY <1>1, ConnectHead, HttpAssumption DEF ConnectNoSocket, MoreAddrs
<1>3. /\ sd' = [sd EXCEPT ![c].SockFD = NoFd, ![c].idx = @ + 1]
      /\ fd_map' \subseteq fd_map /\ open' \subseteq open
      /\ UNCHANGED <<ValidSocks, freed, server, cert, tls, popups, watch, ioFD, webs,
                     chain, waitDns, resolved, stack>>
  BY <1>1 DEF ConnectNoSocket, FdMapWithoutStale
<1>4. /\ sd'[c].connected_to = sd[c].connected_to /\ sd'[c].srv = sd[c].srv
      /\ sd'[c].flags = sd[c].flags
      /\ \A t \in Socks : t # c => sd'[t] = sd[t]
  BY <1>2, <1>3 DEF IInv, TypeOK
<1>5. Counted' /\ QueuesAgree' /\ SocketsAgree' /\ WaitersAgree' /\ Unused' /\ SlotsUsed'
  BY <1>2, <1>3, <1>4, RunsKept, ConnectedChanges DEF Queued
<1>6. TypeOK'
  <2>1. sd[c].idx + 1 \in 0 .. NumAddrs
    BY <1>2
  <2>2. [sd[c] EXCEPT !.SockFD = NoFd, !.idx = @ + 1] \in Socket
    BY <1>2, <2>1 DEF Socket
  <2>3. sd' \in [Socks -> Socket]
    BY <1>2, <1>3, <2>2 DEF IInv, TypeOK, Socket
  <2> QED BY <1>3, <2>3 DEF IInv, TypeOK, Socket
<1>7. Frames' /\ Ready'
  <2>1. Head(stack) \in Frame /\ Head(stack).fn = "connect" /\ Head(stack).s = c
    BY <1>1, <1>2, ConnectHead, HeadTyped DEF IInv, ConnectNoSocket, CS
  <2> QED BY <1>2, <1>3, <1>4, <2>1 DEF IInv, Frames, Ready
<1> QED BY <1>5, <1>6, <1>7 DEF IInv

LEMMA ConnectedTyped ==
  ASSUME NEW s \in Socks, NEW fd \in Fds
  PROVE  /\ Connected(s, fd) \in Frame
         /\ \/ Connected(s, fd).fn = "done"
            \/ Connected(s, fd).fn = "tls" /\ Connected(s, fd).s = s
<1>1. CASE sd[s].srv \in TlsServers
  BY <1>1, FramesTyped DEF Connected
<1>2. CASE sd[s].srv \notin TlsServers
  <2>1. Connected(s, fd) = DoneFrame(fd, TRUE)
    BY <1>2 DEF Connected
  <2>2. fd \in Fds \cup {NoFd}
    OBVIOUS
  <2>3. DoneFrame(fd, TRUE) \in Frame /\ DoneFrame(fd, TRUE).fn = "done"
    BY <2>2, FramesTyped
  <2> QED BY <2>1, <2>3
<1> QED BY <1>1, <1>2

LEMMA ConnectAddrKeeps ==
  ASSUME IInv, NEW fd \in Fds, NEW result \in {"pending", "connected", "error"},
         ConnectAddr(fd, result)
  PROVE  IInv'
<1>1. PICK c : c = CS
  OBVIOUS
<1>2. /\ stack # <<>> /\ c \in Socks /\ sd[c].connected_to # NoServer
      /\ "IOWATCH_ACTIVE" \notin sd[c].flags /\ Head(stack).fn = "connect"
      /\ sd[c] \in Socket /\ sd[c].idx \in Nat /\ sd[c].idx < NumAddrs /\ NumAddrs \in Nat
      /\ sd \in [Socks -> Socket]
  BY <1>1, ConnectHead, HttpAssumption DEF ConnectAddr, MoreAddrs, IInv, TypeOK, Socket
<1>3. /\ open' \subseteq open \cup {fd}
      /\ fd_map' \subseteq fd_map \cup {[fd |-> fd, skey |-> c]}
      /\ watch' \subseteq watch \cup {fd}
      /\ UNCHANGED <<ValidSocks, freed, server, cert, tls, popups, ioFD, webs, chain,
                     waitDns, resolved>>
  BY <1>1 DEF ConnectAddr, FdMapWithoutStale
<1>4. \A e \in fd_map' : e \in fd_map \/ e.skey = c
  BY <1>3
<1>5. ASSUME NEW flags, flags \in {sd[c].flags, sd[c].flags \cup {"IOWATCH_ACTIVE"}},
             NEW idx \in {sd[c].idx, sd[c].idx + 1},
             "IOWATCH_ACTIVE" \in flags => idx = sd[c].idx,
             sd' = [sd EXCEPT ![c] = [sd[c] EXCEPT !.SockFD = fd, !.flags = flags, !.idx = idx]],
             SameRuns, Frames', Ready'
      PROVE  IInv'
  <2>1. /\ sd'[c].connected_to = sd[c].connected_to /\ sd'[c].srv = sd[c].srv
        /\ sd'[c].flags = flags /\ sd'[c].idx = idx
        /\ \A t \in Socks : t # c => sd'[t] = sd[t]
    BY <1>2, <1>5 DEF Socket
  <2>2. Counted' /\ QueuesAgree' /\ SocketsAgree' /\ WaitersAgree' /\ Unused' /\ SlotsUsed'
    BY <1>2, <1>3, <1>4, <1>5, <2>1, ConnectedChanges DEF Queued
  <2>3. sd' \in [Socks -> Socket]
    <3>1. idx \in 0 .. NumAddrs /\ flags \in SUBSET Flags
      BY <1>2, <1>5 DEF Socket, Flags
    <3>2. [sd[c] EXCEPT !.SockFD = fd, !.flags = flags, !.idx = idx] \in Socket
      BY <1>2, <3>1 DEF Socket
    <3> QED BY <1>2, <1>5, <3>2
  <2>4. fd_map' \subseteq [fd : Fds \cup {NoFd}, skey : Socks]
    <3>1. [fd |-> fd, skey |-> c] \in [fd : Fds \cup {NoFd}, skey : Socks]
      BY <1>2
    <3> QED BY <1>3, <3>1 DEF IInv, TypeOK
  <2> QED BY <1>3, <1>5, <2>2, <2>3, <2>4 DEF IInv, TypeOK, Socket
<1>6. CASE result = "pending"
  <2>1. /\ sd' = [sd EXCEPT ![c].SockFD = fd, ![c].flags = @ \cup {"IOWATCH_ACTIVE"}]
        /\ stack' = Rest
    BY <1>1, <1>6 DEF ConnectAddr
  <2>2. Frames' /\ SameRuns /\ Ready'
    BY <1>2, <2>1, PopKeeps
  <2>3. sd' = [sd EXCEPT ![c] = [sd[c] EXCEPT !.SockFD = fd,
                                   !.flags = sd[c].flags \cup {"IOWATCH_ACTIVE"}, !.idx = sd[c].idx]]
    BY <1>2, <2>1 DEF Socket
  <2> QED BY <1>5, <2>2, <2>3
<1>7. CASE result = "connected"
  <2>1. /\ sd' = [sd EXCEPT ![c].SockFD = fd]
        /\ stack' = <<Connected(c, fd)>> \o Rest
    BY <1>1, <1>7 DEF ConnectAddr
  <2>2. /\ Connected(c, fd) \in Frame
        /\ \/ Connected(c, fd).fn = "done"
           \/ Connected(c, fd).fn = "tls" /\ Connected(c, fd).s = c
    BY <1>2, ConnectedTyped
  <2>3. Frames' /\ SameRuns /\ Head(stack') = Connected(c, fd)
    BY <1>2, <2>1, <2>2, Swapped DEF IInv
  <2>4. Ready'
    <3>1. sd'[c].SockFD = fd
      BY <1>2, <2>1 DEF Socket
    <3> QED BY <2>2, <2>3, <3>1 DEF Ready
  <2>5. sd' = [sd EXCEPT ![c] = [sd[c] EXCEPT !.SockFD = fd, !.flags = sd[c].flags,
                                              !.idx = sd[c].idx]]
    BY <1>2, <2>1 DEF Socket
  <2> QED BY <1>2, <1>5, <2>3, <2>4, <2>5
<1>8. CASE result = "error"
  <2>1. sd' = [sd EXCEPT ![c].SockFD = fd, ![c].idx = @ + 1] /\ UNCHANGED stack
    BY <1>1, <1>8 DEF ConnectAddr
  <2>2. SameRuns /\ Frames'
    BY <2>1, RunsKept DEF IInv, Frames
  <2>3. Ready'
    <3>1. sd'[c].connected_to = sd[c].connected_to /\ sd'[c].flags = sd[c].flags
      BY <1>2, <2>1 DEF Socket
    <3> QED BY <1>1, <1>2, <2>1, <3>1 DEF Ready, CS
  <2>4. sd' = [sd EXCEPT ![c] = [sd[c] EXCEPT !.SockFD = fd, !.flags = sd[c].flags,
                                              !.idx = sd[c].idx + 1]]
    BY <1>2, <2>1 DEF Socket
  <2> QED BY <1>2, <1>5, <2>2, <2>3, <2>4
<1> QED BY <1>6, <1>7, <1>8

LEMMA SocketCbKeeps ==
  ASSUME IInv, NEW s \in Socks, NEW success \in BOOLEAN, Http_connect_socket_cb(s, success)
  PROVE  IInv'
<1>1. /\ stack = <<>> /\ sd[s].SockFD \in Fds /\ sd[s].connected_to # NoServer
      /\ sd[s].idx < NumAddrs /\ sd[s].idx \in Nat /\ NumAddrs \in Nat
      /\ sd[s] \in Socket /\ sd \in [Socks -> Socket]
  BY HttpAssumption DEF Http_connect_socket_cb, AtRest, IInv, TypeOK, SocketsAgree, Socket
<1>2. /\ watch' \subseteq watch
      /\ sd' = [sd EXCEPT ![s].flags = @ \ {"IOWATCH_ACTIVE"},
                          ![s].idx = IF success THEN @ ELSE @ + 1]
      /\ stack' = <<IF success THEN Connected(s, sd[s].SockFD) ELSE ConnectFrame(s)>>
      /\ UNCHANGED <<ValidSocks, freed, server, fd_map, cert, tls, popups, open, ioFD,
                     webs, chain, waitDns, resolved>>
  BY DEF Http_connect_socket_cb
<1>3. /\ sd'[s].connected_to = sd[s].connected_to /\ sd'[s].srv = sd[s].srv
      /\ sd'[s].flags = sd[s].flags \ {"IOWATCH_ACTIVE"} /\ sd'[s].SockFD = sd[s].SockFD
      /\ \A t \in Socks : t # s => sd'[t] = sd[t]
  BY <1>1, <1>2 DEF Socket
<1>4. Frames' /\ SameRuns /\ Ready'
  <2>1. PICK f \in Frame : /\ stack' = <<f>> /\ f.fn # "queue"
                           /\ \/ f.fn = "done"
                              \/ f.fn \in {"tls", "connect"} /\ f.s = s
    BY <1>1, <1>2, ConnectedTyped, FramesTyped
  <2>2. Frames' /\ Head(stack') = f /\ SameRuns
    BY <1>1, <2>1, Started
  <2>3. Ready'
    BY <1>1, <1>3, <2>1, <2>2 DEF Ready
  <2> QED BY <2>2, <2>3
<1>5. Counted' /\ QueuesAgree' /\ SocketsAgree' /\ WaitersAgree' /\ Unused' /\ SlotsUsed'
  BY <1>1, <1>2, <1>3, <1>4, ConnectedChanges DEF Queued
<1>6. TypeOK'
  <2>1. (IF success THEN sd[s].idx ELSE sd[s].idx + 1) \in 0 .. NumAddrs
    BY <1>1
  <2>2. [sd[s] EXCEPT !.flags = @ \ {"IOWATCH_ACTIVE"},
                      !.idx = IF success THEN @ ELSE @ + 1] \in Socket
    BY <1>1, <2>1 DEF Socket, Flags
  <2>3. sd' \in [Socks -> Socket]
    BY <1>1, <1>2, <2>2
  <2> QED BY <1>2, <2>3 DEF IInv, TypeOK, Socket
<1> QED BY <1>4, <1>5, <1>6 DEF IInv

-----------------------------------------------------------------------------
(***************************************************************************)
(* A request starts, and Http_dns_cb.                                      *)
(***************************************************************************)
LEMMA GetKeeps ==
  ASSUME IInv, NEW s \in Socks, NEW v \in Servers, NEW image \in BOOLEAN, Http_get(s, v, image)
  PROVE  IInv'
<1>1. /\ stack = <<>> /\ chain[s] = "none" /\ sd[s] = NewSocket
      /\ s \notin ValidSocks /\ s \notin freed /\ ioFD[s] = NoFd
      /\ \A e \in fd_map : e.skey # s
      /\ sd \in [Socks -> Socket] /\ chain \in [Socks -> {"none", "open", "ended", "aborted"}]
      /\ waitDns \in Seq(Socks)
  BY DEF Http_get, AtRest, IInv, Unused, TypeOK, Socket
<1>2. /\ sd' = [sd EXCEPT ![s].srv = v, ![s].image = image]
      /\ ValidSocks' = ValidSocks \cup {s} /\ webs' = webs \cup {s}
      /\ chain' = [chain EXCEPT ![s] = "open"]
      /\ UNCHANGED <<freed, server, fd_map, cert, tls, popups, open, watch, ioFD, resolved>>
  BY DEF Http_get
<1>3. /\ sd'[s].srv = v /\ sd'[s].flags = {} /\ sd'[s].connected_to = NoServer
      /\ \A t \in Socks : t # s => sd'[t] = sd[t]
      /\ chain'[s] = "open" /\ \A t \in Socks : t # s => chain'[t] = chain[t]
      /\ NewSocket.flags = {} /\ NewSocket.connected_to = NoServer
  BY <1>1, <1>2 DEF Socket, NewSocket
<1>4. \A i \in 1 .. Len(waitDns) : waitDns[i] \in Socks /\ Asking(waitDns[i]) /\ waitDns[i] # s
  BY <1>1, ElementOfSeq DEF IInv, WaitersAgree, Asking
<1>5. \A t \in Socks : t # s => (Asking(t) => Asking(t)')
  BY <1>3 DEF Asking, Queued
<1>6. Asking(s)'
  BY <1>3 DEF Asking, Queued
<1>7. /\ waitDns' \in Seq(Socks) /\ WaitersAgree'
      /\ stack' = <<>> \/ (stack' = <<DnsFrame(s, TRUE)>> /\ UNCHANGED waitDns)
  <2>1. CASE stack' = <<DnsFrame(s, TRUE)>> /\ UNCHANGED waitDns
    BY <1>1, <1>4, <1>5, <2>1 DEF IInv, WaitersAgree
  <2>2. CASE waitDns' = Append(waitDns, s) /\ UNCHANGED stack
    <3>1. /\ waitDns' \in Seq(Socks) /\ Len(waitDns') = Len(waitDns) + 1 /\ Len(waitDns) \in Nat
          /\ \A i \in 1 .. Len(waitDns) : waitDns'[i] = waitDns[i]
          /\ waitDns'[Len(waitDns) + 1] = s
      BY <1>1, <2>2, AppendProperties, LenProperties
    <3>2. \A i \in 1 .. Len(waitDns') : i \in 1 .. Len(waitDns) \/ waitDns'[i] = s
      BY <3>1
    <3>3. \A i \in 1 .. Len(waitDns') : waitDns'[i] = s => i = Len(waitDns) + 1
      BY <1>4, <3>1
    <3>4. \A i \in 1 .. Len(waitDns') : \E t \in Socks : waitDns'[i] = t /\ Asking(t)'
      <4> TAKE i \in 1 .. Len(waitDns')
      <4>1. CASE waitDns'[i] = s
        BY <1>6, <4>1
      <4>2. CASE i \in 1 .. Len(waitDns)
        <5>1. PICK t \in Socks : t = waitDns[i] /\ Asking(t) /\ t # s
          BY <1>4, <4>2
        <5>2. waitDns'[i] = t /\ Asking(t)'
          BY <1>5, <3>1, <4>2, <5>1
        <5> QED BY <5>2
      <4> QED BY <3>2, <4>1, <4>2
    <3>5. \A i, j \in 1 .. Len(waitDns') : waitDns'[i] = waitDns'[j] => i = j
      BY <3>1, <3>2, <3>3 DEF IInv, WaitersAgree
    <3>6. WaitersAgree'
      BY <3>4, <3>5 DEF WaitersAgree, Asking, Queued
    <3> QED BY <1>1, <2>2, <3>1, <3>6
  <2> QED BY <2>1, <2>2 DEF Http_get
<1>8. Frames' /\ SameRuns /\ Ready'
  <2>1. CASE stack' = <<>>
    BY <1>1, <2>1, RunsKept DEF IInv, Frames, Ready
  <2>2. CASE stack' = <<DnsFrame(s, TRUE)>> /\ UNCHANGED waitDns
    <3>1. /\ DnsFrame(s, TRUE) \in Frame /\ DnsFrame(s, TRUE).fn = "dns"
          /\ DnsFrame(s, TRUE).s = s
      BY FramesTyped
    <3>2. Frames' /\ Head(stack') = DnsFrame(s, TRUE) /\ SameRuns
      BY <1>1, <2>2, <3>1, Started
    <3>3. Ready'
      BY <1>4, <1>6, <2>2, <3>1, <3>2 DEF Ready, Asking, Queued
    <3> QED BY <3>2, <3>3
  <2> QED BY <1>7, <2>1, <2>2
<1>9. TypeOK'
  <2>1. [sd[s] EXCEPT !.srv = v, !.image = image] \in Socket
    <3>1. sd[s] \in Socket
      BY <1>1
    <3> QED BY <3>1 DEF Socket
  <2>2. sd' \in [Socks -> Socket]
    BY <1>1, <1>2, <2>1
  <2> QED BY <1>1, <1>2, <1>7, <2>2 DEF IInv, TypeOK, Socket
<1>10. Counted'
  BY <1>1, <1>2, <1>3, <1>8, CountedKept DEF IInv
<1>11. ~Queued(s)
  BY <1>1, <1>3 DEF Queued
<1>12. QueuesAgree'
  <2>1. \A t \in Socks : "QUEUED" \in sd'[t].flags <=> "QUEUED" \in sd[t].flags
    BY <1>3, <1>11 DEF Queued
  <2>2. \A t \in Socks : Queued(t) => t # s /\ t \notin freed'
                                      /\ (t \in ValidSocks' <=> "TO_BE_FREED" \notin sd'[t].flags)
    BY <1>2, <1>3, <1>11 DEF IInv, QueuesAgree
  <2> QED BY <1>2, <1>3, <2>1, <2>2, QueuesKept DEF IInv
<1>13. SocketsAgree'
  <2>1. \A t \in ValidSocks : t \in Socks /\ t # s
    BY <1>1 DEF IInv, TypeOK
  <2> QED BY <1>1, <1>2, <1>3, <2>1 DEF IInv, SocketsAgree
<1>14. Unused'
  BY <1>1, <1>2, <1>3 DEF IInv, Unused
<1>15. SlotsUsed'
  <2>1. \A w \in Servers : \A i \in 1 .. Len(server[w].queue) : server[w].queue[i] # s
    BY <1>11 DEF IInv, QueuesAgree
  <2> QED BY <1>2, <1>8, <2>1, SlotsKept DEF IInv
<1> QED BY <1>7, <1>8, <1>9, <1>10, <1>12, <1>13, <1>14, <1>15 DEF IInv

(* Http_socket_enqueue puts the socket somewhere into the queue.           *)
LEMMA Enqueued ==
  ASSUME TypeOK, NEW q \in Seq(Socks), NEW s \in Socks
  PROVE  \E at \in 1 .. Len(q) + 1 : Http_socket_enqueue(q, s) = InsertAt(q, at, s)
<1> DEFINE images == {i \in 1 .. Len(q) : q[i] \in webs /\ sd[q[i]].image}
           first == CHOOSE i \in images : \A j \in images : i <= j
           at == IF sd[s].image \/ images = {} THEN Len(q) + 1 ELSE first
<1>1. Len(q) \in Nat
  BY LenProperties
<1>2. images # {} => first \in 1 .. Len(q)
  <2>1. images \subseteq Nat /\ images \subseteq 1 .. Len(q)
    BY <1>1
  <2> HIDE DEF images
  <2>2. images # {} => \E i \in images : \A j \in images : i <= j
    BY <2>1, Least
  <2> QED BY <2>1, <2>2
<1>3. Http_socket_enqueue(q, s) = InsertAt(q, at, s)
  BY DEF Http_socket_enqueue
<1> HIDE DEF images, first
<1>4. at \in 1 .. Len(q) + 1
  BY <1>1, <1>2
<1> QED BY <1>3, <1>4

LEMMA EntryInserted ==
  ASSUME IInv, NEW v \in Servers, NEW n \in Socks, ~Queued(n),
         NEW at \in 1 .. Len(server[v].queue) + 1,
         server'[v].queue = InsertAt(server[v].queue, at, n),
         \A w \in Servers : w # v => server'[w].queue = server[w].queue,
         "QUEUED" \in sd'[n].flags, "TO_BE_FREED" \notin sd'[n].flags,
         sd'[n].connected_to = NoServer, n \in ValidSocks, n \notin freed,
         \A t \in Socks : t # n => sd'[t] = sd[t],
         UNCHANGED <<freed, ValidSocks>>
  PROVE  QueuesAgree'
<1>1. /\ server[v].queue \in Seq(Socks) /\ Len(server[v].queue) \in Nat
      /\ \A w \in Servers : \A k \in 1 .. Len(server[w].queue) : server[w].queue[k] \in Socks
  BY QueueTyped DEF IInv
<1>2. /\ Len(server'[v].queue) = Len(server[v].queue) + 1
      /\ \A j \in 1 .. Len(server[v].queue) + 1 :
           server'[v].queue[j] = IF j < at THEN server[v].queue[j]
                                 ELSE IF j = at THEN n ELSE server[v].queue[j - 1]
  <2> DEFINE r == InsertAt(server[v].queue, at, n)
  <2>1. /\ Len(r) = Len(server[v].queue) + 1
        /\ \A j \in 1 .. Len(server[v].queue) + 1 :
             r[j] = IF j < at THEN server[v].queue[j]
                    ELSE IF j = at THEN n ELSE server[v].queue[j - 1]
    <3>1. PICK q \in Seq(Socks) : q = server[v].queue
      BY <1>1
    <3>2. at \in 1 .. Len(q) + 1
      BY <3>1
    <3>3. /\ Len(InsertAt(q, at, n)) = Len(q) + 1
          /\ \A j \in 1 .. Len(q) + 1 :
               InsertAt(q, at, n)[j] = IF j < at THEN q[j] ELSE IF j = at THEN n ELSE q[j - 1]
      BY <3>2, InsertAtType
    <3> QED BY <3>1, <3>3
  <2> HIDE DEF r
  <2>2. server'[v].queue = r
    BY DEF r
  <2> QED BY <2>1, <2>2
<1>3. /\ \A k, l \in 1 .. Len(server[v].queue) : server[v].queue[k] = server[v].queue[l] => k = l
      /\ \A x, w \in Servers :
           \A k \in 1 .. Len(server[x].queue), l \in 1 .. Len(server[w].queue) :
             server[x].queue[k] = server[w].queue[l] => x = w
      /\ \A w \in Servers : \A k \in 1 .. Len(server[w].queue) :
           Queued(server[w].queue[k]) /\ server[w].queue[k] # n
  BY DEF IInv, QueuesAgree
<1>4. \A j \in 1 .. Len(server'[v].queue) : j # at =>
        /\ (IF j < at THEN j ELSE j - 1) \in 1 .. Len(server[v].queue)
        /\ server'[v].queue[j] = server[v].queue[IF j < at THEN j ELSE j - 1]
  BY <1>1, <1>2
<1>5. at \in 1 .. Len(server'[v].queue) /\ server'[v].queue[at] = n
  BY <1>1, <1>2
<1>6. \A w \in Servers : \A j \in 1 .. Len(server'[w].queue) :
        \/ w = v /\ j = at
        \/ \E k \in 1 .. Len(server[w].queue) : server'[w].queue[j] = server[w].queue[k]
  BY <1>4, SMTT(30)
<1>7. \A w \in Servers : \A j, k \in 1 .. Len(server'[w].queue) :
        server'[w].queue[j] = server'[w].queue[k] => j = k
  <2> TAKE w \in Servers
  <2>1. CASE w = v
    <3> SUFFICES ASSUME NEW j \in 1 .. Len(server'[v].queue), NEW k \in 1 .. Len(server'[v].queue),
                        server'[v].queue[j] = server'[v].queue[k]
                 PROVE  j = k
      BY <2>1
    <3> DEFINE a == IF j < at THEN j ELSE j - 1
               b == IF k < at THEN k ELSE k - 1
    <3>1. CASE j = at \/ k = at
      <4>1. \A l \in 1 .. Len(server'[v].queue) : l # at => server'[v].queue[l] # n
        <5> TAKE l \in 1 .. Len(server'[v].queue)
        <5> HAVE l # at
        <5> DEFINE c == IF l < at THEN l ELSE l - 1
        <5>1. c \in 1 .. Len(server[v].queue) /\ server'[v].queue[l] = server[v].queue[c]
          BY <1>4
        <5> HIDE DEF c
        <5> QED BY <1>3, <5>1
      <4> QED BY <1>5, <3>1, <4>1
    <3>2. CASE j # at /\ k # at
      <4>1. /\ a \in 1 .. Len(server[v].queue) /\ server'[v].queue[j] = server[v].queue[a]
            /\ b \in 1 .. Len(server[v].queue) /\ server'[v].queue[k] = server[v].queue[b]
        BY <1>4, <3>2
      <4> HIDE DEF a, b
      <4>2. a = b
        BY <4>1, <1>3
      <4>3. j \in Nat /\ k \in Nat /\ at \in Nat
        BY <1>1, <1>2
      <4> QED BY <3>2, <4>2, <4>3 DEF a, b
    <3> QED BY <3>1, <3>2
  <2>2. CASE w # v
    BY <2>2 DEF IInv, QueuesAgree
  <2> QED BY <2>1, <2>2
<1>8. \A x, w \in Servers :
        \A j \in 1 .. Len(server'[x].queue), k \in 1 .. Len(server'[w].queue) :
          server'[x].queue[j] = server'[w].queue[k] => x = w
  <2> SUFFICES ASSUME NEW x \in Servers, NEW w \in Servers,
                      NEW j \in 1 .. Len(server'[x].queue), NEW k \in 1 .. Len(server'[w].queue),
                      server'[x].queue[j] = server'[w].queue[k]
               PROVE  x = w
    OBVIOUS
  <2>1. \/ x = v /\ server'[x].queue[j] = n
        \/ \E i \in 1 .. Len(server[x].queue) : server'[x].queue[j] = server[x].queue[i]
    BY <1>5, <1>6
  <2>2. \/ w = v /\ server'[w].queue[k] = n
        \/ \E i \in 1 .. Len(server[w].queue) : server'[w].queue[k] = server[w].queue[i]
    BY <1>5, <1>6
  <2> QED BY <1>3, <2>1, <2>2
<1>9. \A w \in Servers : \A j \in 1 .. Len(server'[w].queue) :
        "QUEUED" \in sd'[server'[w].queue[j]].flags
  <2> TAKE w \in Servers
  <2> TAKE j \in 1 .. Len(server'[w].queue)
  <2>1. CASE w = v /\ j = at
    BY <1>5, <2>1
  <2>2. ASSUME NEW k \in 1 .. Len(server[w].queue), server'[w].queue[j] = server[w].queue[k]
        PROVE  "QUEUED" \in sd'[server'[w].queue[j]].flags
    <3>1. server[w].queue[k] \in Socks /\ Queued(server[w].queue[k]) /\ server[w].queue[k] # n
      BY <1>1, <1>3
    <3> QED BY <2>2, <3>1 DEF Queued
  <2> QED BY <1>6, <2>1, <2>2
<1>10. ASSUME NEW s \in Socks, "QUEUED" \in sd'[s].flags
       PROVE  /\ \E w \in Servers : \E j \in 1 .. Len(server'[w].queue) : server'[w].queue[j] = s
              /\ s \notin freed' /\ sd'[s].connected_to = NoServer
              /\ s \in ValidSocks' <=> "TO_BE_FREED" \notin sd'[s].flags
  <2>1. CASE s = n
    BY <1>5, <2>1
  <2>2. CASE s # n
    <3>1. Queued(s)
      BY <1>10, <2>2 DEF Queued
    <3>2. /\ s \notin freed /\ sd[s].connected_to = NoServer
          /\ s \in ValidSocks <=> "TO_BE_FREED" \notin sd[s].flags
      BY <3>1 DEF IInv, QueuesAgree
    <3>3. PICK w \in Servers : \E k \in 1 .. Len(server[w].queue) : server[w].queue[k] = s
      BY <3>1 DEF IInv, QueuesAgree
    <3>4. PICK k \in 1 .. Len(server[w].queue) : server[w].queue[k] = s
      BY <3>3
    <3>5. \E x \in Servers : \E j \in 1 .. Len(server'[x].queue) : server'[x].queue[j] = s
      <4>1. CASE w = v
        <5> DEFINE j == IF k < at THEN k ELSE k + 1
        <5>1. j \in 1 .. Len(server'[v].queue) /\ j # at /\ (IF j < at THEN j ELSE j - 1) = k
          BY <1>1, <1>2, <3>4, <4>1
        <5>2. server'[v].queue[j] = s
          BY <1>4, <3>4, <4>1, <5>1
        <5> QED BY <5>1, <5>2
      <4>2. CASE w # v
        BY <3>4, <4>2
      <4> QED BY <4>1, <4>2
    <3> QED BY <2>2, <3>2, <3>5
  <2> QED BY <2>1, <2>2
<1> QED BY <1>7, <1>8, <1>9, <1>10 DEF QueuesAgree, Queued

LEMMA DnsCbKeeps ==
  ASSUME IInv, Http_dns_cb
  PROVE  IInv'
<1>1. PICK s \in Socks : s = Head(stack).s
  BY HeadTyped, FrameFields DEF Http_dns_cb, Top, IInv
<1>2. /\ stack # <<>> /\ Head(stack).fn = "dns" /\ Asking(s)
      /\ \A i \in 1 .. Len(waitDns) : waitDns[i] # s
  BY <1>1 DEF Http_dns_cb, Top, IInv, Ready
<1>3. PICK v \in Servers : v = sd[s].srv
  BY <1>2 DEF Asking
<1>4. UNCHANGED <<ValidSocks, freed, fd_map, cert, tls, popups, open, watch, ioFD,
                  webs, waitDns, resolved>>
  BY DEF Http_dns_cb
<1>5. CASE stack' = Rest /\ UNCHANGED <<sd, server, chain>>
  <2>1. Frames' /\ SameRuns /\ Ready'
    BY <1>2, <1>5, PopKeeps
  <2>2. TypeOK'
    BY <1>4, <1>5 DEF IInv, TypeOK
  <2> QED BY <1>4, <1>5, <2>1, <2>2, Quiet DEF IInv
<1>6. CASE /\ stack' = <<FreeFrame(s)>> \o Rest
           /\ chain' = [chain EXCEPT ![s] = "aborted"] /\ UNCHANGED <<sd, server>>
  <2>1. FreeFrame(s) \in Frame /\ FreeFrame(s).fn = "free"
    BY FramesTyped
  <2>2. Frames' /\ SameRuns /\ Ready'
    BY <1>2, <1>6, <2>1, SwapKeeps
  <2>3. TypeOK'
    BY <1>4, <1>6 DEF IInv, TypeOK
  <2>4. \A t \in Socks : chain'[t] = "none" <=> chain[t] = "none"
    BY <1>2, <1>6 DEF IInv, TypeOK, Asking
  <2> QED BY <1>4, <1>6, <2>2, <2>3, <2>4, Quiet DEF IInv
<1>7. ASSUME s \in ValidSocks, sd' = [sd EXCEPT ![s].flags = @ \cup {"QUEUED"}],
             server' = [server EXCEPT ![v].live = TRUE,
                                      ![v].queue = Http_socket_enqueue(@, s),
                                      ![v].running = @ + 1],
             stack' = <<QueueFrame(v, 1)>> \o Rest, UNCHANGED chain
      PROVE  IInv'
  <2>1. /\ server[v] \in ServerData /\ server \in [Servers -> ServerData]
        /\ server[v].queue \in Seq(Socks)
        /\ sd[s] \in Socket /\ sd \in [Socks -> Socket]
    BY DEF IInv, TypeOK, ServerData, Socket
  <2>2. PICK at \in 1 .. Len(server[v].queue) + 1 :
          Http_socket_enqueue(server[v].queue, s) = InsertAt(server[v].queue, at, s)
    BY <2>1, Enqueued DEF IInv
  <2>3. /\ server'[v].live = TRUE /\ server'[v].running = server[v].running + 1
        /\ server'[v].active_conns = server[v].active_conns
        /\ server'[v].queue = InsertAt(server[v].queue, at, s)
        /\ \A w \in Servers : w # v => server'[w] = server[w]
    BY <1>7, <2>1, <2>2 DEF ServerData
  <2>4. /\ sd'[s].flags = sd[s].flags \cup {"QUEUED"}
        /\ sd'[s].connected_to = sd[s].connected_to /\ sd'[s].srv = sd[s].srv
        /\ sd'[s].idx = sd[s].idx
        /\ \A t \in Socks : t # s => sd'[t] = sd[t]
    BY <1>7, <2>1 DEF Socket
  <2>5. /\ "TO_BE_FREED" \notin sd[s].flags /\ s \notin freed /\ ~Queued(s)
        /\ sd[s].connected_to = NoServer /\ "IOWATCH_ACTIVE" \notin sd[s].flags
        /\ chain[s] # "none"
    BY <1>2, <1>7 DEF IInv, SocketsAgree, Asking
  <2>6. QueueFrame(v, 1) \in Frame /\ QueueFrame(v, 1).fn = "queue"
        /\ QueueFrame(v, 1).srv = v /\ QueueFrame(v, 1).i = 1
    BY FramesTyped DEF QueueFrame
  <2>7. /\ Frames' /\ Head(stack') = QueueFrame(v, 1)
        /\ Cardinality(Runs(stack', v)) = Cardinality(Runs(stack, v)) + 1
        /\ \A w : w # v => Cardinality(Runs(stack', w)) = Cardinality(Runs(stack, w))
        /\ \A w, ix : w # v => (Covers(stack', w, ix) <=> Covers(stack, w, ix))
        /\ \A ix : Covers(stack', v, ix) <=> \A i \in ix : 1 <= i
    BY <1>2, <1>7, <2>6, Swapped DEF IInv, IsRun
  <2>8. Ready'
    BY <2>6, <2>7, ReadyOther
  <2>9. TypeOK'
    <3>1. InsertAt(server[v].queue, at, s) \in Seq(Socks) /\ server[v].running + 1 \in Nat
      BY <2>1, InsertAtType DEF ServerData
    <3>2. [server[v] EXCEPT !.live = TRUE, !.queue = InsertAt(server[v].queue, at, s),
                            !.running = server[v].running + 1] \in ServerData
      BY <2>1, <3>1 DEF ServerData
    <3>3. server' \in [Servers -> ServerData]
      BY <1>7, <2>1, <2>2, <3>2
    <3>4. [sd[s] EXCEPT !.flags = @ \cup {"QUEUED"}] \in Socket
      BY <2>1 DEF Socket, Flags
    <3>5. sd' \in [Socks -> Socket]
      BY <1>7, <2>1, <3>4
    <3> QED BY <1>4, <1>7, <3>3, <3>5 DEF IInv, TypeOK, Socket, ServerData
  <2>10. QueuesAgree'
    <3>1. /\ server'[v].queue = InsertAt(server[v].queue, at, s)
          /\ \A w \in Servers : w # v => server'[w].queue = server[w].queue
      BY <2>3
    <3>2. /\ "QUEUED" \in sd'[s].flags /\ "TO_BE_FREED" \notin sd'[s].flags
          /\ sd'[s].connected_to = NoServer
          /\ \A t \in Socks : t # s => sd'[t] = sd[t]
      BY <2>4, <2>5
    <3>3. s \in ValidSocks /\ s \notin freed /\ ~Queued(s)
      BY <1>7, <2>5
    <3>4. UNCHANGED <<freed, ValidSocks>>
      BY <1>4
    <3> QED BY <3>1, <3>2, <3>3, <3>4, EntryInserted
  <2>11. Counted'
    <3>1. \A w : Connections(w)' = Connections(w)
      BY <2>4 DEF Connections
    <3>2. CountedAt(v)'
      BY <2>3, <2>7, <3>1 DEF IInv, Counted, CountedAt
    <3>3. \A w \in Servers : w # v => CountedAt(w)'
      BY <2>3, <2>7, <3>1 DEF IInv, Counted, CountedAt
    <3> QED BY <3>2, <3>3 DEF Counted
  <2>12. SocketsAgree'
    <3>1. \A t \in ValidSocks : t \in Socks
      BY DEF IInv, TypeOK
    <3>2. \A t \in Socks : /\ "IOWATCH_ACTIVE" \in sd'[t].flags <=> "IOWATCH_ACTIVE" \in sd[t].flags
                           /\ "TO_BE_FREED" \in sd'[t].flags <=> "TO_BE_FREED" \in sd[t].flags
                           /\ sd'[t].connected_to = sd[t].connected_to /\ sd'[t].idx = sd[t].idx
      BY <2>4
    <3> QED BY <1>4, <3>1, <3>2 DEF IInv, SocketsAgree
  <2>13. WaitersAgree'
    <3>1. \A i \in 1 .. Len(waitDns) : waitDns[i] \in Socks
      BY ElementOfSeq DEF IInv, TypeOK
    <3> QED BY <1>2, <1>4, <1>7, <2>4, <3>1 DEF IInv, WaitersAgree, Asking, Queued
  <2>14. Unused'
    BY <1>4, <1>7, <2>4, <2>5 DEF IInv, Unused
  <2>15. SlotsUsed'
    <3> SUFFICES ASSUME NEW w \in Servers \ TlsServers PROVE SlotUsed(w)'
      BY DEF SlotsUsed
    <3>1. CASE w = v
      BY <2>7, <3>1 DEF SlotUsed, Usable
    <3>2. CASE w # v
      BY <1>4, <2>3, <2>7, <3>2, OtherSlots
    <3> QED BY <3>1, <3>2
  <2> QED BY <2>7, <2>8, <2>9, <2>10, <2>11, <2>12, <2>13, <2>14, <2>15 DEF IInv
<1> QED BY <1>1, <1>3, <1>5, <1>6, <1>7 DEF Http_dns_cb
-----------------------------------------------------------------------------
(***************************************************************************)
(* Http_socket_reuse: the connection goes from s to n.                     *)
(***************************************************************************)
LEMMA ConnectionMoves ==
  ASSUME TypeOK, NEW v \in Servers, NEW s \in Connections(v), NEW n \in Socks, n # s,
         sd[n].connected_to = NoServer,
         sd'[s].connected_to = NoServer, sd'[n].connected_to = v,
         \A t \in Socks : t # s /\ t # n => sd'[t].connected_to = sd[t].connected_to
  PROVE  /\ Cardinality(Connections(v)') = Cardinality(Connections(v))
         /\ Connections(v) # {}
         /\ \A w \in Servers : w # v => Connections(w)' = Connections(w)
<1> DEFINE C == Connections(v)
<1>1. IsFiniteSet(C) /\ s \in C /\ n \notin C
  BY FiniteConnections, HttpAssumption DEF Connections
<1>2. Connections(v)' = (C \ {s}) \cup {n}
  BY HttpAssumption DEF Connections
<1>3. \A w \in Servers : w # v => Connections(w)' = Connections(w)
  BY HttpAssumption DEF Connections
<1> HIDE DEF C
<1>4. /\ IsFiniteSet(C \ {s}) /\ Cardinality(C \ {s}) = Cardinality(C) - 1
      /\ Cardinality(C) \in Nat
  BY <1>1, FS_RemoveElement, FS_CardinalityType
<1>5. Cardinality((C \ {s}) \cup {n}) = Cardinality(C \ {s}) + 1
  BY <1>1, <1>4, FS_AddElement
<1> QED BY <1>1, <1>2, <1>3, <1>4, <1>5 DEF C

LEMMA ReuseKeeps ==
  ASSUME IInv, NEW s \in Socks, Http_socket_reuse(s)
  PROVE  IInv'
<1>1. /\ stack = <<>> /\ chain[s] = "open" /\ ioFD[s] # NoFd /\ s \in ValidSocks
      /\ sd[s].SockFD \in Fds \cup {NoFd}
      /\ chain' = [chain EXCEPT ![s] = "ended"] /\ ioFD' = [ioFD EXCEPT ![s] = NoFd]
      /\ UNCHANGED <<tls, popups, open, watch, webs, waitDns, resolved>>
  BY DEF Http_socket_reuse, Streaming, Ends, AtRest, IInv, TypeOK
<1>2. PICK v \in Servers : v = sd[s].connected_to
  BY <1>1 DEF IInv, SocketsAgree, TypeOK
<1>3. PICK fd \in Fds \cup {NoFd} : fd = sd[s].SockFD
  BY <1>1
<1>4. /\ \A t \in Socks : chain'[t] = "none" <=> chain[t] = "none"
      /\ \A t \in Socks : ioFD'[t] \in {ioFD[t], NoFd}
      /\ chain' \in [Socks -> {"none", "open", "ended", "aborted"}]
      /\ ioFD' \in [Socks -> Fds \cup {NoFd}]
  BY <1>1 DEF IInv, TypeOK
<1>5. CASE /\ stack' = <<FreeFrame(s), CloseFrame(fd)>>
           /\ UNCHANGED <<sd, ValidSocks, freed, server, fd_map, cert>>
  <2>1. /\ FreeFrame(s) \in Frame /\ FreeFrame(s).fn = "free"
        /\ CloseFrame(fd) \in LowFrame /\ CloseFrame(fd).fn = "close"
    BY FramesTyped
  <2>2. Frames' /\ SameRuns /\ Ready'
    BY <1>1, <1>5, <2>1, StartKeeps DEF AtRest
  <2>3. TypeOK'
    BY <1>1, <1>4, <1>5 DEF IInv, TypeOK
  <2> QED BY <1>1, <1>4, <1>5, <2>2, <2>3, Quiet DEF IInv
<1>6. ASSUME NEW i \in 1 .. Len(server[v].queue), NEW n, n = server[v].queue[i],
             "TO_BE_FREED" \notin sd[n].flags, n \in webs,
             ValidSocks' = ValidSocks \ {s}, freed' = freed \cup {s},
             cert' = Tls_reset_server_state(sd[s].srv),
             sd' = [sd EXCEPT ![s] = Dead(s),
                              ![n].SockFD = fd, ![n].connected_to = v,
                              ![n].flags = @ \ {"QUEUED"}],
             server' = [server EXCEPT ![v].queue = RemoveAt(@, i)],
             fd_map' = Http_fd_map_remove_entry(fd) \cup {[fd |-> fd, skey |-> n]},
             stack' = <<DoneFrame(fd, TRUE)>>
      PROVE  IInv'
  <2>0. /\ n = server[v].queue[i] /\ ValidSocks' = ValidSocks \ {s} /\ freed' = freed \cup {s}
        /\ stack' = <<DoneFrame(fd, TRUE)>>
        /\ \A e \in fd_map' : e \in fd_map \/ e = [fd |-> fd, skey |-> n]
    BY <1>6 DEF Http_fd_map_remove_entry
  <2>1. n \in Socks /\ Queued(n)
    BY <1>6, QueueTyped DEF IInv, QueuesAgree
  <2>2. /\ sd[n].connected_to = NoServer /\ n \notin freed /\ n \in ValidSocks
        /\ "IOWATCH_ACTIVE" \notin sd[n].flags /\ chain[n] # "none"
    <3>1. sd[n].connected_to = NoServer /\ n \notin freed
      BY <2>1 DEF IInv, QueuesAgree
    <3>2. n \in ValidSocks
      BY <1>6, <2>1 DEF IInv, QueuesAgree
    <3>3. "IOWATCH_ACTIVE" \notin sd[n].flags
      BY <2>1, <3>1 DEF IInv, SocketsAgree
    <3>4. chain[n] # "none"
      BY <2>1 DEF IInv, Unused, Queued, NewSocket
    <3> QED BY <3>1, <3>2, <3>3, <3>4
  <2>3. n # s /\ ~Queued(s)
    BY <1>2, <2>2, HttpAssumption DEF IInv, QueuesAgree
  <2>4. /\ Dead(s) \in Socket /\ Dead(s).flags = {} /\ Dead(s).connected_to = NoServer
        /\ sd[n] \in Socket /\ sd \in [Socks -> Socket]
    BY <2>1, DeadTyped DEF IInv, TypeOK, Socket
  <2>5. /\ sd'[s] = Dead(s)
        /\ sd'[n] = [sd[n] EXCEPT !.SockFD = fd, !.connected_to = v, !.flags = @ \ {"QUEUED"}]
        /\ \A t \in Socks : t # s /\ t # n => sd'[t] = sd[t]
        /\ sd' \in [Socks -> Socket]
    <3>1. [sd[n] EXCEPT !.SockFD = fd, !.connected_to = v, !.flags = @ \ {"QUEUED"}] \in Socket
      BY <2>4 DEF Socket, Flags
    <3>2. /\ sd'[s] = Dead(s)
          /\ sd'[n] = [sd[n] EXCEPT !.SockFD = fd, !.connected_to = v, !.flags = @ \ {"QUEUED"}]
          /\ \A t \in Socks : t # s /\ t # n => sd'[t] = sd[t]
      BY <1>6, <2>1, <2>3, <2>4 DEF Socket
    <3>3. DOMAIN sd' = Socks /\ sd' = [t \in Socks |-> sd'[t]]
      BY <1>6, <2>4
    <3> QED BY <2>4, <3>1, <3>2, <3>3
  <2>6. /\ sd'[n].flags = sd[n].flags \ {"QUEUED"} /\ sd'[n].connected_to = v
        /\ sd'[n].idx = sd[n].idx
    BY <2>4, <2>5 DEF Socket
  <2>7. /\ server'[v].queue = RemoveAt(server[v].queue, i)
        /\ server'[v].active_conns = server[v].active_conns
        /\ server'[v].running = server[v].running /\ server'[v].live = server[v].live
        /\ \A w \in Servers : w # v => server'[w] = server[w]
    BY <1>6 DEF IInv, TypeOK
  <2>8. QueuesAgree'
    <3>1. \A t \in Socks : t # n =>
            /\ "QUEUED" \in sd'[t].flags <=> Queued(t)
            /\ Queued(t) => /\ sd'[t] = sd[t] /\ (t \in freed' <=> t \in freed)
                            /\ t \in ValidSocks' <=> t \in ValidSocks
      BY <2>0, <2>3, <2>4, <2>5 DEF Queued
    <3>2. /\ "QUEUED" \notin sd'[n].flags
          /\ \A w \in Servers : w # v => server'[w].queue = server[w].queue
      BY <2>6, <2>7
    <3> QED BY <2>0, <2>1, <2>7, <3>1, <3>2, EntryRemoved
  <2>9. TypeOK'
    <3>1. server' \in [Servers -> ServerData]
      <4>1. server[v].queue \in Seq(Socks) /\ server \in [Servers -> ServerData]
        BY DEF IInv, TypeOK, ServerData
      <4>2. RemoveAt(server[v].queue, i) \in Seq(Socks)
        BY <4>1, RemoveAtType
      <4>3. [server[v] EXCEPT !.queue = RemoveAt(@, i)] \in ServerData
        BY <4>1, <4>2 DEF ServerData
      <4> QED BY <1>6, <4>1, <4>3
    <3>2. fd_map' \subseteq [fd : Fds \cup {NoFd}, skey : Socks]
      <4>1. [fd |-> fd, skey |-> n] \in [fd : Fds \cup {NoFd}, skey : Socks]
        BY <2>1
      <4>2. Http_fd_map_remove_entry(fd) \subseteq [fd : Fds \cup {NoFd}, skey : Socks]
        BY DEF Http_fd_map_remove_entry, IInv, TypeOK
      <4> QED BY <1>6, <4>1, <4>2
    <3>3. cert' \in [TlsServers -> CertStatus]
      BY <1>6 DEF Tls_reset_server_state, CertStatus, IInv, TypeOK
    <3>4. ValidSocks' \subseteq Socks /\ freed' \subseteq Socks
      BY <2>0 DEF IInv, TypeOK
    <3> QED BY <1>1, <1>4, <2>5, <3>1, <3>2, <3>3, <3>4 DEF IInv, TypeOK, Socket, ServerData
  <2>10. Frames' /\ SameRuns /\ Ready'
    <3>1. DoneFrame(fd, TRUE) \in Frame /\ DoneFrame(fd, TRUE).fn = "done"
      BY FramesTyped
    <3> QED BY <1>1, <1>6, <3>1, StartKeeps DEF AtRest
  <2>11. Counted'
    <3>1. /\ Cardinality(Connections(v)') = Cardinality(Connections(v))
          /\ Connections(v) # {}
          /\ \A w \in Servers : w # v => Connections(w)' = Connections(w)
      <4>1. /\ s \in Connections(v) /\ sd'[s].connected_to = NoServer
            /\ \A t \in Socks : t # s /\ t # n => sd'[t].connected_to = sd[t].connected_to
        BY <1>2, <2>4, <2>5 DEF Connections
      <4> QED BY <2>1, <2>2, <2>3, <2>6, <4>1, ConnectionMoves DEF IInv
    <3>2. CountedAt(v)'
      BY <2>7, <2>10, <3>1 DEF IInv, Counted, CountedAt, SameRuns
    <3>3. \A w \in Servers : w # v => CountedAt(w)'
      BY <2>7, <2>10, <3>1 DEF IInv, Counted, CountedAt, SameRuns
    <3> QED BY <3>2, <3>3 DEF Counted
  <2>12. SocketsAgree'
    <3>1. \A t \in ValidSocks' : t \in ValidSocks /\ t # s /\ t \in Socks
      BY <1>6 DEF IInv, TypeOK
    <3>2. \A t \in ValidSocks' : t \notin freed' /\ "TO_BE_FREED" \notin sd'[t].flags
      BY <1>6, <2>2, <2>5, <2>6, <3>1 DEF IInv, SocketsAgree
    <3>3. \A t \in Socks : "IOWATCH_ACTIVE" \in sd'[t].flags => t # s /\ t # n
      BY <2>2, <2>4, <2>5, <2>6
    <3>4. \A t \in Socks : "IOWATCH_ACTIVE" \in sd'[t].flags =>
                             sd'[t].connected_to # NoServer /\ sd'[t].idx < NumAddrs
      BY <2>5, <3>3 DEF IInv, SocketsAgree
    <3>5. \A t \in ValidSocks' : sd[t].connected_to # NoServer => sd'[t].connected_to # NoServer
      BY <2>5, <2>6, <3>1, HttpAssumption
    <3>6. \A t \in ValidSocks' : ioFD'[t] # NoFd => sd'[t].connected_to # NoServer
      BY <1>4, <3>1, <3>5 DEF IInv, SocketsAgree
    <3>7. \A e \in fd_map' : e.skey \in ValidSocks' => sd'[e.skey].connected_to # NoServer
      <4> TAKE e \in fd_map'
      <4>1. CASE e \in fd_map
        BY <3>1, <3>5, <4>1 DEF IInv, SocketsAgree
      <4>2. CASE e.skey = n
        BY <2>6, <4>2, HttpAssumption
      <4> QED BY <2>0, <4>1, <4>2
    <3> QED BY <3>2, <3>4, <3>6, <3>7 DEF SocketsAgree
  <2>13. WaitersAgree'
    <3>1. \A j \in 1 .. Len(waitDns) : waitDns[j] \in Socks /\ Asking(waitDns[j])
      BY ElementOfSeq DEF IInv, TypeOK, WaitersAgree
    <3>2. \A j \in 1 .. Len(waitDns) : waitDns[j] # s /\ waitDns[j] # n
      BY <1>2, <2>1, <3>1, HttpAssumption DEF Asking
    <3>3. \A j \in 1 .. Len(waitDns) : sd'[waitDns[j]] = sd[waitDns[j]]
      BY <2>5, <3>1, <3>2
    <3> QED BY <1>1, <1>4, <3>1, <3>3 DEF IInv, WaitersAgree, Asking, Queued
  <2>14. Unused'
    <3> SUFFICES ASSUME NEW t \in Socks, chain'[t] = "none"
                 PROVE  /\ sd'[t] = NewSocket /\ t \notin ValidSocks' /\ t \notin freed'
                        /\ ioFD'[t] = NoFd /\ \A e \in fd_map' : e.skey # t
      BY DEF Unused
    <3>1. chain[t] = "none" /\ t # s /\ t # n
      BY <1>1, <1>4, <2>2
    <3>2. \A e \in fd_map' : e.skey # t
      BY <2>0, <3>1 DEF IInv, Unused
    <3> QED BY <1>4, <2>0, <2>5, <3>1, <3>2 DEF IInv, Unused
  <2>15. SlotsUsed'
    <3> SUFFICES ASSUME NEW w \in Servers \ TlsServers PROVE SlotUsed(w)'
      BY DEF SlotsUsed
    <3>1. CASE w = v
      <4>1. i \in Usable(v)
        BY <1>6, <2>2 DEF Usable
      <4>2. server[v].active_conns = MaxConns
        BY <1>1, <3>1, <4>1, NoRuns DEF IInv, SlotsUsed, SlotUsed
      <4> QED BY <2>7, <3>1, <4>2 DEF SlotUsed
    <3>2. CASE w # v
      BY <1>1, <1>6, <2>7, <2>10, <3>2, OtherSlots DEF SameRuns
    <3> QED BY <3>1, <3>2
  <2> QED BY <2>8, <2>9, <2>10, <2>11, <2>12, <2>13, <2>14, <2>15 DEF IInv
<1>7. CASE UNCHANGED <<sd, ValidSocks, freed, server, fd_map, cert>>
           /\ stack' = <<FreeFrame(s), CloseFrame(sd[s].SockFD)>>
  BY <1>3, <1>5, <1>7
<1>8. CASE \E i \in Reusable(sd[s].connected_to) :
             LET n == server[sd[s].connected_to].queue[i] IN
             /\ ValidSocks' = ValidSocks \ {s}
             /\ freed' = freed \cup {s}
             /\ cert' = Tls_reset_server_state(sd[s].srv)
             /\ sd' = [sd EXCEPT ![s] = Dead(s),
                                 ![n].SockFD = sd[s].SockFD, ![n].connected_to = sd[s].connected_to,
                                 ![n].flags = @ \ {"QUEUED"}]
             /\ server' = [server EXCEPT ![sd[s].connected_to].queue = RemoveAt(@, i)]
             /\ fd_map' = Http_fd_map_remove_entry(sd[s].SockFD)
                            \cup {[fd |-> sd[s].SockFD, skey |-> n]}
             /\ stack' = <<DoneFrame(sd[s].SockFD, TRUE)>>
  BY <1>2, <1>3, <1>6, <1>8 DEF Reusable
<1> QED BY <1>7, <1>8 DEF Http_socket_reuse

-----------------------------------------------------------------------------
(***************************************************************************)
(* The theorems.                                                           *)
(***************************************************************************)
LEMMA InitHolds == Init => IInv
<1> SUFFICES ASSUME Init PROVE IInv
  OBVIOUS
<1>1. sd \in [Socks -> Socket] /\ \A s \in Socks : sd[s] = NewSocket
  BY NewTyped DEF Init
<1>2. \A s \in Socks : sd[s].flags = {} /\ sd[s].connected_to = NoServer
  BY <1>1 DEF NewSocket
<1>3. \A v \in Servers : server[v] = NoServerData
  BY DEF Init
<1>4. \A v \in Servers : /\ server[v].queue = <<>> /\ server[v].running = 0
                         /\ server[v].active_conns = 0
  BY <1>3 DEF NoServerData
<1>5. TypeOK
  <2>1. server \in [Servers -> ServerData]
    BY EmptySeq DEF Init, NoServerData, ServerData
  <2> QED BY <1>1, <2>1, EmptySeq DEF Init, TypeOK, Socket, ServerData, CertStatus
<1>6. Frames /\ Ready
  BY EmptySeq DEF Init, Frames, Ready
<1>7. Counted
  <2> SUFFICES ASSUME NEW v \in Servers PROVE CountedAt(v)
    BY DEF Counted
  <2>1. Connections(v) = {}
    BY <1>2, HttpAssumption DEF Connections
  <2>2. Runs(stack, v) = {}
    BY NoRuns DEF Init
  <2> QED BY <1>4, <2>1, <2>2, FS_EmptySet, HttpAssumption DEF CountedAt
<1>8. QueuesAgree
  BY <1>2, <1>4 DEF QueuesAgree, Queued
<1>9. SocketsAgree
  BY <1>2 DEF Init, SocketsAgree
<1>10. WaitersAgree
  BY DEF Init, WaitersAgree
<1>11. Unused
  BY <1>1 DEF Init, Unused
<1>12. SlotsUsed
  BY <1>4 DEF SlotsUsed, SlotUsed, Usable
<1> QED BY <1>5, <1>6, <1>7, <1>8, <1>9, <1>10, <1>11, <1>12 DEF IInv

LEMMA StutterKeeps ==
  ASSUME IInv, UNCHANGED vars
  PROVE  IInv'
<1>1. TypeOK'
  BY DEF vars, IInv, TypeOK
<1>2. SameRuns /\ Frames' /\ Ready'
  BY RunsKept DEF vars, IInv, Frames, Ready, Asking, Queued
<1> QED BY <1>1, <1>2, Quiet DEF vars, IInv

LEMMA NextKeeps ==
  ASSUME IInv, [Next]_vars
  PROVE  IInv'
<1>1. CASE Handler
  BY <1>1, FreeKeeps, ReapKeeps, DiscardKeeps, QueueConnectKeeps, SkipKeeps, QueueEndKeeps,
     ConnectNoSocketKeeps, ConnectGivesUpKeeps, ConnectAddrKeeps, DoneKeeps, ConnectTlsKeeps,
     DnsCbKeeps, ServeKeeps, CloseKeeps DEF Handler
<1>2. CASE Network
  BY <1>2, DnsAnswerKeeps, SocketCbKeeps, TlsKeeps, EndsKeeps, ReuseKeeps DEF Network
<1>3. CASE User
  BY <1>3, GetKeeps, EndsKeeps, WebCloseKeeps, UserAnswersKeeps DEF User
<1>4. CASE UNCHANGED vars
  BY <1>4, StutterKeeps
<1> QED BY <1>1, <1>2, <1>3, <1>4 DEF Next

(* The tables of http.c agree with each other and with the stack.          *)
THEOREM Invariance == Spec => []IInv
<1>1. Init => IInv
  BY InitHolds
<1>2. IInv /\ [Next]_vars => IInv'
  BY NextKeeps
<1> QED BY <1>1, <1>2, PTL DEF Spec

(* The tables of http.c, tls.c and IO.c have their types: active_conns and *)
(* running_the_queue never fall below zero.                                *)
THEOREM TypeCorrect == Spec => []TypeOK
<1>1. IInv => TypeOK
  BY DEF IInv
<1> QED BY <1>1, Invariance, PTL

(* active_conns is exact and within prefs.http_max_conns.                  *)
THEOREM ConnsAreExact == Spec => []ActiveConnsExact
<1>1. IInv => ActiveConnsExact
  BY DEF IInv, Counted, CountedAt, ActiveConnsExact
<1> QED BY <1>1, Invariance, PTL

(* A Server_t outlives the sockets and the queue runs that look at it.     *)
LEMMA ServersOutlive == ASSUME IInv PROVE ServerOutlivesUsers
<1> SUFFICES ASSUME NEW v \in Servers,
                    NEW i \in 1 .. Len(stack), stack[i].fn = "queue" /\ stack[i].srv = v
             PROVE  server[v].live
  BY DEF IInv, Counted, CountedAt, ServerOutlivesUsers
<1>1. i \in Runs(stack, v) /\ Runs(stack, v) \subseteq 1 .. Len(stack) /\ Len(stack) \in Nat
  BY LenProperties DEF Runs, IInv, Frames
<1>2. IsFiniteSet(Runs(stack, v))
  <2>1. IsFiniteSet(1 .. Len(stack))
    BY <1>1, FS_Interval
  <2> QED BY <1>1, <2>1, FS_Subset
<1>3. Cardinality(Runs(stack, v)) # 0
  BY <1>1, <1>2, FS_EmptySet
<1> QED BY <1>3 DEF IInv, Counted, CountedAt

(* The queues hold each queued socket once, and none that was freed.       *)
LEMMA QueuesSound == ASSUME IInv PROVE QueueSound
<1>1. \A v \in Servers :
        /\ DOMAIN server[v].queue = 1 .. Len(server[v].queue)
        /\ Range(server[v].queue) = {server[v].queue[i] : i \in 1 .. Len(server[v].queue)}
  <2> TAKE v \in Servers
  <2>1. server[v].queue \in Seq(Socks)
    BY QueueTyped DEF IInv
  <2> QED BY <2>1 DEF Range
<1>2. \A v \in Servers : IsInjective(server[v].queue)
  BY <1>1 DEF IInv, QueuesAgree, IsInjective
<1> SUFFICES ASSUME NEW s \in Socks,
                    NEW in, in = {v \in Servers : s \in Range(server[v].queue)}
             PROVE  /\ Cardinality(in) <= 1
                    /\ in # {} <=> Queued(s)
                    /\ Queued(s) => /\ s \notin freed /\ sd[s].connected_to = NoServer
                                    /\ s \in ValidSocks <=> "TO_BE_FREED" \notin sd[s].flags
  BY <1>2 DEF QueueSound, Queued
<1>3. \A v \in in : v \in Servers /\ \E i \in 1 .. Len(server[v].queue) : server[v].queue[i] = s
  BY <1>1
<1>4. \A v, w \in in : v = w
  BY <1>3 DEF IInv, QueuesAgree
<1>5. Cardinality(in) <= 1
  <2>1. CASE in = {}
    BY <2>1, FS_EmptySet
  <2>2. ASSUME NEW v \in in PROVE Cardinality(in) <= 1
    <3>1. in = {v}
      BY <1>4
    <3>2. Cardinality({v}) = 1
      BY FS_Singleton
    <3>3. Cardinality(in) = 1
      BY <3>1, <3>2, Zenon
    <3> QED BY <3>3
  <2> QED BY <2>1, <2>2
<1>6. in # {} => Queued(s)
  BY <1>3 DEF IInv, QueuesAgree
<1>7. Queued(s) => in # {}
  <2> SUFFICES ASSUME Queued(s) PROVE in # {}
    OBVIOUS
  <2>1. PICK v \in Servers : \E i \in 1 .. Len(server[v].queue) : server[v].queue[i] = s
    BY DEF IInv, QueuesAgree
  <2>2. s \in Range(server[v].queue)
    BY <1>1, <2>1
  <2> QED BY <2>2
<1> QED BY <1>5, <1>6, <1>7 DEF IInv, QueuesAgree

(* No slot is idle while a socket could take it.                           *)
LEMMA SlotsBusy == ASSUME IInv PROVE NoIdleSlot
<1> SUFFICES ASSUME stack = <<>>, NEW v \in Servers \ TlsServers,
                    NEW s \in Range(server[v].queue), s \in ValidSocks, s \in webs
             PROVE  server[v].active_conns = MaxConns
  BY DEF NoIdleSlot, AtRest
<1>1. server[v].queue \in Seq(Socks)
  BY QueueTyped DEF IInv
<1>2. PICK i \in 1 .. Len(server[v].queue) : server[v].queue[i] = s
  BY <1>1 DEF Range
<1>3. i \in Usable(v)
  BY <1>2 DEF Usable
<1> QED BY <1>3, NoRuns DEF IInv, SlotsUsed, SlotUsed

(* Servers outlive their users, queues are sound and slots put to use,     *)
(* however deep the queue runs are nested.                                 *)
THEOREM ServersAreSound == Spec => []ServersSound
<1>1. IInv => ServersSound
  BY ServersOutlive, QueuesSound, SlotsBusy DEF ServersSound
<1> QED BY <1>1, Invariance, PTL
-----------------------------------------------------------------------------
(***************************************************************************)
(* The descriptors, when writing does not fail.                            *)
(***************************************************************************)
(* Where the descriptor of a socket is: connect() is pending, the TLS       *)
(* handshake is going on, the IO engine has it, or the handler at the top   *)
(* of the stack does.                                                       *)
HasFd(s)    == sd[s].SockFD # NoFd
Watching(s) == "IOWATCH_ACTIVE" \in sd[s].flags
Shaking(s)  == \E t \in tls : t.connecting /\ t.owner = s
Streams(s)  == ioFD[s] # NoFd
Freeing(s)  == stack # <<>> /\ Head(stack).fn = "free" /\ Head(stack).s = s
Handling(s) ==
  /\ stack # <<>>
  /\ \/ Head(stack).fn \in {"connect", "tls"} /\ Head(stack).s = s
     \/ Head(stack).fn = "done" /\ HasFd(s) /\ Head(stack).fd = sd[s].SockFD

(* A socket with a descriptor is valid, connected, in fd_map, and its open  *)
(* descriptor is in one place; a socket without one is in none.             *)
Placed(s) ==
  /\ HasFd(s) =>
       /\ s \in ValidSocks /\ sd[s].connected_to # NoServer
       /\ [fd |-> sd[s].SockFD, skey |-> s] \in fd_map
       /\ Watching(s) \/ Shaking(s) \/ Streams(s) \/ Freeing(s) \/ Handling(s)
       /\ Freeing(s) \/ sd[s].SockFD \in open
  /\ Watching(s) => ~Shaking(s) /\ ~Streams(s) /\ ~Handling(s)
  /\ Streams(s) => /\ HasFd(s) /\ ioFD[s] = sd[s].SockFD
                   /\ ~Shaking(s) /\ ~Handling(s) /\ ~Freeing(s)
  /\ \A e \in fd_map : e.skey = s => HasFd(s) /\ e.fd = sd[s].SockFD
  /\ \A t \in tls : t.connecting /\ t.owner = s =>
                      HasFd(s) /\ t.fd = sd[s].SockFD /\ ~Handling(s)

AllPlaced == \A s \in Socks : Placed(s)

FdsApart == \A s, r \in Socks : HasFd(s) /\ sd[s].SockFD = sd[r].SockFD => s = r

(* The descriptors a stack will close, which is the last thing it does.     *)
Closing(st)   == {st[p].fd : p \in {r \in 1 .. Len(st) : st[r].fn = "close"}}
LastClose(st) == \A p \in 1 .. Len(st) : st[p].fn = "close" => p = Len(st)

(* An open descriptor has an owner or is about to be closed; the owner of   *)
(* one that is about to be closed is being freed.                           *)
OpenAgrees ==
  /\ \A fd \in open : fd \in Closing(stack) \/ \E s \in Socks : sd[s].SockFD = fd
  /\ \A fd \in Closing(stack) :
       fd \in open /\ \A s \in Socks : sd[s].SockFD = fd => Freeing(s)
  /\ LastClose(stack)

(* What the handler at the top of the stack relies on: Http_socket_free     *)
(* closes a descriptor exactly when nobody else has or will.                *)
FdReady ==
  stack # <<>> =>
    LET f == Head(stack) IN
    /\ f.fn = "connect" => f.s \in ValidSocks /\ (HasFd(f.s) => sd[f.s].idx > 0)
    /\ f.fn = "free" =>
         IF sd[f.s].SockFD \in Closing(stack) THEN ~Watching(f.s) /\ ~Shaking(f.s)
         ELSE sd[f.s].SockFD \in open => Watching(f.s) \/ Shaking(f.s)

FInv == AllPlaced /\ FdsApart /\ OpenAgrees /\ FdReady

SameClosing == /\ Closing(stack') = Closing(stack)
               /\ LastClose(stack) => LastClose(stack')

LEMMA ConsClosing ==
  ASSUME NEW T \in Seq(Frame), NEW f \in Frame
  PROVE  /\ f.fn = "close" => Closing(<<f>> \o T) = Closing(T) \cup {f.fd}
         /\ f.fn # "close" => Closing(<<f>> \o T) = Closing(T)
         /\ LastClose(<<f>> \o T) => LastClose(T) /\ (f.fn = "close" => T = <<>>)
         /\ LastClose(T) /\ f.fn # "close" => LastClose(<<f>> \o T)
<1> DEFINE c == <<f>> \o T
<1>1. /\ Len(T) \in Nat /\ Len(c) = Len(T) + 1 /\ c[1] = f
      /\ \A j \in 1 .. Len(T) : c[j + 1] = T[j]
  BY ConsAt
<1>2. \A p \in 1 .. Len(T) + 1 : p = 1 \/ (p - 1 \in 1 .. Len(T) /\ (p - 1) + 1 = p)
  BY <1>1
<1>3. \A p \in 1 .. Len(T) : p + 1 \in 1 .. Len(T) + 1
  BY <1>1
<1> HIDE DEF c
<1>4. \A fd \in Closing(c) : fd \in Closing(T) \/ (f.fn = "close" /\ fd = f.fd)
  <2> SUFFICES ASSUME NEW p \in 1 .. Len(c), c[p].fn = "close"
               PROVE  c[p].fd \in Closing(T) \/ (f.fn = "close" /\ c[p].fd = f.fd)
    BY DEF Closing
  <2>1. CASE p = 1
    BY <1>1, <2>1
  <2>2. CASE p - 1 \in 1 .. Len(T) /\ (p - 1) + 1 = p
    <3>1. c[p] = T[p - 1]
      BY <1>1, <2>2
    <3> QED BY <2>2, <3>1 DEF Closing
  <2> QED BY <1>1, <1>2, <2>1, <2>2
<1>5. Closing(T) \subseteq Closing(c)
  BY <1>1, <1>3 DEF Closing
<1>6. f.fn = "close" => f.fd \in Closing(c)
  BY <1>1 DEF Closing
<1>7. LastClose(c) => LastClose(T)
  <2> SUFFICES ASSUME LastClose(c), NEW p \in 1 .. Len(T), T[p].fn = "close"
               PROVE  p = Len(T)
    BY DEF LastClose
  <2>1. p + 1 \in 1 .. Len(c) /\ c[p + 1].fn = "close"
    BY <1>1, <1>3
  <2> QED BY <1>1, <2>1 DEF LastClose
<1>8. LastClose(c) /\ f.fn = "close" => T = <<>>
  <2> SUFFICES ASSUME LastClose(c), f.fn = "close" PROVE T = <<>>
    OBVIOUS
  <2>1. 1 \in 1 .. Len(c) /\ c[1].fn = "close"
    BY <1>1
  <2>2. Len(T) = 0
    BY <1>1, <2>1 DEF LastClose
  <2> QED BY <2>2, EmptySeq
<1>9. LastClose(T) /\ f.fn # "close" => LastClose(c)
  <2> SUFFICES ASSUME LastClose(T), f.fn # "close", NEW p \in 1 .. Len(c), c[p].fn = "close"
               PROVE  p = Len(c)
    BY DEF LastClose
  <2>1. p - 1 \in 1 .. Len(T) /\ c[p] = T[p - 1]
    BY <1>1, <1>2
  <2> QED BY <1>1, <2>1 DEF LastClose
<1> QED BY <1>4, <1>5, <1>6, <1>7, <1>8, <1>9 DEF c

LEMMA EmptyClosing == Closing(<<>>) = {} /\ LastClose(<<>>)
BY DEF Closing, LastClose

(* The frames a step leaves, when none of them is a close.                 *)
LEMMA ClosingOfRest ==
  ASSUME Frames, stack # <<>>, Head(stack).fn # "close"
  PROVE  Closing(stack) = Closing(Rest) /\ (LastClose(stack) => LastClose(Rest))
<1>1. stack = <<Head(stack)>> \o Rest /\ Head(stack) \in Frame /\ Rest \in Seq(Frame)
  BY StackTop
<1>2. /\ Closing(<<Head(stack)>> \o Rest) = Closing(Rest)
      /\ LastClose(<<Head(stack)>> \o Rest) => LastClose(Rest)
  BY <1>1, ConsClosing
<1> QED BY <1>1, <1>2, Zenon

LEMMA PoppedClosing ==
  ASSUME Frames, stack # <<>>, Head(stack).fn # "close", stack' = Rest
  PROVE  SameClosing
BY ClosingOfRest DEF SameClosing

LEMMA SwappedClosing ==
  ASSUME Frames, stack # <<>>, Head(stack).fn # "close",
         NEW f \in Frame, f.fn # "close", stack' = <<f>> \o Rest
  PROVE  SameClosing
<1>1. Rest \in Seq(Frame)
  BY StackTop
<1>2. Closing(stack') = Closing(Rest) /\ (LastClose(Rest) => LastClose(stack'))
  BY <1>1, ConsClosing
<1> QED BY <1>2, ClosingOfRest DEF SameClosing

LEMMA PushedClosing ==
  ASSUME Frames, NEW f \in Frame, f.fn # "close", stack' = <<f>> \o stack
  PROVE  SameClosing
BY ConsClosing DEF SameClosing, Frames

LEMMA StartedClosing ==
  ASSUME NEW f \in Frame, f.fn # "close", stack = <<>>, stack' = <<f>>
  PROVE  SameClosing /\ Closing(stack') = {}
<1>1. Closing(stack') = {} /\ LastClose(stack')
  BY DEF Closing, LastClose
<1> QED BY <1>1, EmptyClosing DEF SameClosing

LEMMA ClosingStarted ==
  ASSUME NEW f \in Frame, f.fn # "close", NEW fd \in Fds \cup {NoFd},
         stack' = <<f, CloseFrame(fd)>>
  PROVE  Closing(stack') = {fd} /\ LastClose(stack')
<1>1. /\ Len(stack') = 2 /\ stack'[1] = f /\ stack'[2] = CloseFrame(fd)
  OBVIOUS
<1>2. CloseFrame(fd).fn = "close" /\ CloseFrame(fd).fd = fd
  BY DEF CloseFrame
<1>3. \A p \in 1 .. 2 : p = 1 \/ p = 2
  OBVIOUS
<1>4. 1 \in 1 .. 2 /\ 2 \in 1 .. 2
  OBVIOUS
<1>5. Closing(stack') \subseteq {fd}
  BY <1>1, <1>2, <1>3 DEF Closing
<1>6. fd \in Closing(stack')
  BY <1>1, <1>2, <1>4 DEF Closing
<1>7. LastClose(stack')
  BY <1>1, <1>3 DEF LastClose
<1> QED BY <1>5, <1>6, <1>7

LEMMA SameStackClosing == ASSUME UNCHANGED stack PROVE SameClosing
BY DEF SameClosing

(* The handlers that hold no descriptor.                                   *)
Idle == stack # <<>> => Head(stack).fn \notin {"connect", "tls", "done", "free"}

LEMMA IdleMeans ==
  ASSUME Idle
  PROVE  FdReady /\ \A s : ~Freeing(s) /\ ~Handling(s)
BY DEF Idle, FdReady, Freeing, Handling

LEMMA PoppedIdle ==
  ASSUME Frames, stack # <<>>, stack' = Rest
  PROVE  Idle'
<1>1. stack' # <<>> => Head(stack') \in LowFrame
  BY Popped
<1> QED BY <1>1 DEF Idle, LowFrame

(* A step that leaves a socket where it is.                                *)
Undisturbed(s) ==
  /\ sd'[s].SockFD = sd[s].SockFD /\ ioFD'[s] = ioFD[s]
  /\ "IOWATCH_ACTIVE" \in sd'[s].flags <=> Watching(s)
  /\ HasFd(s) => /\ s \in ValidSocks' /\ sd'[s].connected_to # NoServer
                 /\ ~Freeing(s) /\ ~Handling(s) /\ ~Freeing(s)'
                 /\ sd[s].SockFD \in open => sd[s].SockFD \in open'
  /\ HasFd(s) \/ Watching(s) => ~Handling(s)'
  /\ \A e : e.skey = s => (e \in fd_map' <=> e \in fd_map)
  /\ \A t : t.connecting /\ t.owner = s => (t \in tls' <=> t \in tls)

LEMMA PlacedKept ==
  ASSUME NEW s \in Socks, Placed(s), Undisturbed(s)
  PROVE  Placed(s)'
<1>1. /\ HasFd(s)' <=> HasFd(s)
      /\ Watching(s)' <=> Watching(s)
      /\ Shaking(s)' <=> Shaking(s)
      /\ Streams(s)' <=> Streams(s)
  BY DEF Undisturbed, HasFd, Watching, Shaking, Streams
<1>2. CASE ~HasFd(s)
  <2>1. /\ ~HasFd(s)' /\ ~Streams(s)' /\ ~Shaking(s)'
        /\ \A e \in fd_map : e.skey # s
    BY <1>1, <1>2 DEF Placed, Shaking
  <2>2. \A e \in fd_map' : e.skey # s
    BY <2>1 DEF Undisturbed
  <2>3. \A t \in tls' : ~(t.connecting /\ t.owner = s)
    BY <2>1 DEF Shaking
  <2>4. Watching(s)' => ~Handling(s)'
    BY <1>1 DEF Undisturbed
  <2> QED BY <2>1, <2>2, <2>3, <2>4 DEF Placed
<1>3. CASE HasFd(s)
  <2>1. /\ s \in ValidSocks' /\ sd'[s].connected_to # NoServer
        /\ sd'[s].SockFD \in open' /\ [fd |-> sd'[s].SockFD, skey |-> s] \in fd_map'
    <3>1. [fd |-> sd[s].SockFD, skey |-> s].skey = s
      OBVIOUS
    <3> QED BY <1>3, <3>1 DEF Placed, Undisturbed
  <2>2. Watching(s)' \/ Shaking(s)' \/ Streams(s)'
    BY <1>1, <1>3 DEF Placed, Undisturbed
  <2>3. ~Handling(s)' /\ ~Freeing(s)'
    BY <1>3 DEF Undisturbed
  <2>4. Watching(s)' => ~Shaking(s)' /\ ~Streams(s)'
    BY <1>1 DEF Placed
  <2>5. Streams(s)' => ioFD'[s] = sd'[s].SockFD /\ ~Shaking(s)'
    BY <1>1 DEF Placed, Undisturbed
  <2>6. \A e \in fd_map' : e.skey = s => e.fd = sd'[s].SockFD
    BY DEF Placed, Undisturbed
  <2>7. \A t \in tls' : t.connecting /\ t.owner = s => t.fd = sd'[s].SockFD
    BY DEF Placed, Undisturbed
  <2> QED BY <1>1, <1>3, <2>1, <2>2, <2>3, <2>4, <2>5, <2>6, <2>7 DEF Placed
<1> QED BY <1>2, <1>3

(* A step that leaves every socket where it is.                            *)
LEMMA FdsKept ==
  ASSUME TypeOK, FInv, FdReady', SameClosing, UNCHANGED open,
         \A s \in Socks : Undisturbed(s)
  PROVE  FInv'
<1>1. AllPlaced'
  BY PlacedKept DEF FInv, AllPlaced
<1>2. \A s \in Socks : sd'[s].SockFD = sd[s].SockFD /\ (HasFd(s)' <=> HasFd(s))
  BY DEF Undisturbed, HasFd
<1>3. FdsApart'
  BY <1>2 DEF FInv, FdsApart
<1>4. OpenAgrees'
  <2>1. \A fd \in open' : fd \in Closing(stack') \/ \E s \in Socks : sd'[s].SockFD = fd
    BY <1>2 DEF FInv, OpenAgrees, SameClosing
  <2>2. ASSUME NEW fd \in Closing(stack'), NEW s \in Socks, sd'[s].SockFD = fd
        PROVE  FALSE
    <3>1. fd \in open /\ Freeing(s)
      BY <1>2, <2>2 DEF FInv, OpenAgrees, SameClosing
    <3>2. HasFd(s)
      BY <1>2, <2>2, <3>1, HttpAssumption DEF TypeOK, HasFd
    <3> QED BY <3>1, <3>2 DEF Undisturbed
  <2>3. \A fd \in Closing(stack') : fd \in open'
    BY DEF FInv, OpenAgrees, SameClosing
  <2>4. LastClose(stack')
    BY DEF FInv, OpenAgrees, SameClosing
  <2> QED BY <2>1, <2>2, <2>3, <2>4 DEF OpenAgrees
<1> QED BY <1>1, <1>3, <1>4 DEF FInv

(* A socket that is not connected has no descriptor.                       *)
LEMMA Unconnected ==
  ASSUME IInv, FInv, NEW s \in Socks,
         s \notin ValidSocks \/ sd[s].connected_to = NoServer
  PROVE  /\ ~HasFd(s) /\ sd[s].SockFD = NoFd
         /\ sd[s].connected_to = NoServer => ~Watching(s)
<1>1. ~HasFd(s)
  BY DEF FInv, AllPlaced, Placed
<1>2. sd[s].connected_to = NoServer => ~Watching(s)
  BY DEF IInv, SocketsAgree, Watching
<1> QED BY <1>1, <1>2 DEF HasFd

LEMMA QuietFds ==
  ASSUME IInv, FInv, SameClosing, FdReady', UNCHANGED <<fd_map, tls, ioFD, open>>,
         \A s \in Socks : /\ sd'[s].SockFD = sd[s].SockFD
                          /\ "IOWATCH_ACTIVE" \in sd'[s].flags <=> Watching(s)
                          /\ HasFd(s) => /\ s \in ValidSocks'
                                         /\ sd'[s].connected_to = sd[s].connected_to,
         \A s \in Socks : HasFd(s) => ~Freeing(s) /\ ~Handling(s) /\ ~Freeing(s)',
         \A s \in Socks : HasFd(s) \/ Watching(s) => ~Handling(s)'
  PROVE  FInv'
<1>1. \A s \in Socks : HasFd(s) => sd[s].connected_to # NoServer
  BY DEF FInv, AllPlaced, Placed
<1>2. \A s \in Socks : Undisturbed(s)
  BY <1>1 DEF Undisturbed
<1> QED BY <1>2, FdsKept DEF IInv

(* The common case: a handler that holds no descriptor gives way to        *)
(* another.                                                                *)
LEMMA IdleFds ==
  ASSUME IInv, FInv, Idle, Idle', SameClosing, UNCHANGED <<fd_map, tls, ioFD, open>>,
         \A s \in Socks : /\ sd'[s].SockFD = sd[s].SockFD
                          /\ "IOWATCH_ACTIVE" \in sd'[s].flags <=> Watching(s)
                          /\ HasFd(s) => /\ s \in ValidSocks'
                                         /\ sd'[s].connected_to = sd[s].connected_to
  PROVE  FInv'
<1>1. FdReady' /\ \A s : ~Freeing(s)' /\ ~Handling(s)'
  BY IdleMeans DEF Idle, FdReady, Freeing, Handling
<1> QED BY <1>1, IdleMeans, QuietFds

LEMMA HasFdValid ==
  ASSUME FInv, NEW s \in Socks, HasFd(s)
  PROVE  s \in ValidSocks /\ sd[s].connected_to # NoServer
BY DEF FInv, AllPlaced, Placed

LEMMA StutterFds ==
  ASSUME IInv, FInv, UNCHANGED vars
  PROVE  FInv'
<1>1. AllPlaced'
  BY DEF vars, FInv, AllPlaced, Placed, HasFd, Watching, Shaking, Streams, Freeing, Handling
<1>2. FdsApart' /\ FdReady'
  BY DEF vars, FInv, FdsApart, FdReady, HasFd, Watching, Shaking
<1>3. OpenAgrees'
  BY DEF vars, FInv, OpenAgrees, Freeing
<1> QED BY <1>1, <1>2, <1>3 DEF FInv

LEMMA FreeUnknownFds ==
  ASSUME IInv, FInv, Top("free"), FreeUnknown(Head(stack).s), UNCHANGED ioFD
  PROVE  FInv'
<1>1. stack # <<>> /\ Head(stack).fn = "free" /\ Head(stack).s \in Socks
  BY HeadTyped, FrameFields DEF Top, IInv
<1>2. SameClosing /\ Idle'
  BY <1>1, PoppedClosing, PoppedIdle DEF FreeUnknown, IInv
<1>3. FdReady' /\ \A s : ~Freeing(s)' /\ ~Handling(s)'
  BY <1>2, IdleMeans DEF Idle, FdReady, Freeing, Handling
<1>4. ~HasFd(Head(stack).s)
  BY <1>1, Unconnected DEF FreeUnknown
<1>5. \A s \in Socks : HasFd(s) => ~Freeing(s) /\ ~Handling(s) /\ s \in ValidSocks
  BY <1>1, <1>4, HasFdValid DEF Freeing, Handling
<1> QED BY <1>2, <1>3, <1>5, QuietFds DEF FreeUnknown, Watching

LEMMA FreeQueuedFds ==
  ASSUME IInv, FInv, Top("free"), FreeQueued(Head(stack).s), UNCHANGED ioFD
  PROVE  FInv'
<1> DEFINE q == Head(stack).s
<1>1. stack # <<>> /\ Head(stack).fn = "free" /\ q \in Socks
  BY HeadTyped, FrameFields DEF Top, IInv
<1>2. SameClosing /\ Idle'
  BY <1>1, PoppedClosing, PoppedIdle DEF FreeQueued, IInv
<1>3. FdReady' /\ \A s : ~Freeing(s)' /\ ~Handling(s)'
  BY <1>2, IdleMeans DEF Idle, FdReady, Freeing, Handling
<1>4. ~HasFd(q)
  BY <1>1, Unconnected DEF FreeQueued, IInv, QueuesAgree, Queued
<1>5. \A s \in Socks : HasFd(s) => /\ ~Freeing(s) /\ ~Handling(s)
                                   /\ s \in ValidSocks /\ s # q
  BY <1>1, <1>4, HasFdValid DEF Freeing, Handling
<1>6. \A s \in Socks : /\ sd'[s].SockFD = sd[s].SockFD
                       /\ sd'[s].connected_to = sd[s].connected_to
                       /\ "IOWATCH_ACTIVE" \in sd'[s].flags <=> Watching(s)
  BY <1>1 DEF FreeQueued, IInv, TypeOK, Watching
<1> QED BY <1>2, <1>3, <1>5, <1>6, QuietFds DEF FreeQueued

LEMMA ReapFds ==
  ASSUME IInv, FInv, QueueReap
  PROVE  FInv'
<1>1. /\ Idle /\ Idle' /\ SameClosing
      /\ QS \in Socks /\ sd[QS].connected_to = NoServer
  BY QueueTurn, SameStackClosing DEF QueueReap, Idle, Top
<1>2. ~HasFd(QS) /\ sd[QS].SockFD = NoFd /\ ~Watching(QS)
  BY <1>1, Unconnected
<1>3. sd'[QS].SockFD = NoFd /\ "IOWATCH_ACTIVE" \notin sd'[QS].flags
  BY <1>1 DEF QueueReap, Dead, NewSocket, IInv, TypeOK
<1>4. \A s \in Socks : s # QS => sd'[s] = sd[s]
  BY DEF QueueReap, IInv, TypeOK
<1>5. \A s \in Socks : /\ sd'[s].SockFD = sd[s].SockFD
                       /\ "IOWATCH_ACTIVE" \in sd'[s].flags <=> Watching(s)
                       /\ HasFd(s) => /\ s \in ValidSocks'
                                      /\ sd'[s].connected_to = sd[s].connected_to
  BY <1>2, <1>3, <1>4, HasFdValid DEF QueueReap, Watching
<1> QED BY <1>1, <1>5, IdleFds DEF QueueReap

LEMMA NextEntryIdle ==
  ASSUME IInv, Top("queue"), NextEntry
  PROVE  Idle /\ Idle' /\ SameClosing
<1>1. stack # <<>> /\ Head(stack).fn = "queue" /\ QV \in Servers /\ QI + 1 \in Nat \ {0}
  BY QueueTurn
<1>2. QueueFrame(QV, QI + 1) \in Frame /\ QueueFrame(QV, QI + 1).fn = "queue"
  BY <1>1, FramesTyped DEF QueueFrame
<1>3. Head(stack') = QueueFrame(QV, QI + 1)
  BY <1>1, <1>2, Swapped DEF NextEntry, IInv
<1>4. SameClosing
  BY <1>1, <1>2, SwappedClosing DEF NextEntry, IInv
<1> QED BY <1>1, <1>2, <1>3, <1>4 DEF Idle

LEMMA DiscardFds ==
  ASSUME IInv, FInv, QueueDiscard
  PROVE  FInv'
<1>1. /\ Idle /\ Idle' /\ SameClosing
      /\ QS \in Socks /\ sd[QS].connected_to = NoServer
  BY QueueTurn, NextEntryIdle DEF QueueDiscard
<1>2. ~HasFd(QS)
  BY <1>1, Unconnected
<1>3. \A s \in Socks : /\ sd'[s].SockFD = sd[s].SockFD
                       /\ sd'[s].connected_to = sd[s].connected_to
                       /\ "IOWATCH_ACTIVE" \in sd'[s].flags <=> Watching(s)
  BY <1>1 DEF QueueDiscard, IInv, TypeOK, Watching
<1>4. \A s \in Socks : HasFd(s) => s \in ValidSocks'
  BY <1>2, HasFdValid DEF QueueDiscard
<1> QED BY <1>1, <1>3, <1>4, IdleFds DEF QueueDiscard

LEMMA SkipFds ==
  ASSUME IInv, FInv, QueueSkip
  PROVE  FInv'
<1>1. Idle /\ Idle' /\ SameClosing
  BY NextEntryIdle DEF QueueSkip
<1>2. \A s \in Socks : HasFd(s) => s \in ValidSocks
  BY HasFdValid
<1> QED BY <1>1, <1>2, IdleFds DEF QueueSkip, Watching

LEMMA QueueConnectFds ==
  ASSUME IInv, FInv, QueueConnect
  PROVE  FInv'
<1>1. /\ stack # <<>> /\ Head(stack).fn = "queue" /\ QS \in Socks
      /\ sd[QS].connected_to = NoServer /\ Queued(QS)
  BY QueueTurn DEF QueueConnect
<1>2. ~HasFd(QS) /\ ~Watching(QS) /\ QS \in ValidSocks
  <2>1. QS \in ValidSocks
    BY <1>1 DEF QueueConnect, IInv, QueuesAgree
  <2> QED BY <1>1, <2>1, Unconnected
<1>3. /\ ConnectFrame(QS) \in Frame /\ ConnectFrame(QS).fn = "connect"
      /\ ConnectFrame(QS).s = QS
  BY <1>1, FramesTyped
<1>4. stack' # <<>> /\ Head(stack') = ConnectFrame(QS)
  BY <1>1, <1>3, QueueTurn, Pushed DEF QueueConnect, IInv
<1>5. SameClosing
  BY <1>3, PushedClosing DEF QueueConnect, IInv
<1>6. \A s \in Socks : /\ sd'[s].SockFD = sd[s].SockFD
                       /\ s # QS => sd'[s].connected_to = sd[s].connected_to
                       /\ "IOWATCH_ACTIVE" \in sd'[s].flags <=> Watching(s)
  BY <1>1 DEF QueueConnect, IInv, TypeOK, Watching
<1>7. FdReady'
  BY <1>1, <1>2, <1>3, <1>4, <1>6 DEF QueueConnect, FdReady, HasFd
<1>8. \A s \in Socks : HasFd(s) => ~Freeing(s) /\ ~Handling(s) /\ ~Freeing(s)'
  BY <1>1, <1>3, <1>4 DEF Freeing, Handling
<1>9. \A s \in Socks : HasFd(s) \/ Watching(s) => ~Handling(s)'
  BY <1>2, <1>3, <1>4 DEF Handling
<1>10. \A s \in Socks : HasFd(s) => s \in ValidSocks /\ s # QS
  BY <1>2, HasFdValid
<1> QED BY <1>5, <1>6, <1>7, <1>8, <1>9, <1>10, QuietFds DEF QueueConnect

LEMMA QueueEndFds ==
  ASSUME IInv, FInv, QueueEnd
  PROVE  FInv'
<1>1. /\ stack # <<>> /\ Head(stack).fn = "queue" /\ QV \in Servers
  BY QueueTurn DEF QueueEnd
<1>2. Idle /\ Idle' /\ SameClosing
  BY <1>1, PoppedClosing, PoppedIdle DEF QueueEnd, Idle, IInv
<1>3. CASE UNCHANGED sd
  <2>1. \A s \in Socks : HasFd(s) => s \in ValidSocks
    BY HasFdValid
  <2> QED BY <1>2, <1>3, <2>1, IdleFds DEF QueueEnd, Watching
<1>4. CASE Http_server_remove(QV)
  <2> DEFINE q == Range(server[QV].queue)
             marked == {s \in q : "TO_BE_FREED" \in sd[s].flags}
  <2>1. \A s \in q : s \in Socks /\ sd[s].connected_to = NoServer
    <3>1. q = {server[QV].queue[i] : i \in 1 .. Len(server[QV].queue)}
      <4>1. server[QV].queue \in Seq(Socks)
        BY <1>1, QueueTyped DEF IInv
      <4> QED BY <4>1 DEF Range
    <3>2. \A i \in 1 .. Len(server[QV].queue) :
            server[QV].queue[i] \in Socks /\ Queued(server[QV].queue[i])
      BY <1>1, QueueTyped DEF IInv, QueuesAgree
    <3> QED BY <3>1, <3>2 DEF IInv, QueuesAgree
  <2>2. \A s \in q : ~HasFd(s) /\ sd[s].SockFD = NoFd /\ ~Watching(s)
    BY <2>1, Unconnected
  <2>3. \A s \in Socks : sd'[s] = IF s \in marked THEN Dead(s)
                                  ELSE IF s \in q THEN [sd[s] EXCEPT !.flags = @ \ {"QUEUED"}]
                                  ELSE sd[s]
    BY <1>4 DEF Http_server_remove
  <2> HIDE DEF q
  <2>4. \A s \in marked : sd'[s].SockFD = NoFd /\ "IOWATCH_ACTIVE" \notin sd'[s].flags
    BY <2>1, <2>3 DEF Dead, NewSocket
  <2>5. \A s \in q \ marked : /\ sd'[s].SockFD = sd[s].SockFD
                              /\ "IOWATCH_ACTIVE" \in sd'[s].flags <=> Watching(s)
    <3> TAKE s \in q \ marked
    <3>1. sd'[s] = [sd[s] EXCEPT !.flags = @ \ {"QUEUED"}]
      BY <2>1, <2>3
    <3>2. sd[s] \in Socket
      BY <2>1 DEF IInv, TypeOK, Socket
    <3>3. /\ sd'[s].SockFD = sd[s].SockFD
          /\ sd'[s].flags = sd[s].flags \ {"QUEUED"}
      BY <3>1, <3>2 DEF Socket
    <3> QED BY <3>3 DEF Watching
  <2>6. \A s \in Socks \ q : sd'[s] = sd[s]
    BY <2>3
  <2>7. \A s \in Socks : /\ sd'[s].SockFD = sd[s].SockFD
                         /\ "IOWATCH_ACTIVE" \in sd'[s].flags <=> Watching(s)
                         /\ HasFd(s) => /\ s \in ValidSocks'
                                        /\ sd'[s].connected_to = sd[s].connected_to
    <3> TAKE s \in Socks
    <3>1. CASE s \in marked
      BY <2>2, <2>4, <3>1
    <3>2. CASE s \in q \ marked
      BY <2>2, <2>5, <3>2
    <3>3. CASE s \in Socks \ q
      BY <2>6, <3>3, HasFdValid DEF QueueEnd, Watching
    <3> QED BY <3>1, <3>2, <3>3
  <2> QED BY <1>2, <2>7, IdleFds DEF QueueEnd
<1> QED BY <1>3, <1>4 DEF QueueEnd

(* The socket the resolver answers is not connected yet.                   *)
LEMMA DnsCbFds ==
  ASSUME IInv, FInv, Http_dns_cb
  PROVE  FInv'
<1> PICK q : q = Head(stack).s
  OBVIOUS
<1> DEFINE v == sd[q].srv
<1>1. /\ stack # <<>> /\ Head(stack).fn = "dns" /\ q \in Socks /\ Idle
  BY HeadTyped, FrameFields DEF Http_dns_cb, Top, IInv, Idle
<1>2. Asking(q)
  BY <1>1 DEF IInv, Ready
<1>3. sd[q].connected_to = NoServer /\ v \in Servers
  BY <1>2 DEF Asking
<1>4. ~HasFd(q) /\ sd[q].SockFD = NoFd /\ ~Watching(q)
  BY <1>1, <1>3, Unconnected
<1>5. CASE stack' = Rest /\ UNCHANGED sd
  <2>1. SameClosing /\ Idle'
    BY <1>1, <1>5, PoppedClosing, PoppedIdle DEF IInv
  <2>2. \A s \in Socks : HasFd(s) => s \in ValidSocks
    BY HasFdValid
  <2> QED BY <1>1, <1>5, <2>1, <2>2, IdleFds DEF Http_dns_cb, Watching
<1>6. CASE /\ sd' = [sd EXCEPT ![q].flags = @ \cup {"QUEUED"}]
           /\ stack' = <<QueueFrame(v, 1)>> \o Rest
  <2>1. QueueFrame(v, 1) \in Frame /\ QueueFrame(v, 1).fn = "queue"
    BY <1>3, FramesTyped DEF QueueFrame
  <2>2. SameClosing
    BY <1>1, <1>6, <2>1, SwappedClosing DEF IInv
  <2>3. Head(stack') = QueueFrame(v, 1)
    BY <1>1, <1>6, <2>1, Swapped DEF IInv
  <2>4. Idle'
    BY <2>1, <2>3 DEF Idle
  <2>5. \A s \in Socks : /\ sd'[s].SockFD = sd[s].SockFD
                         /\ sd'[s].connected_to = sd[s].connected_to
                         /\ "IOWATCH_ACTIVE" \in sd'[s].flags <=> Watching(s)
    BY <1>1, <1>6 DEF IInv, TypeOK, Watching
  <2>6. \A s \in Socks : HasFd(s) => s \in ValidSocks
    BY HasFdValid
  <2> QED BY <1>1, <2>2, <2>4, <2>5, <2>6, IdleFds DEF Http_dns_cb
<1>7. CASE stack' = <<FreeFrame(q)>> \o Rest /\ UNCHANGED sd
  <2>1. /\ FreeFrame(q) \in Frame /\ FreeFrame(q).fn = "free" /\ FreeFrame(q).s = q
    BY <1>1, FramesTyped DEF FreeFrame
  <2>2. SameClosing
    BY <1>1, <1>7, <2>1, SwappedClosing DEF IInv
  <2>3. stack' # <<>> /\ Head(stack') = FreeFrame(q)
    BY <1>1, <1>7, <2>1, Swapped DEF IInv
  <2>4. NoFd \notin open /\ ~Shaking(q)
    <3>1. ~Shaking(q)
      BY <1>1, <1>4 DEF FInv, AllPlaced, Placed, Shaking
    <3> QED BY <3>1, HttpAssumption DEF IInv, TypeOK
  <2>5. FdReady'
    <3>1. ~Watching(q)' /\ ~Shaking(q)' /\ sd'[q].SockFD \notin open'
      <4>1. UNCHANGED <<sd, tls, open>>
        BY <1>7 DEF Http_dns_cb
      <4>2. ~Watching(q)' /\ ~Shaking(q)'
        BY <1>4, <2>4, <4>1 DEF Watching, Shaking
      <4> QED BY <1>4, <2>4, <4>1, <4>2
    <3> QED BY <2>1, <2>3, <3>1 DEF FdReady
  <2>6. \A s \in Socks : HasFd(s) => ~Freeing(s) /\ ~Handling(s) /\ ~Freeing(s)'
    BY <1>1, <1>4, <2>1, <2>3, IdleMeans DEF Freeing
  <2>7. \A s \in Socks : ~Handling(s)'
    BY <2>1, <2>3 DEF Handling
  <2>8. \A s \in Socks : HasFd(s) => s \in ValidSocks
    BY HasFdValid
  <2> QED BY <1>7, <2>2, <2>5, <2>6, <2>7, <2>8, QuietFds DEF Http_dns_cb, Watching
<1> QED BY <1>5, <1>6, <1>7 DEF Http_dns_cb

(* An event that concerns no descriptor.                                   *)
LEMMA EventFds ==
  ASSUME IInv, FInv, AtRest, UNCHANGED <<sd, ValidSocks, fd_map, tls, ioFD, open>>,
         stack' = stack \/ \E f \in Frame : f.fn \in {"answer", "dns"} /\ stack' = <<f>>
  PROVE  FInv'
<1>1. Idle /\ Idle' /\ SameClosing
  BY SameStackClosing, StartedClosing DEF AtRest, Idle
<1>2. \A s \in Socks : HasFd(s) => s \in ValidSocks
  BY HasFdValid
<1> QED BY <1>1, <1>2, IdleFds DEF Watching

LEMMA ServeFds ==
  ASSUME IInv, FInv, Dns_serve_channel
  PROVE  FInv'
<1>1. /\ stack # <<>> /\ Head(stack).fn = "answer" /\ Head(stack).success \in BOOLEAN /\ Idle
  BY HeadTyped, FrameFields DEF Dns_serve_channel, Top, IInv, Idle
<1>2. \A s \in Socks : HasFd(s) => s \in ValidSocks
  BY HasFdValid
<1>3. CASE stack' = Rest
  <2>1. SameClosing /\ Idle'
    BY <1>1, <1>3, PoppedClosing, PoppedIdle DEF IInv
  <2> QED BY <1>1, <1>2, <2>1, IdleFds DEF Dns_serve_channel, Watching
<1>4. ASSUME NEW i \in 1 .. Len(waitDns),
             stack' = <<DnsFrame(waitDns[i], Head(stack).success)>> \o stack
      PROVE  FInv'
  <2> DEFINE f == DnsFrame(waitDns[i], Head(stack).success)
  <2>1. f \in Frame /\ f.fn = "dns"
    <3>1. waitDns[i] \in Socks
      BY ElementOfSeq DEF IInv, TypeOK
    <3> QED BY <1>1, <3>1, FramesTyped
  <2> HIDE DEF f
  <2>2. SameClosing
    BY <1>4, <2>1, PushedClosing DEF IInv, f
  <2>3. Head(stack) \in LowFrame
    BY <1>1, HeadTyped DEF LowFrame, IInv
  <2>4. Head(stack') = f
    BY <1>1, <1>4, <2>1, <2>3, Pushed DEF IInv, f
  <2>5. Idle'
    BY <2>1, <2>4 DEF Idle
  <2> QED BY <1>1, <1>2, <2>2, <2>5, IdleFds DEF Dns_serve_channel, Watching
<1> QED BY <1>3, <1>4 DEF Dns_serve_channel, Waiting

LEMMA GetFds ==
  ASSUME IInv, FInv, NEW s \in Socks, NEW v \in Servers, NEW image \in BOOLEAN,
         Http_get(s, v, image)
  PROVE  FInv'
<1>1. /\ DnsFrame(s, TRUE) \in Frame /\ DnsFrame(s, TRUE).fn = "dns"
  BY FramesTyped
<1>2. Idle /\ Idle' /\ SameClosing
  <2>1. AtRest /\ (stack' = stack \/ stack' = <<DnsFrame(s, TRUE)>>)
    BY DEF Http_get
  <2>2. SameClosing
    BY <1>1, <2>1, SameStackClosing, StartedClosing DEF AtRest
  <2>3. Idle
    BY <2>1 DEF AtRest, Idle
  <2>4. CASE stack' = stack
    BY <2>2, <2>3, <2>4 DEF Idle
  <2>5. CASE stack' = <<DnsFrame(s, TRUE)>>
    <3>1. Head(stack') = DnsFrame(s, TRUE)
      BY <2>5
    <3> QED BY <1>1, <2>2, <2>3, <3>1 DEF Idle
  <2> QED BY <2>1, <2>2, <2>3, <2>4, <2>5
<1>3. \A r \in Socks : /\ sd'[r].SockFD = sd[r].SockFD
                       /\ sd'[r].connected_to = sd[r].connected_to
                       /\ "IOWATCH_ACTIVE" \in sd'[r].flags <=> Watching(r)
  BY DEF Http_get, IInv, TypeOK, Watching
<1>4. \A r \in Socks : HasFd(r) => r \in ValidSocks'
  BY HasFdValid DEF Http_get
<1> QED BY <1>2, <1>3, <1>4, IdleFds DEF Http_get

LEMMA EventsFds ==
  ASSUME IInv, FInv,
         \/ \E s \in Socks : WebClose(s)
         \/ \E t \in tls : TlsDoubt(t)
         \/ \E v \in Servers, r \in BOOLEAN : DnsAnswer(v, r)
  PROVE  FInv'
<1>1. CASE \E s \in Socks : WebClose(s)
  BY <1>1, EventFds DEF WebClose
<1>2. CASE \E t \in tls : TlsDoubt(t)
  BY <1>2, EventFds DEF TlsDoubt
<1>3. ASSUME NEW v \in Servers, NEW r \in BOOLEAN, DnsAnswer(v, r) PROVE FInv'
  <2>1. AnswerFrame(v, r) \in Frame /\ AnswerFrame(v, r).fn = "answer"
    BY FramesTyped
  <2> QED BY <1>3, <2>1, EventFds DEF DnsAnswer
<1> QED BY <1>1, <1>2, <1>3

LEMMA Others ==
  ASSUME FInv, NEW c \in Socks, Placed(c)',
         \A r \in Socks : r # c => Undisturbed(r)
  PROVE  AllPlaced'
BY PlacedKept DEF FInv, AllPlaced

(* A connecting TLS connection is known by its descriptor.                 *)
LEMMA ShakingOwner ==
  ASSUME IInv, FInv, NEW c \in Socks, NEW t \in tls, t.connecting,
         t.fd = sd[c].SockFD \/ t.owner = c
  PROVE  t.owner = c /\ t.fd = sd[c].SockFD /\ HasFd(c) /\ t.fd \in Fds
<1>1. t.owner \in Socks /\ t.fd \in Fds
  BY DEF IInv, TypeOK
<1>2. HasFd(t.owner) /\ t.fd = sd[t.owner].SockFD
  BY <1>1 DEF FInv, AllPlaced, Placed
<1>3. t.owner = c
  BY <1>1, <1>2 DEF FInv, FdsApart
<1> QED BY <1>1, <1>2, <1>3

LEMMA FreeUnqueuedFds ==
  ASSUME IInv, FInv, Top("free"), FreeUnqueued(Head(stack).s), UNCHANGED ioFD
  PROVE  FInv'
<1> PICK c : c = Head(stack).s
  OBVIOUS
<1>1. stack # <<>> /\ Head(stack).fn = "free" /\ c \in Socks /\ FreeUnqueued(c)
  BY HeadTyped, FrameFields DEF Top, IInv
<1>2. /\ sd'[c].SockFD = NoFd /\ sd'[c].flags = {}
      /\ \A r \in Socks : r # c => sd'[r] = sd[r]
  <2>1. sd'[c] = Dead(c) /\ \A r \in Socks : r # c => sd'[r] = sd[r]
    BY <1>1 DEF FreeUnqueued, IInv, TypeOK
  <2> QED BY <2>1 DEF Dead, NewSocket
<1>3. Placed(c) /\ Freeing(c) /\ ~Streams(c)
  BY <1>1 DEF FInv, AllPlaced, Placed, Freeing
<1>4. \A r \in Socks : ~Handling(r) /\ (r # c => ~Freeing(r))
  BY <1>1 DEF Handling, Freeing
<1>5. SameClosing /\ Idle'
  <2>1. CASE stack' = Rest
    BY <1>1, <2>1, PoppedClosing, PoppedIdle DEF IInv
  <2>2. CASE sd[c].connected_to # NoServer /\ GiveBackSlot(sd[c].connected_to)
    <3>1. PICK v \in Servers : v = sd[c].connected_to
      BY <1>1, <2>2 DEF IInv, TypeOK
    <3>2. /\ QueueFrame(v, 1) \in Frame /\ QueueFrame(v, 1).fn = "queue"
          /\ stack' = <<QueueFrame(v, 1)>> \o Rest
      <4>1. stack' = <<QueueFrame(v, 1)>> \o Rest
        BY <2>2, <3>1 DEF GiveBackSlot
      <4>2. QueueFrame(v, 1) \in Frame
        BY FramesTyped
      <4> QED BY <4>1, <4>2 DEF QueueFrame
    <3>3. SameClosing
      BY <1>1, <3>2, SwappedClosing DEF IInv
    <3>4. Head(stack') = QueueFrame(v, 1)
      BY <1>1, <3>2, Swapped DEF IInv
    <3> QED BY <3>2, <3>3, <3>4 DEF Idle
  <2> QED BY <1>1, <2>1, <2>2 DEF FreeUnqueued
<1>6. FdReady' /\ \A s : ~Freeing(s)' /\ ~Handling(s)'
  BY <1>5, IdleMeans DEF Idle, FdReady, Freeing, Handling
<1>7. \A r \in Socks : r # c /\ HasFd(r) => sd[r].SockFD # sd[c].SockFD
  BY <1>1 DEF FInv, FdsApart
<1>8. /\ \A t \in tls' : t \in tls
      /\ \A t \in tls : t.fd # sd[c].SockFD => t \in tls'
      /\ HasFd(c) => \A t \in tls' : t.fd # sd[c].SockFD
  BY <1>1, <1>3 DEF FreeUnqueued, TlsConns, Placed
<1>9. /\ \A e \in fd_map' : e \in fd_map /\ e.fd # sd[c].SockFD
      /\ \A e \in fd_map : e.fd # sd[c].SockFD => e \in fd_map'
  BY <1>1 DEF FreeUnqueued, Http_fd_map_remove_entry
<1>10. /\ \A fd \in open' : fd \in open
       /\ \A fd \in open : fd # sd[c].SockFD => fd \in open'
       /\ sd[c].SockFD \in open' => ~Watching(c) /\ ~Shaking(c)
       /\ sd[c].SockFD \in open /\ ~Watching(c) /\ ~Shaking(c) => sd[c].SockFD \in open'
  <2>1. open' = open \ ClosedByFree(c) /\ ClosedByFree(c) \subseteq {sd[c].SockFD}
    BY <1>1 DEF FreeUnqueued, ClosedByFree
  <2>2. Shaking(c) => sd[c].SockFD \in ClosedByFree(c)
    <3> SUFFICES ASSUME NEW t \in tls, t.connecting, t.owner = c
                 PROVE  sd[c].SockFD \in ClosedByFree(c)
      BY DEF Shaking
    <3>1. t \in TlsConns(sd[c].SockFD) /\ sd[c].connected_to # NoServer
      BY <1>1, ShakingOwner, HasFdValid DEF TlsConns
    <3> QED BY <3>1 DEF ClosedByFree
  <2>3. Watching(c) => sd[c].SockFD \in ClosedByFree(c)
    BY DEF ClosedByFree, Watching
  <2>4. sd[c].SockFD \in ClosedByFree(c) => Watching(c) \/ Shaking(c)
    <3> SUFFICES ASSUME NEW t \in TlsConns(sd[c].SockFD), t.connecting
                 PROVE  Shaking(c)
      BY DEF ClosedByFree, Watching
    <3>1. t \in tls /\ t.owner = c
      BY <1>1, ShakingOwner DEF TlsConns
    <3> QED BY <3>1 DEF Shaking
  <2> QED BY <2>1, <2>2, <2>3, <2>4
<1>11. \A r \in Socks : r # c => Undisturbed(r)
  <2> SUFFICES ASSUME NEW r \in Socks, r # c PROVE Undisturbed(r)
    OBVIOUS
  <2>1. Placed(r) /\ sd'[r] = sd[r]
    BY <1>2 DEF FInv, AllPlaced
  <2>2. HasFd(r) => /\ r \in ValidSocks' /\ sd'[r].connected_to # NoServer
                    /\ sd[r].SockFD \in open => sd[r].SockFD \in open'
    BY <1>1, <1>7, <1>10, <2>1, HasFdValid DEF FreeUnqueued
  <2>3. \A e : e.skey = r => (e \in fd_map' <=> e \in fd_map)
    BY <1>7, <1>9, <2>1 DEF Placed
  <2>4. \A t : t.connecting /\ t.owner = r => (t \in tls' <=> t \in tls)
    BY <1>1, <1>8, ShakingOwner
  <2> QED BY <1>4, <1>6, <2>1, <2>2, <2>3, <2>4 DEF Undisturbed, Watching
<1>12. Placed(c)'
  <2>1. ~HasFd(c)' /\ ~Watching(c)' /\ ~Streams(c)'
    BY <1>2, <1>3 DEF HasFd, Watching, Streams
  <2>2. \A e \in fd_map' : e.skey # c
    BY <1>3, <1>9 DEF Placed
  <2>3. \A t \in tls' : t.connecting => t.owner # c
    BY <1>1, <1>8, ShakingOwner
  <2> QED BY <2>1, <2>2, <2>3 DEF Placed
<1>13. FdsApart'
  BY <1>2 DEF FInv, FdsApart, HasFd
<1>14. OpenAgrees'
  <2>1. ASSUME NEW fd \in open', fd \notin Closing(stack')
        PROVE  \E s \in Socks : sd'[s].SockFD = fd
    <3>1. fd \in open /\ fd \notin Closing(stack)
      BY <1>5, <1>10, <2>1 DEF SameClosing
    <3>2. PICK s \in Socks : sd[s].SockFD = fd
      BY <3>1 DEF FInv, OpenAgrees
    <3>3. s # c
      BY <1>1, <1>10, <3>1, <3>2 DEF FInv, FdReady
    <3> QED BY <1>2, <3>2, <3>3
  <2>2. ASSUME NEW fd \in Closing(stack')
        PROVE  fd \in open' /\ \A s \in Socks : sd'[s].SockFD # fd
    <3>1. fd \in Closing(stack) /\ fd \in open /\ fd # NoFd
      BY <1>5, HttpAssumption DEF SameClosing, FInv, OpenAgrees, IInv, TypeOK
    <3>2. \A s \in Socks : s # c => sd[s].SockFD # fd
      BY <1>4, <3>1 DEF FInv, OpenAgrees
    <3>3. sd[c].SockFD = fd => ~Watching(c) /\ ~Shaking(c)
      BY <1>1, <3>1 DEF FInv, FdReady
    <3> QED BY <1>2, <1>10, <3>1, <3>2, <3>3
  <2>3. LastClose(stack')
    BY <1>5 DEF SameClosing, FInv, OpenAgrees
  <2> QED BY <2>1, <2>2, <2>3 DEF OpenAgrees
<1>15. AllPlaced'
  BY <1>1, <1>11, <1>12, Others
<1> QED BY <1>6, <1>13, <1>14, <1>15 DEF FInv

(* The handler of the socket c is at the top of the stack.                 *)
LEMMA AtTop ==
  ASSUME IInv, FInv, NEW c \in Socks, Top("connect") \/ Top("tls"), Head(stack).s = c
  PROVE  /\ Placed(c) /\ Handling(c) /\ ~Watching(c) /\ ~Shaking(c) /\ ~Streams(c)
         /\ c \in ValidSocks
         /\ \A r \in Socks : ~Freeing(r) /\ (r # c => ~Handling(r))
         /\ HasFd(c) => sd[c].SockFD \in open /\ sd[c].SockFD \notin Closing(stack)
<1>1. Placed(c) /\ Handling(c) /\ \A r \in Socks : ~Freeing(r) /\ (r # c => ~Handling(r))
  BY DEF Top, Handling, Freeing, FInv, AllPlaced
<1>2. ~Watching(c) /\ ~Shaking(c) /\ ~Streams(c)
  BY <1>1 DEF Placed, Shaking
<1>3. HasFd(c) => sd[c].SockFD \in open /\ sd[c].SockFD \notin Closing(stack)
  BY <1>1 DEF Placed, FInv, OpenAgrees
<1>4. c \in ValidSocks
  <2>1. CASE Top("connect")
    BY <2>1 DEF Top, FInv, FdReady
  <2>2. CASE Top("tls")
    <3>1. HasFd(c)
      BY <2>2, HttpAssumption DEF Top, IInv, Ready, HasFd
    <3> QED BY <3>1, HasFdValid
  <2> QED BY <2>1, <2>2
<1> QED BY <1>1, <1>2, <1>3, <1>4

(* The descriptor of the address that failed.                              *)
LEMMA Stale ==
  ASSUME IInv, FInv, Top("connect")
  PROVE  /\ CS \in Socks
         /\ HasFd(CS) => StaleFd = {sd[CS].SockFD}
         /\ ~HasFd(CS) => StaleFd = {}
         /\ \A r \in Socks : r # CS /\ HasFd(r) => sd[r].SockFD \notin StaleFd
         /\ \A e \in fd_map : e.skey # CS => e.fd \notin StaleFd
         /\ \A e \in fd_map : e.skey = CS => e.fd \in StaleFd
         /\ \A fd \in Closing(stack) : fd \notin StaleFd
<1>1. CS \in Socks /\ stack # <<>> /\ Head(stack).fn = "connect"
  BY HeadTyped, FrameFields DEF Top, IInv, CS
<1>2. HasFd(CS) => sd[CS].idx > 0
  BY <1>1 DEF FInv, FdReady, CS
<1>3. /\ HasFd(CS) => StaleFd = {sd[CS].SockFD}
      /\ ~HasFd(CS) => StaleFd = {}
  BY <1>2 DEF StaleFd, HasFd
<1>4. \A r \in Socks : r # CS /\ HasFd(r) => sd[r].SockFD \notin StaleFd
  BY <1>1, <1>3 DEF FInv, FdsApart
<1>5. \A e \in fd_map : e.skey \in Socks /\ HasFd(e.skey) /\ e.fd = sd[e.skey].SockFD
  <2> TAKE e \in fd_map
  <2>1. e.skey \in Socks
    BY DEF IInv, TypeOK
  <2> QED BY <2>1 DEF FInv, AllPlaced, Placed
<1>6. \A fd \in Closing(stack) : fd \notin StaleFd
  BY <1>1, <1>3, AtTop DEF CS
<1> QED BY <1>1, <1>3, <1>4, <1>5, <1>6

LEMMA ConnectNoSocketFds ==
  ASSUME IInv, FInv, ConnectNoSocket
  PROVE  FInv'
<1> PICK c : c = CS
  OBVIOUS
<1>1. stack # <<>> /\ Head(stack).fn = "connect" /\ c \in Socks /\ Head(stack).s = c
  BY Stale DEF ConnectNoSocket, Top, CS
<1>2. /\ sd'[c].SockFD = NoFd /\ "IOWATCH_ACTIVE" \notin sd'[c].flags
      /\ \A r \in Socks : r # c => sd'[r] = sd[r]
  <2>1. "IOWATCH_ACTIVE" \notin sd[c].flags
    BY <1>1 DEF IInv, Ready
  <2> QED BY <1>1, <2>1 DEF ConnectNoSocket, IInv, TypeOK
<1>3. /\ Placed(c) /\ ~Watching(c) /\ ~Shaking(c) /\ ~Streams(c) /\ c \in ValidSocks
      /\ \A r \in Socks : ~Freeing(r) /\ (r # c => ~Handling(r))
  BY <1>1, AtTop DEF Top
<1>4. stack' = stack /\ SameClosing
  BY SameStackClosing DEF ConnectNoSocket
<1>5. \A r \in Socks : ~Freeing(r)' /\ (r # c => ~Handling(r)')
  BY <1>1, <1>4 DEF Freeing, Handling
<1>6. \A r \in Socks : r # c => Undisturbed(r)
  <2> SUFFICES ASSUME NEW r \in Socks, r # c PROVE Undisturbed(r)
    OBVIOUS
  <2>1. Placed(r) /\ sd'[r] = sd[r]
    BY <1>2 DEF FInv, AllPlaced
  <2>2. HasFd(r) => /\ r \in ValidSocks' /\ sd'[r].connected_to # NoServer
                    /\ sd[r].SockFD \in open => sd[r].SockFD \in open'
    BY <2>1, HasFdValid, Stale DEF ConnectNoSocket
  <2>3. \A e : e.skey = r => (e \in fd_map' <=> e \in fd_map)
    BY Stale DEF ConnectNoSocket, FdMapWithoutStale
  <2> QED BY <1>3, <1>5, <2>1, <2>2, <2>3 DEF Undisturbed, Watching, ConnectNoSocket
<1>7. Placed(c)'
  <2>1. ~HasFd(c)' /\ ~Watching(c)' /\ ~Streams(c)' /\ ~Shaking(c)'
    BY <1>2, <1>3 DEF HasFd, Watching, Streams, Shaking, ConnectNoSocket
  <2>2. \A e \in fd_map' : e.skey # c
    BY Stale DEF ConnectNoSocket, FdMapWithoutStale
  <2> QED BY <2>1, <2>2 DEF Placed, Shaking
<1>8. AllPlaced'
  BY <1>1, <1>6, <1>7, Others
<1>9. FdsApart'
  BY <1>2 DEF FInv, FdsApart, HasFd
<1>10. OpenAgrees'
  <2>1. ASSUME NEW fd \in open', fd \notin Closing(stack')
        PROVE  \E s \in Socks : sd'[s].SockFD = fd
    <3>1. fd \in open /\ fd \notin StaleFd /\ fd \notin Closing(stack) /\ fd # NoFd
      BY <1>4, <2>1, HttpAssumption DEF SameClosing, ConnectNoSocket, IInv, TypeOK
    <3>2. PICK s \in Socks : sd[s].SockFD = fd
      BY <3>1 DEF FInv, OpenAgrees
    <3>3. s # c
      BY <3>1, <3>2, Stale DEF HasFd, ConnectNoSocket
    <3> QED BY <1>2, <3>2, <3>3
  <2>2. ASSUME NEW fd \in Closing(stack')
        PROVE  fd \in open' /\ \A s \in Socks : sd'[s].SockFD # fd
    <3>1. fd \in Closing(stack) /\ fd \in open /\ fd # NoFd
      BY <1>4, HttpAssumption DEF SameClosing, FInv, OpenAgrees, IInv, TypeOK
    <3>2. \A s \in Socks : sd[s].SockFD # fd
      BY <1>3, <3>1 DEF FInv, OpenAgrees
    <3> QED BY <1>2, <3>1, <3>2, Stale DEF ConnectNoSocket
  <2>3. LastClose(stack')
    BY <1>4 DEF SameClosing, FInv, OpenAgrees
  <2> QED BY <2>1, <2>2, <2>3 DEF OpenAgrees
<1>11. FdReady'
  BY <1>1, <1>2, <1>3, <1>4 DEF FdReady, HasFd, ConnectNoSocket
<1> QED BY <1>8, <1>9, <1>10, <1>11 DEF FInv

(* connect() on the next address, whatever comes of it.                    *)
LEMMA ConnectAddrFds ==
  ASSUME IInv, FInv, NEW fd \in Fds, NEW res, ConnectAddr(fd, res),
         res \in {"pending", "connected", "error"}
  PROVE  FInv'
<1> PICK c : c = CS
  OBVIOUS
<1>1. stack # <<>> /\ Head(stack).fn = "connect" /\ c \in Socks /\ Head(stack).s = c
      /\ Top("connect")
  BY Stale DEF ConnectAddr, Top, CS
<1>2. /\ sd'[c].SockFD = fd /\ sd'[c].connected_to = sd[c].connected_to
      /\ "IOWATCH_ACTIVE" \in sd'[c].flags <=> res = "pending"
      /\ res = "error" => sd'[c].idx > 0
      /\ \A r \in Socks : r # c => sd'[r] = sd[r]
  <2>1. "IOWATCH_ACTIVE" \notin sd[c].flags
    BY <1>1 DEF IInv, Ready
  <2>2. sd[c].idx \in Nat
    BY <1>1, HttpAssumption DEF IInv, TypeOK
  <2>3. CASE res = "pending"
    BY <1>1, <2>3 DEF ConnectAddr, IInv, TypeOK
  <2>4. CASE res = "connected"
    <3>1. sd' = [sd EXCEPT ![c].SockFD = fd]
      BY <2>4 DEF ConnectAddr
    <3> QED BY <1>1, <2>1, <2>4, <3>1 DEF IInv, TypeOK
  <2>5. CASE res = "error"
    <3>1. sd' = [sd EXCEPT ![c].SockFD = fd, ![c].idx = @ + 1]
      BY <2>5 DEF ConnectAddr
    <3>2. /\ sd'[c].SockFD = fd /\ sd'[c].connected_to = sd[c].connected_to
          /\ sd'[c].flags = sd[c].flags /\ sd'[c].idx = sd[c].idx + 1
      BY <1>1, <3>1 DEF IInv, TypeOK
    <3>3. \A r \in Socks : r # c => sd'[r] = sd[r]
      BY <3>1 DEF IInv, TypeOK
    <3> QED BY <2>1, <2>2, <2>5, <3>2, <3>3
  <2> QED BY <2>3, <2>4, <2>5
<1>3. /\ Placed(c) /\ ~Watching(c) /\ ~Shaking(c) /\ ~Streams(c) /\ c \in ValidSocks
      /\ \A r \in Socks : ~Freeing(r) /\ (r # c => ~Handling(r))
  BY <1>1, AtTop
<1>4. /\ UNCHANGED <<ValidSocks, tls, ioFD>> /\ open' = (open \ StaleFd) \cup {fd}
      /\ fd_map' = FdMapWithoutStale \cup {[fd |-> fd, skey |-> c]}
      /\ fd \notin open \ StaleFd /\ fd # NoFd
  BY HttpAssumption DEF ConnectAddr
<1>5. \A r \in Socks : r # c => sd[r].SockFD # fd
  <2> SUFFICES ASSUME NEW r \in Socks, r # c, sd[r].SockFD = fd PROVE FALSE
    OBVIOUS
  <2>1. HasFd(r) /\ Placed(r)
    BY <1>4 DEF HasFd, FInv, AllPlaced
  <2>2. fd \in open
    BY <1>3, <2>1 DEF Placed
  <2> QED BY <1>1, <1>4, <2>1, <2>2, Stale
<1>6. /\ SameClosing /\ FdReady' /\ \A r \in Socks : ~Freeing(r)'
      /\ res = "pending" => \A r \in Socks : ~Handling(r)'
      /\ res # "pending" => \A r \in Socks : Handling(r)' <=> r = c
  <2>1. CASE res = "pending"
    <3>1. stack' = Rest
      BY <2>1 DEF ConnectAddr
    <3>2. SameClosing /\ Idle'
      BY <1>1, <3>1, PoppedClosing, PoppedIdle DEF IInv
    <3>3. FdReady' /\ \A s : ~Freeing(s)' /\ ~Handling(s)'
      BY <3>2, IdleMeans DEF Idle, FdReady, Freeing, Handling
    <3> QED BY <2>1, <3>2, <3>3
  <2>2. ASSUME res = "connected", NEW f \in Frame, stack' = <<f>> \o Rest,
               \/ f.fn = "tls" /\ f.s = c
               \/ f.fn = "done" /\ f.fd = fd
        PROVE  /\ SameClosing /\ FdReady' /\ \A r \in Socks : ~Freeing(r)'
               /\ \A r \in Socks : Handling(r)' <=> r = c
    <3>1. SameClosing
      BY <1>1, <2>2, SwappedClosing DEF IInv
    <3>2. stack' # <<>> /\ Head(stack') = f
      BY <1>1, <2>2, Swapped DEF IInv
    <3>3. FdReady' /\ \A r \in Socks : ~Freeing(r)'
      BY <2>2, <3>2 DEF FdReady, Freeing
    <3>4. \A r \in Socks : sd'[r].SockFD = fd <=> r = c
      BY <1>2, <1>5
    <3>5. \A r \in Socks : Handling(r)' <=> r = c
      BY <1>4, <2>2, <3>2, <3>4 DEF Handling, HasFd
    <3> QED BY <3>1, <3>3, <3>5
  <2>3. CASE res = "connected"
    <3>1. TlsFrame(c) \in Frame /\ TlsFrame(c).fn = "tls" /\ TlsFrame(c).s = c
      BY <1>1, FramesTyped
    <3>2. DoneFrame(fd, TRUE) \in Frame /\ DoneFrame(fd, TRUE).fn = "done"
      BY FramesTyped
    <3>3. DoneFrame(fd, TRUE).fd = fd
      BY DEF DoneFrame
    <3>4. stack' = <<Connected(c, fd)>> \o Rest
      BY <2>3 DEF ConnectAddr
    <3>5. Connected(c, fd) = TlsFrame(c) \/ Connected(c, fd) = DoneFrame(fd, TRUE)
      BY DEF Connected
    <3>6. CASE Connected(c, fd) = TlsFrame(c)
      BY <2>2, <2>3, <3>1, <3>4, <3>6
    <3>7. CASE Connected(c, fd) = DoneFrame(fd, TRUE)
      BY <2>2, <2>3, <3>2, <3>3, <3>4, <3>7
    <3> QED BY <3>5, <3>6, <3>7
  <2>4. CASE res = "error"
    <3>1. stack' = stack
      BY <2>4 DEF ConnectAddr
    <3>2. FdReady'
      BY <1>1, <1>2, <1>3, <1>4, <2>4, <3>1 DEF FdReady
    <3>3. \A r \in Socks : ~Freeing(r)' /\ (Handling(r)' <=> r = c)
      BY <1>1, <3>1 DEF Freeing, Handling
    <3> QED BY <2>4, <3>1, <3>2, <3>3, SameStackClosing
  <2> QED BY <2>1, <2>2, <2>3, <2>4
<1>7. \A r \in Socks : r # c => Undisturbed(r)
  <2> SUFFICES ASSUME NEW r \in Socks, r # c PROVE Undisturbed(r)
    OBVIOUS
  <2>1. Placed(r) /\ sd'[r] = sd[r]
    BY <1>2 DEF FInv, AllPlaced
  <2>2. HasFd(r) => /\ r \in ValidSocks' /\ sd'[r].connected_to # NoServer
                    /\ sd[r].SockFD \in open => sd[r].SockFD \in open'
    BY <1>1, <1>4, <2>1, HasFdValid, Stale
  <2>3. \A e : e.skey = r => (e \in fd_map' <=> e \in fd_map)
    <3>1. [fd |-> fd, skey |-> c].skey = c
      OBVIOUS
    <3> QED BY <1>1, <1>4, <3>1, Stale DEF FdMapWithoutStale
  <2>4. ~Freeing(r) /\ ~Handling(r) /\ ~Freeing(r)' /\ ~Handling(r)'
    BY <1>3, <1>6
  <2> QED BY <1>4, <2>1, <2>2, <2>3, <2>4 DEF Undisturbed, Watching
<1>8. Placed(c)'
  <2>1. HasFd(c)' /\ c \in ValidSocks' /\ sd'[c].connected_to # NoServer
    BY <1>1, <1>2, <1>3, <1>4 DEF HasFd, IInv, Ready
  <2>2. ~Streams(c)' /\ ~Shaking(c)' /\ ~Freeing(c)'
    BY <1>1, <1>3, <1>4, <1>6 DEF Streams, Shaking
  <2>3. Watching(c)' <=> res = "pending"
    BY <1>2 DEF Watching
  <2>4. Handling(c)' <=> res # "pending"
    BY <1>1, <1>6
  <2>5. [fd |-> sd'[c].SockFD, skey |-> c] \in fd_map' /\ sd'[c].SockFD \in open'
    BY <1>2, <1>4
  <2>6. \A e \in fd_map' : e.skey = c => e.fd = sd'[c].SockFD
    <3>1. [fd |-> fd, skey |-> c].fd = fd
      OBVIOUS
    <3> QED BY <1>1, <1>2, <1>4, <3>1, Stale DEF FdMapWithoutStale
  <2> QED BY <2>1, <2>2, <2>3, <2>4, <2>5, <2>6 DEF Placed, Shaking
<1>9. AllPlaced'
  BY <1>1, <1>7, <1>8, Others
<1>10. FdsApart'
  BY <1>2, <1>5 DEF FInv, FdsApart, HasFd
<1>11. OpenAgrees'
  <2>1. ASSUME NEW g \in open', g \notin Closing(stack')
        PROVE  \E s \in Socks : sd'[s].SockFD = g
    <3>1. CASE g = fd
      BY <1>1, <1>2, <3>1
    <3>2. CASE g \in open /\ g \notin StaleFd
      <4>1. g \notin Closing(stack) /\ g # NoFd
        BY <1>6, <2>1, <3>2, HttpAssumption DEF SameClosing, IInv, TypeOK
      <4>2. PICK s \in Socks : sd[s].SockFD = g
        BY <3>2, <4>1 DEF FInv, OpenAgrees
      <4>3. s # c
        BY <1>1, <3>2, <4>1, <4>2, Stale DEF HasFd
      <4> QED BY <1>2, <4>2, <4>3
    <3> QED BY <1>4, <3>1, <3>2
  <2>2. ASSUME NEW g \in Closing(stack')
        PROVE  g \in open' /\ \A s \in Socks : sd'[s].SockFD # g
    <3>1. g \in Closing(stack) /\ g \in open /\ g \notin StaleFd
      BY <1>1, <1>6, Stale DEF SameClosing, FInv, OpenAgrees
    <3>2. \A s \in Socks : sd[s].SockFD # g
      BY <1>3, <3>1 DEF FInv, OpenAgrees
    <3> QED BY <1>2, <1>4, <3>1, <3>2
  <2>3. LastClose(stack')
    BY <1>6 DEF SameClosing, FInv, OpenAgrees
  <2> QED BY <2>1, <2>2, <2>3 DEF OpenAgrees
<1> QED BY <1>6, <1>9, <1>10, <1>11 DEF FInv

(* The socket at the top of the stack hands over to another handler of     *)
(* its own, or lets go of nothing: its descriptor stays where it is.       *)
LEMMA ConnectGivesUpFds ==
  ASSUME IInv, FInv, ConnectGivesUp
  PROVE  FInv'
<1> PICK c : c = CS
  OBVIOUS
<1>1. stack # <<>> /\ Head(stack).fn = "connect" /\ c \in Socks /\ Head(stack).s = c
  BY Stale DEF ConnectGivesUp, Top, CS
<1> PICK f : f = DoneFrame(sd[c].SockFD, FALSE)
  OBVIOUS
<1>2. f \in Frame /\ f.fn = "done" /\ f.fd = sd[c].SockFD
  <2>1. DoneFrame(sd[c].SockFD, FALSE).fd = sd[c].SockFD
    BY DEF DoneFrame
  <2>2. sd[c].SockFD \in Fds \cup {NoFd}
    BY <1>1 DEF IInv, TypeOK
  <2> QED BY <2>1, <2>2, FramesTyped
<1>3. stack' = <<f>> \o Rest
  BY DEF ConnectGivesUp
<1>4. SameClosing /\ stack' # <<>> /\ Head(stack') = f
  BY <1>1, <1>2, <1>3, SwappedClosing, Swapped DEF IInv
<1>5. UNCHANGED <<sd, ValidSocks, fd_map, tls, ioFD, open>>
  BY DEF ConnectGivesUp
<1>6. /\ Placed(c) /\ ~Watching(c) /\ ~Shaking(c) /\ ~Streams(c) /\ Handling(c)
      /\ \A r \in Socks : ~Freeing(r) /\ (r # c => ~Handling(r))
      /\ HasFd(c) => sd[c].SockFD \in open
  BY <1>1, AtTop DEF Top
<1>7. FdReady' /\ \A r \in Socks : ~Freeing(r)' /\ (r # c => ~Handling(r)')
  <2>1. \A r \in Socks : HasFd(r) /\ sd[r].SockFD = sd[c].SockFD => r = c
    BY <1>1 DEF FInv, FdsApart
  <2> QED BY <1>2, <1>4, <1>5, <2>1 DEF FdReady, Freeing, Handling, HasFd
<1>8. \A r \in Socks : r # c => Undisturbed(r)
  BY <1>5, <1>6, <1>7, HasFdValid DEF Undisturbed, Watching
<1>9. Placed(c)'
  <2>1. HasFd(c) => Handling(c)'
    BY <1>2, <1>4, <1>5 DEF Handling, HasFd
  <2>2. ~Watching(c)' /\ ~Shaking(c)' /\ ~Streams(c)' /\ (HasFd(c)' <=> HasFd(c))
    BY <1>5, <1>6 DEF Watching, Shaking, Streams, HasFd
  <2> QED BY <1>5, <1>6, <2>1, <2>2 DEF Placed, Shaking
<1>10. AllPlaced'
  BY <1>1, <1>8, <1>9, Others
<1>11. FdsApart'
  BY <1>5 DEF FInv, FdsApart, HasFd
<1>12. OpenAgrees'
  BY <1>4, <1>5, <1>6 DEF FInv, OpenAgrees, SameClosing
<1> QED BY <1>7, <1>10, <1>11, <1>12 DEF FInv

(* The handshake starts, or the certificate is known to be bad.            *)
LEMMA ConnectTlsFds ==
  ASSUME IInv, FInv, Http_connect_tls
  PROVE  FInv'
<1> PICK c : c = Head(stack).s
  OBVIOUS
<1>1. stack # <<>> /\ Head(stack).fn = "tls" /\ c \in Socks /\ Head(stack).s = c
  BY HeadTyped, FrameFields DEF Http_connect_tls, Top, IInv
<1>2. sd[c].SockFD \in Fds /\ HasFd(c)
  BY <1>1, HttpAssumption DEF IInv, Ready, HasFd
<1>3. UNCHANGED <<sd, ValidSocks, fd_map, ioFD, open>>
  BY DEF Http_connect_tls
<1>4. /\ Placed(c) /\ ~Watching(c) /\ ~Shaking(c) /\ ~Streams(c) /\ Handling(c)
      /\ \A r \in Socks : ~Freeing(r) /\ (r # c => ~Handling(r))
      /\ sd[c].SockFD \in open
  BY <1>1, <1>2, AtTop DEF Top
<1>5. \A r \in Socks : HasFd(r) /\ sd[r].SockFD = sd[c].SockFD => r = c
  BY <1>1 DEF FInv, FdsApart
<1>6. ASSUME FdReady', SameClosing,
             \A r \in Socks : ~Freeing(r)' /\ (r # c => ~Handling(r)'),
             \A t : t.connecting /\ t.owner # c => (t \in tls' <=> t \in tls),
             \A t \in tls' : t.connecting /\ t.owner = c => t.fd = sd[c].SockFD,
             Handling(c)' <=> ~Shaking(c)'
      PROVE  FInv'
  <2>1. \A r \in Socks : r # c => Undisturbed(r)
    BY <1>3, <1>4, <1>6, HasFdValid DEF Undisturbed, Watching
  <2>2. Placed(c)'
    <3>1. ~Watching(c)' /\ ~Streams(c)' /\ HasFd(c)' /\ ~Freeing(c)'
      BY <1>1, <1>2, <1>3, <1>4, <1>6 DEF Watching, Streams, HasFd
    <3>2. \A t \in tls' : t.connecting /\ t.owner = c => ~Handling(c)'
      BY <1>6 DEF Shaking
    <3> QED BY <1>2, <1>3, <1>4, <1>6, <3>1, <3>2 DEF Placed
  <2>3. AllPlaced'
    BY <1>1, <2>1, <2>2, Others
  <2>4. FdsApart'
    BY <1>3 DEF FInv, FdsApart, HasFd
  <2>5. OpenAgrees'
    BY <1>3, <1>4, <1>6 DEF FInv, OpenAgrees, SameClosing
  <2> QED BY <1>6, <2>3, <2>4, <2>5 DEF FInv
<1>7. CASE stack' = <<DoneFrame(sd[c].SockFD, FALSE)>> \o Rest /\ UNCHANGED tls
  <2> PICK f : f = DoneFrame(sd[c].SockFD, FALSE)
    OBVIOUS
  <2>1. f \in Frame /\ f.fn = "done" /\ f.fd = sd[c].SockFD
    <3>1. DoneFrame(sd[c].SockFD, FALSE).fd = sd[c].SockFD
      BY DEF DoneFrame
    <3> QED BY <1>2, <3>1, FramesTyped
  <2>2. SameClosing /\ stack' # <<>> /\ Head(stack') = f
    BY <1>1, <1>7, <2>1, SwappedClosing, Swapped DEF IInv
  <2>3. FdReady' /\ \A r \in Socks : ~Freeing(r)' /\ (r # c => ~Handling(r)')
    BY <1>3, <1>5, <2>1, <2>2 DEF FdReady, Freeing, Handling, HasFd
  <2>4. Handling(c)' /\ ~Shaking(c)'
    BY <1>2, <1>3, <1>4, <1>7, <2>1, <2>2 DEF Handling, HasFd, Shaking
  <2> QED BY <1>4, <1>6, <1>7, <2>2, <2>3, <2>4 DEF Shaking
<1>8. CASE /\ tls' = tls \cup {[fd |-> sd[c].SockFD, owner |-> c, connecting |-> TRUE]}
           /\ stack' = Rest
  <2> PICK n : n = [fd |-> sd[c].SockFD, owner |-> c, connecting |-> TRUE]
    OBVIOUS
  <2>1. n.fd = sd[c].SockFD /\ n.owner = c /\ n.connecting /\ tls' = tls \cup {n}
    BY <1>8
  <2>2. SameClosing /\ Idle'
    BY <1>1, <1>8, PoppedClosing, PoppedIdle DEF IInv
  <2>3. FdReady' /\ \A s : ~Freeing(s)' /\ ~Handling(s)'
    BY <2>2, IdleMeans DEF Idle, FdReady, Freeing, Handling
  <2>4. Shaking(c)'
    BY <2>1 DEF Shaking
  <2> QED BY <1>4, <1>6, <2>1, <2>2, <2>3, <2>4 DEF Shaking
<1> QED BY <1>7, <1>8 DEF Http_connect_tls

LEMMA OwnerOf ==
  ASSUME IInv, FInv, NEW fd, NEW s \in FdOwners(fd)
  PROVE  s \in Socks /\ HasFd(s) /\ sd[s].SockFD = fd
<1>1. PICK e \in fd_map : e.skey = s /\ e.fd = fd
  BY DEF FdOwners
<1>2. s \in Socks
  BY <1>1 DEF IInv, TypeOK
<1> QED BY <1>1, <1>2 DEF FInv, AllPlaced, Placed

(* a_Http_connect_done: nobody's descriptor is ignored; the owner of one   *)
(* streams over it, or has it closed and is freed.                         *)
LEMMA DoneFds ==
  ASSUME IInv, FInv, a_Http_connect_done
  PROVE  FInv'
<1> PICK fd : fd = Head(stack).fd
  OBVIOUS
<1>1. stack # <<>> /\ Head(stack).fn = "done"
  BY DEF a_Http_connect_done, Top
<1>2. UNCHANGED <<sd, ValidSocks, fd_map, tls>>
  BY DEF a_Http_connect_done
<1>3. CASE FdOwners(fd) = {} /\ stack' = Rest /\ UNCHANGED <<ioFD, open>>
  <2>1. SameClosing /\ Idle'
    BY <1>1, <1>3, PoppedClosing, PoppedIdle DEF IInv
  <2>2. FdReady' /\ \A s : ~Freeing(s)' /\ ~Handling(s)'
    BY <2>1, IdleMeans DEF Idle, FdReady, Freeing, Handling
  <2>3. \A s \in Socks : HasFd(s) => ~Freeing(s) /\ ~Handling(s) /\ s \in ValidSocks
    <3> SUFFICES ASSUME NEW s \in Socks, HasFd(s)
                 PROVE  ~Freeing(s) /\ ~Handling(s) /\ s \in ValidSocks
      OBVIOUS
    <3>1. s \in ValidSocks /\ [fd |-> sd[s].SockFD, skey |-> s] \in fd_map
      BY DEF FInv, AllPlaced, Placed
    <3>2. sd[s].SockFD = fd => s \in FdOwners(fd)
      BY <3>1 DEF FdOwners
    <3> QED BY <1>1, <1>3, <3>1, <3>2 DEF Freeing, Handling
  <2> QED BY <1>2, <1>3, <2>1, <2>2, <2>3, QuietFds DEF Watching
<1>4. ASSUME NEW c \in FdOwners(fd),
             \/ /\ ioFD' = [ioFD EXCEPT ![c] = fd]
                /\ stack' = Rest /\ UNCHANGED open
             \/ /\ open' = open \ {fd}
                /\ stack' = <<FreeFrame(c)>> \o Rest /\ UNCHANGED ioFD
      PROVE  FInv'
  <2>1. c \in Socks /\ HasFd(c) /\ sd[c].SockFD = fd /\ Placed(c) /\ Handling(c)
    BY <1>1, OwnerOf DEF FInv, AllPlaced, Placed, Handling
  <2>2. \A r \in Socks : HasFd(r) /\ sd[r].SockFD = fd => r = c
    BY <2>1 DEF FInv, FdsApart
  <2>3. \A r \in Socks : ~Freeing(r) /\ (r # c => ~Handling(r))
    BY <1>1, <2>1, <2>2 DEF Handling, Freeing
  <2>4. ~Watching(c) /\ ~Shaking(c) /\ ~Streams(c) /\ fd \in open
    BY <2>1, <2>3 DEF Placed, Shaking
  <2>5. \A r \in Socks : r # c => ioFD'[r] = ioFD[r]
    BY <1>4 DEF IInv, TypeOK
  <2>6. FdsApart'
    BY <1>2 DEF FInv, FdsApart, HasFd
  <2>7. \A g \in Closing(stack) : g \in open /\ g # fd /\ \A s \in Socks : sd[s].SockFD # g
    BY <2>1, <2>3 DEF FInv, OpenAgrees
  <2>8. CASE ioFD' = [ioFD EXCEPT ![c] = fd] /\ stack' = Rest /\ UNCHANGED open
    <3>1. SameClosing /\ Idle'
      BY <1>1, <2>8, PoppedClosing, PoppedIdle DEF IInv
    <3>2. FdReady' /\ \A s : ~Freeing(s)' /\ ~Handling(s)'
      BY <3>1, IdleMeans DEF Idle, FdReady, Freeing, Handling
    <3>3. \A r \in Socks : r # c => Undisturbed(r)
      BY <1>2, <2>3, <2>5, <2>8, <3>2, HasFdValid DEF Undisturbed, Watching
    <3>4. Placed(c)'
      <4>1. ioFD'[c] = fd
        BY <2>1, <2>8 DEF IInv, TypeOK
      <4>2. /\ Streams(c)' /\ ~Watching(c)' /\ ~Shaking(c)'
            /\ HasFd(c)' /\ sd'[c].SockFD = fd /\ ioFD'[c] = fd
        BY <1>2, <2>1, <2>4, <4>1 DEF Streams, Watching, Shaking, HasFd
      <4>3. /\ c \in ValidSocks' /\ sd'[c].connected_to # NoServer /\ fd \in open'
            /\ [fd |-> fd, skey |-> c] \in fd_map'
            /\ \A e \in fd_map' : e.skey = c => e.fd = fd
            /\ \A t \in tls' : ~(t.connecting /\ t.owner = c)
        BY <1>2, <2>1, <2>4, <2>8 DEF Placed, Shaking
      <4> QED BY <3>2, <4>2, <4>3 DEF Placed
    <3>5. AllPlaced'
      BY <2>1, <3>3, <3>4, Others
    <3>6. OpenAgrees'
      BY <1>2, <2>7, <2>8, <3>1 DEF FInv, OpenAgrees, SameClosing
    <3> QED BY <2>6, <3>2, <3>5, <3>6 DEF FInv
  <2>9. CASE open' = open \ {fd} /\ stack' = <<FreeFrame(c)>> \o Rest /\ UNCHANGED ioFD
    <3>1. FreeFrame(c) \in Frame /\ FreeFrame(c).fn = "free" /\ FreeFrame(c).s = c
      BY <2>1, FramesTyped DEF FreeFrame
    <3>2. SameClosing /\ stack' # <<>> /\ Head(stack') = FreeFrame(c)
      BY <1>1, <2>9, <3>1, SwappedClosing, Swapped DEF IInv
    <3>3. \A r \in Socks : ~Handling(r)' /\ (Freeing(r)' <=> r = c)
      BY <3>1, <3>2 DEF Handling, Freeing
    <3>4. \A r \in Socks : r # c => Undisturbed(r)
      BY <1>2, <2>2, <2>3, <2>9, <3>3, HasFdValid DEF Undisturbed, Watching
    <3>5. Placed(c)'
      <4>1. /\ ~Streams(c)' /\ ~Watching(c)' /\ ~Shaking(c)' /\ Freeing(c)'
            /\ HasFd(c)' /\ sd'[c].SockFD = fd
        BY <1>2, <2>1, <2>4, <2>9, <3>3 DEF Streams, Watching, Shaking, HasFd
      <4>2. /\ c \in ValidSocks' /\ sd'[c].connected_to # NoServer
            /\ [fd |-> fd, skey |-> c] \in fd_map'
            /\ \A e \in fd_map' : e.skey = c => e.fd = fd
            /\ \A t \in tls' : ~(t.connecting /\ t.owner = c)
        BY <1>2, <2>1, <2>4 DEF Placed, Shaking
      <4> QED BY <4>1, <4>2 DEF Placed
    <3>6. AllPlaced'
      BY <2>1, <3>4, <3>5, Others
    <3>7. FdReady'
      <4>1. sd'[c].SockFD \notin open' /\ sd'[c].SockFD \notin Closing(stack')
        BY <1>2, <2>1, <2>7, <2>9, <3>2 DEF SameClosing
      <4> QED BY <3>1, <3>2, <4>1 DEF FdReady
    <3>8. OpenAgrees'
      BY <1>2, <2>7, <2>9, <3>2 DEF FInv, OpenAgrees, SameClosing
    <3> QED BY <2>6, <3>6, <3>7, <3>8 DEF FInv
  <2> QED BY <1>4, <2>8, <2>9
<1> QED BY <1>3, <1>4 DEF a_Http_connect_done

LEMMA NobodyAtRest ==
  ASSUME AtRest
  PROVE  \A s : ~Freeing(s) /\ ~Handling(s)
BY DEF AtRest, Freeing, Handling

(* A socket that was waiting for the kernel or for TLS is handled: its     *)
(* descriptor is at the top of the stack.                                  *)
LEMMA Wakes ==
  ASSUME IInv, FInv, AtRest, NEW c \in Socks, HasFd(c), ~Streams(c),
         NEW f \in Frame, stack' = <<f>>,
         \/ f.fn \in {"connect", "tls"} /\ f.s = c /\ (f.fn = "connect" => sd'[c].idx > 0)
         \/ f.fn = "done" /\ f.fd = sd[c].SockFD,
         UNCHANGED <<ValidSocks, fd_map, ioFD, open>>,
         \A r \in Socks : /\ sd'[r].SockFD = sd[r].SockFD
                          /\ sd'[r].connected_to = sd[r].connected_to
                          /\ r # c => ("IOWATCH_ACTIVE" \in sd'[r].flags <=> Watching(r)),
         "IOWATCH_ACTIVE" \notin sd'[c].flags,
         \A t : t.connecting /\ t.owner # c => (t \in tls' <=> t \in tls),
         \A t \in tls' : ~(t.connecting /\ t.owner = c)
  PROVE  FInv'
<1>1. Placed(c) /\ c \in ValidSocks /\ sd[c].SockFD \in open
  BY NobodyAtRest, HasFdValid DEF FInv, AllPlaced, Placed
<1>2. SameClosing /\ stack' # <<>> /\ Head(stack') = f
  BY StartedClosing DEF AtRest
<1>3. \A r \in Socks : HasFd(r) /\ sd[r].SockFD = sd[c].SockFD => r = c
  BY DEF FInv, FdsApart
<1>4. \A r \in Socks : HasFd(r)' <=> HasFd(r)
  BY DEF HasFd
<1>5. \A r \in Socks : ~Freeing(r)' /\ (Handling(r)' <=> r = c)
  BY <1>2, <1>3, <1>4 DEF Freeing, Handling
<1>6. \A r \in Socks : r # c => Undisturbed(r)
  BY <1>5, NobodyAtRest, HasFdValid DEF Undisturbed
<1>7. Placed(c)'
  <2>1. ~Watching(c)' /\ ~Shaking(c)' /\ ~Streams(c)' /\ HasFd(c)' /\ Handling(c)'
    BY <1>4, <1>5 DEF Watching, Shaking, Streams
  <2>2. /\ c \in ValidSocks' /\ sd'[c].connected_to # NoServer /\ sd'[c].SockFD \in open'
        /\ [fd |-> sd'[c].SockFD, skey |-> c] \in fd_map'
        /\ \A e \in fd_map' : e.skey = c => e.fd = sd'[c].SockFD
    BY <1>1, HasFdValid DEF Placed
  <2> QED BY <2>1, <2>2 DEF Placed, Shaking
<1>8. AllPlaced'
  BY <1>6, <1>7, Others
<1>9. FdsApart'
  BY <1>4 DEF FInv, FdsApart
<1>10. OpenAgrees'
  <2>1. Closing(stack') = {} /\ Closing(stack) = {}
    BY StartedClosing, EmptyClosing DEF AtRest
  <2> QED BY <1>2, <2>1 DEF FInv, OpenAgrees, SameClosing
<1>11. FdReady'
  BY <1>1, <1>2 DEF FdReady
<1> QED BY <1>8, <1>9, <1>10, <1>11 DEF FInv

LEMMA FinishFds ==
  ASSUME IInv, FInv, AtRest, NEW t \in tls, t.connecting, NEW r \in BOOLEAN, Tls_finish(t, r)
  PROVE  FInv'
<1> PICK c : c = t.owner
  OBVIOUS
<1>1. c \in Socks /\ HasFd(c) /\ t.fd = sd[c].SockFD /\ t.fd \in Fds
  <2>1. c \in Socks
    BY DEF IInv, TypeOK
  <2> QED BY <2>1, ShakingOwner
<1>2. Placed(c) /\ Shaking(c) /\ ~Streams(c) /\ ~Watching(c)
  BY <1>1 DEF FInv, AllPlaced, Placed, Shaking
<1>3. \A u \in tls : u.connecting /\ u.owner = c => u = t
  <2> TAKE u \in tls
  <2> HAVE u.connecting /\ u.owner = c
  <2>1. u.fd = t.fd
    BY <1>1, ShakingOwner
  <2>2. /\ u \in [fd : Fds, owner : Socks, connecting : BOOLEAN]
        /\ t \in [fd : Fds, owner : Socks, connecting : BOOLEAN]
    BY DEF IInv, TypeOK
  <2> QED BY <2>1, <2>2
<1>4. \A u \in tls' : ~(u.connecting /\ u.owner = c)
  <2>1. [t EXCEPT !.connecting = FALSE].connecting = FALSE
    BY DEF IInv, TypeOK
  <2> QED BY <1>3, <2>1 DEF Tls_finish
<1>5. \A u : u.connecting /\ u.owner # c => (u \in tls' <=> u \in tls)
  <2>1. [t EXCEPT !.connecting = FALSE].connecting = FALSE
    BY DEF IInv, TypeOK
  <2> QED BY <2>1 DEF Tls_finish
<1>6. /\ DoneFrame(t.fd, r) \in Frame /\ DoneFrame(t.fd, r).fn = "done"
      /\ DoneFrame(t.fd, r).fd = t.fd
  BY <1>1, FramesTyped DEF DoneFrame
<1>7. /\ stack' = <<DoneFrame(t.fd, r)>>
      /\ UNCHANGED <<sd, ValidSocks, fd_map, ioFD, open>>
  BY DEF Tls_finish
<1> QED BY <1>1, <1>2, <1>4, <1>5, <1>6, <1>7, Wakes DEF Watching

LEMMA TlsFds ==
  ASSUME IInv, FInv,
         \/ \E t \in tls : TlsFails(t) \/ TlsClean(t)
         \/ \E s \in Socks, accepts \in BOOLEAN : TlsUserAnswers(s, accepts)
  PROVE  FInv'
<1>1. CASE \E t \in tls : TlsFails(t) \/ TlsClean(t)
  BY <1>1, FinishFds DEF TlsFails, TlsClean
<1>2. ASSUME NEW s \in Socks, NEW r \in BOOLEAN, TlsUserAnswers(s, r) PROVE FInv'
  <2>1. CASE \E t \in tls : t.connecting /\ Tls_finish(t, r)
    BY <1>2, <2>1, FinishFds DEF TlsUserAnswers
  <2>2. CASE UNCHANGED <<sd, ValidSocks, fd_map, tls, ioFD, open, stack>>
    BY <1>2, <2>2, EventFds DEF TlsUserAnswers
  <2> QED BY <1>2, <2>1, <2>2 DEF TlsUserAnswers
<1> QED BY <1>1, <1>2

LEMMA SocketCbFds ==
  ASSUME IInv, FInv, NEW s \in Socks, NEW success \in BOOLEAN,
         Http_connect_socket_cb(s, success)
  PROVE  FInv'
<1>1. AtRest /\ sd[s].SockFD \in Fds /\ Watching(s) /\ sd[s].idx \in Nat
  BY HttpAssumption DEF Http_connect_socket_cb, IInv, TypeOK, Watching
<1>2. HasFd(s) /\ ~Streams(s) /\ ~Shaking(s)
  BY <1>1, HttpAssumption DEF HasFd, FInv, AllPlaced, Placed
<1>3. /\ \A r \in Socks : /\ sd'[r].SockFD = sd[r].SockFD
                          /\ sd'[r].connected_to = sd[r].connected_to
                          /\ r # s => ("IOWATCH_ACTIVE" \in sd'[r].flags <=> Watching(r))
      /\ "IOWATCH_ACTIVE" \notin sd'[s].flags
      /\ ~success => sd'[s].idx > 0
  <2>1. sd' = [sd EXCEPT ![s].flags = @ \ {"IOWATCH_ACTIVE"},
                         ![s].idx = IF success THEN @ ELSE @ + 1]
    BY DEF Http_connect_socket_cb
  <2>2. /\ sd'[s].SockFD = sd[s].SockFD /\ sd'[s].connected_to = sd[s].connected_to
        /\ sd'[s].flags = sd[s].flags \ {"IOWATCH_ACTIVE"}
        /\ ~success => sd'[s].idx = sd[s].idx + 1
    BY <2>1 DEF IInv, TypeOK
  <2>3. \A r \in Socks : r # s => sd'[r] = sd[r]
    BY <2>1 DEF IInv, TypeOK
  <2> QED BY <1>1, <2>2, <2>3 DEF Watching
<1>4. UNCHANGED <<ValidSocks, fd_map, ioFD, open, tls>>
  BY DEF Http_connect_socket_cb
<1>5. \A t \in tls' : ~(t.connecting /\ t.owner = s)
  BY <1>2, <1>4 DEF Shaking
<1>6. /\ ConnectFrame(s) \in Frame /\ ConnectFrame(s).fn = "connect" /\ ConnectFrame(s).s = s
      /\ TlsFrame(s) \in Frame /\ TlsFrame(s).fn = "tls" /\ TlsFrame(s).s = s
  BY FramesTyped
<1>7. /\ DoneFrame(sd[s].SockFD, TRUE) \in Frame
      /\ DoneFrame(sd[s].SockFD, TRUE).fn = "done"
      /\ DoneFrame(sd[s].SockFD, TRUE).fd = sd[s].SockFD
  BY <1>1, FramesTyped DEF DoneFrame
<1>8. ASSUME NEW f \in Frame, stack' = <<f>>,
             \/ f.fn \in {"connect", "tls"} /\ f.s = s /\ (f.fn = "connect" => sd'[s].idx > 0)
             \/ f.fn = "done" /\ f.fd = sd[s].SockFD
      PROVE  FInv'
  BY <1>1, <1>2, <1>3, <1>4, <1>5, <1>8, Wakes
<1>9. CASE stack' = <<ConnectFrame(s)>> /\ ~success
  BY <1>3, <1>6, <1>8, <1>9
<1>10. CASE stack' = <<TlsFrame(s)>>
  BY <1>6, <1>8, <1>10
<1>11. CASE stack' = <<DoneFrame(sd[s].SockFD, TRUE)>>
  BY <1>7, <1>8, <1>11
<1> QED BY <1>9, <1>10, <1>11 DEF Http_connect_socket_cb, Connected

(* A request that streams ends: its socket is freed, and its descriptor    *)
(* closed after that.                                                      *)
LEMMA StreamEndsFds ==
  ASSUME IInv, FInv, AtRest, NEW c \in Socks, Streams(c),
         ioFD' = [ioFD EXCEPT ![c] = NoFd],
         stack' = <<FreeFrame(c), CloseFrame(sd[c].SockFD)>>,
         UNCHANGED <<sd, ValidSocks, fd_map, tls, open>>
  PROVE  FInv'
<1> PICK fd : fd = sd[c].SockFD
  OBVIOUS
<1>1. /\ Placed(c) /\ HasFd(c) /\ ~Watching(c) /\ ~Shaking(c)
      /\ fd \in open /\ c \in ValidSocks
  BY NobodyAtRest, HasFdValid DEF FInv, AllPlaced, Placed
<1>2. fd \in Fds \cup {NoFd}
  BY DEF IInv, TypeOK
<1>3. /\ FreeFrame(c) \in Frame /\ FreeFrame(c).fn = "free" /\ FreeFrame(c).s = c
      /\ CloseFrame(fd) \in LowFrame /\ CloseFrame(fd).fn = "close"
  BY <1>2, FramesTyped DEF FreeFrame
<1>4. stack' # <<>> /\ Head(stack') = FreeFrame(c)
  BY <1>3, Started DEF AtRest
<1>5. Closing(stack') = {fd} /\ LastClose(stack')
  BY <1>2, <1>3, ClosingStarted
<1>6. \A r \in Socks : ~Handling(r)' /\ (Freeing(r)' <=> r = c)
  BY <1>3, <1>4 DEF Handling, Freeing
<1>7. ioFD'[c] = NoFd /\ \A r \in Socks : r # c => ioFD'[r] = ioFD[r]
  BY DEF IInv, TypeOK
<1>8. \A r \in Socks : r # c => Undisturbed(r)
  BY <1>6, <1>7, NobodyAtRest, HasFdValid DEF Undisturbed, Watching
<1>9. Placed(c)'
  <2>1. /\ ~Streams(c)' /\ ~Watching(c)' /\ ~Shaking(c)' /\ Freeing(c)'
        /\ HasFd(c)' /\ ~Handling(c)'
    BY <1>1, <1>6, <1>7 DEF Streams, Watching, Shaking, HasFd
  <2>2. /\ c \in ValidSocks' /\ sd'[c].connected_to # NoServer
        /\ [fd |-> sd'[c].SockFD, skey |-> c] \in fd_map'
        /\ \A e \in fd_map' : e.skey = c => e.fd = sd'[c].SockFD
    BY <1>1 DEF Placed
  <2> QED BY <2>1, <2>2 DEF Placed, Shaking
<1>10. AllPlaced'
  BY <1>8, <1>9, Others
<1>11. FdsApart'
  BY DEF FInv, FdsApart, HasFd
<1>12. OpenAgrees'
  <2>1. \A g \in open' : g \in Closing(stack') \/ \E s \in Socks : sd'[s].SockFD = g
    BY EmptyClosing DEF AtRest, FInv, OpenAgrees
  <2>2. \A s \in Socks : sd'[s].SockFD = fd => Freeing(s)'
    BY <1>1, <1>6 DEF FInv, FdsApart, HasFd
  <2> QED BY <1>1, <1>5, <2>1, <2>2 DEF OpenAgrees
<1>13. FdReady'
  <2>1. ~Watching(c)' /\ ~Shaking(c)' /\ sd'[c].SockFD \in Closing(stack')
    BY <1>1, <1>5 DEF Watching, Shaking
  <2> QED BY <1>3, <1>4, <2>1 DEF FdReady
<1> QED BY <1>10, <1>11, <1>12, <1>13 DEF FInv

(* A request ends before it streams: its socket is freed, and that closes  *)
(* the descriptor, if there is one.                                        *)
LEMMA AbortFds ==
  ASSUME IInv, FInv, AtRest, NEW c \in Socks, ~Streams(c),
         ioFD' = [ioFD EXCEPT ![c] = NoFd], stack' = <<FreeFrame(c)>>,
         UNCHANGED <<sd, ValidSocks, fd_map, tls, open>>
  PROVE  FInv'
<1>1. Placed(c) /\ \A s : ~Freeing(s) /\ ~Handling(s)
  BY NobodyAtRest DEF FInv, AllPlaced
<1>2. FreeFrame(c) \in Frame /\ FreeFrame(c).fn = "free" /\ FreeFrame(c).s = c
  BY FramesTyped DEF FreeFrame
<1>3. stack' # <<>> /\ Head(stack') = FreeFrame(c)
  BY <1>2, Started DEF AtRest
<1>4. SameClosing /\ Closing(stack') = {} /\ Closing(stack) = {}
  BY <1>2, StartedClosing, EmptyClosing DEF AtRest
<1>5. \A r \in Socks : ~Handling(r)' /\ (Freeing(r)' <=> r = c)
  BY <1>2, <1>3 DEF Handling, Freeing
<1>6. \A r \in Socks : ioFD'[r] = ioFD[r]
  BY DEF IInv, TypeOK, Streams
<1>7. \A r \in Socks : r # c => Undisturbed(r)
  BY <1>1, <1>5, <1>6, HasFdValid DEF Undisturbed, Watching
<1>8. Placed(c)'
  <2>1. /\ ~Streams(c)' /\ Freeing(c)' /\ ~Handling(c)'
        /\ Watching(c)' <=> Watching(c)
        /\ Shaking(c)' <=> Shaking(c)
        /\ HasFd(c)' <=> HasFd(c)
    BY <1>5, <1>6 DEF Streams, Watching, Shaking, HasFd
  <2>2. /\ HasFd(c) => /\ c \in ValidSocks' /\ sd'[c].connected_to # NoServer
                       /\ [fd |-> sd'[c].SockFD, skey |-> c] \in fd_map'
        /\ \A e \in fd_map' : e.skey = c => HasFd(c) /\ e.fd = sd'[c].SockFD
        /\ \A t \in tls' : t.connecting /\ t.owner = c => HasFd(c) /\ t.fd = sd'[c].SockFD
        /\ Watching(c) => ~Shaking(c)
    BY <1>1 DEF Placed
  <2> QED BY <2>1, <2>2 DEF Placed
<1>9. AllPlaced'
  BY <1>7, <1>8, Others
<1>10. FdsApart'
  BY DEF FInv, FdsApart, HasFd
<1>11. OpenAgrees'
  BY <1>4 DEF FInv, OpenAgrees, SameClosing
<1>12. FdReady'
  <2>1. sd'[c].SockFD \in open' => Watching(c)' \/ Shaking(c)'
    <3> SUFFICES ASSUME sd[c].SockFD \in open PROVE Watching(c)' \/ Shaking(c)'
      OBVIOUS
    <3>1. HasFd(c)
      BY HttpAssumption DEF IInv, TypeOK, HasFd
    <3>2. Watching(c) \/ Shaking(c)
      BY <1>1, <3>1 DEF Placed
    <3> QED BY <3>2 DEF Watching, Shaking
  <2> QED BY <1>2, <1>3, <1>4, <2>1 DEF FdReady
<1> QED BY <1>9, <1>10, <1>11, <1>12 DEF FInv

LEMMA EndsFds ==
  ASSUME "write" \notin IoErrors, IInv, FInv, NEW s \in Socks,
         IoEof(s) \/ (\E b \in IoErrors \ {"socket"} : IoError(s, b)) \/ Abort(s)
  PROVE  FInv'
<1>1. /\ AtRest /\ ioFD' = [ioFD EXCEPT ![s] = NoFd]
      /\ UNCHANGED <<sd, ValidSocks, fd_map, tls, open>>
  BY DEF IoEof, IoError, Abort, Ends
<1>2. CASE Streams(s)
  <2>1. ioFD[s] = sd[s].SockFD
    BY <1>2 DEF FInv, AllPlaced, Placed
  <2>2. stack' = <<FreeFrame(s), CloseFrame(ioFD[s])>>
    BY <1>2 DEF IoEof, IoError, Abort, Streams
  <2> QED BY <1>1, <1>2, <2>1, <2>2, StreamEndsFds
<1>3. CASE ~Streams(s)
  <2>1. stack' = <<FreeFrame(s)>>
    BY <1>3 DEF IoEof, IoError, Abort, Streams, Streaming
  <2> QED BY <1>1, <1>3, <2>1, AbortFds
<1> QED BY <1>2, <1>3

(* The descriptor of the stack is closed, when all handlers are done.      *)
LEMMA CloseFds ==
  ASSUME IInv, FInv, IO_close_fd
  PROVE  FInv'
<1> PICK fd : fd = Head(stack).fd
  OBVIOUS
<1>1. stack # <<>> /\ Head(stack).fn = "close" /\ open' = open \ {fd} /\ stack' = Rest
      /\ UNCHANGED <<sd, ValidSocks, fd_map, tls, ioFD>>
  BY DEF IO_close_fd, Top
<1>2. stack' = <<>> /\ Closing(stack) = {fd} /\ Closing(stack') = {}
  <2>1. stack = <<Head(stack)>> \o Rest /\ Head(stack) \in Frame /\ Rest \in Seq(Frame)
    BY <1>1, StackTop DEF IInv
  <2> PICK c : c = <<Head(stack)>> \o Rest
    OBVIOUS
  <2>2. LastClose(c)
    BY <2>1 DEF FInv, OpenAgrees
  <2>3. Rest = <<>> /\ Closing(c) = Closing(Rest) \cup {fd}
    BY <1>1, <2>1, <2>2, ConsClosing
  <2>4. Closing(Rest) = {}
    BY <2>3, EmptyClosing
  <2>5. Closing(stack) = Closing(c)
    BY <2>1
  <2> QED BY <1>1, <2>3, <2>4, <2>5
<1>3. \A s : ~Freeing(s) /\ ~Handling(s) /\ ~Freeing(s)' /\ ~Handling(s)'
  BY <1>1, <1>2 DEF Freeing, Handling
<1>4. \A s \in Socks : sd[s].SockFD # fd
  BY <1>2, <1>3 DEF FInv, OpenAgrees
<1>5. \A s \in Socks : Undisturbed(s)
  BY <1>1, <1>3, <1>4, HasFdValid DEF Undisturbed, Watching
<1>6. AllPlaced'
  BY <1>5, PlacedKept DEF FInv, AllPlaced
<1>7. FdsApart' /\ FdReady'
  BY <1>1, <1>2 DEF FInv, FdsApart, HasFd, FdReady
<1>8. OpenAgrees'
  BY <1>1, <1>2, EmptyClosing DEF FInv, OpenAgrees
<1> QED BY <1>6, <1>7, <1>8 DEF FInv

(* Http_socket_reuse: the descriptor and its place go to a queued socket,  *)
(* and the socket that had them is gone.                                   *)
LEMMA HandedOver ==
  ASSUME IInv, FInv, AtRest, NEW s \in Socks, Streams(s), NEW n \in Socks, Queued(n),
         "TO_BE_FREED" \notin sd[n].flags, NEW fd, fd = sd[s].SockFD,
         NEW v \in Servers, v = sd[s].connected_to,
         ioFD' = [ioFD EXCEPT ![s] = NoFd], ValidSocks' = ValidSocks \ {s},
         sd' = [sd EXCEPT ![s] = Dead(s), ![n].SockFD = fd, ![n].connected_to = v,
                          ![n].flags = @ \ {"QUEUED"}],
         fd_map' = Http_fd_map_remove_entry(fd) \cup {[fd |-> fd, skey |-> n]},
         stack' = <<DoneFrame(fd, TRUE)>>, UNCHANGED <<tls, open>>
  PROVE  FInv'
<1>1. /\ Placed(s) /\ HasFd(s) /\ ~Watching(s) /\ ~Shaking(s) /\ fd \in open
      /\ s \in ValidSocks /\ fd # NoFd /\ \A r : ~Freeing(r) /\ ~Handling(r)
  BY NobodyAtRest, HasFdValid DEF FInv, AllPlaced, Placed, HasFd
<1>2. /\ Placed(n) /\ ~HasFd(n) /\ ~Watching(n) /\ ~Shaking(n) /\ ~Streams(n)
      /\ n \in ValidSocks /\ n # s
  <2>1. sd[n].connected_to = NoServer /\ n \in ValidSocks
    BY DEF IInv, QueuesAgree
  <2>2. Placed(n) /\ ~HasFd(n) /\ ~Watching(n)
    BY <2>1, Unconnected DEF FInv, AllPlaced
  <2> QED BY <1>1, <2>1, <2>2 DEF Placed, Shaking
<1>3. /\ sd'[s].SockFD = NoFd /\ sd'[s].flags = {}
      /\ sd'[n].SockFD = fd /\ sd'[n].connected_to = v
      /\ "IOWATCH_ACTIVE" \notin sd'[n].flags
      /\ \A r \in Socks : r # s /\ r # n => sd'[r] = sd[r]
  <2>1. sd \in [Socks -> Socket] /\ sd[n] \in Socket
    BY DEF IInv, TypeOK, Socket
  <2>2. /\ sd'[s] = Dead(s)
        /\ sd'[n] = [sd[n] EXCEPT !.SockFD = fd, !.connected_to = v, !.flags = @ \ {"QUEUED"}]
        /\ \A r \in Socks : r # s /\ r # n => sd'[r] = sd[r]
    BY <1>2, <2>1 DEF Socket
  <2>3. Dead(s).SockFD = NoFd /\ Dead(s).flags = {}
    BY DEF Dead, NewSocket
  <2>4. /\ sd'[n].SockFD = fd /\ sd'[n].connected_to = v
        /\ sd'[n].flags = sd[n].flags \ {"QUEUED"}
    BY <2>1, <2>2 DEF Socket
  <2> QED BY <1>2, <2>2, <2>3, <2>4 DEF Watching
<1>4. \A r \in Socks : HasFd(r) /\ sd[r].SockFD = fd => r = s
  BY DEF FInv, FdsApart
<1>5. ioFD'[s] = NoFd /\ \A r \in Socks : r # s => ioFD'[r] = ioFD[r]
  BY DEF IInv, TypeOK
<1>6. /\ \A e \in fd_map' : (e \in fd_map /\ e.fd # fd) \/ (e.fd = fd /\ e.skey = n)
      /\ \A e \in fd_map : e.fd # fd => e \in fd_map'
      /\ [fd |-> fd, skey |-> n] \in fd_map'
  BY DEF Http_fd_map_remove_entry
<1>7. /\ DoneFrame(fd, TRUE) \in Frame /\ DoneFrame(fd, TRUE).fn = "done"
      /\ DoneFrame(fd, TRUE).fd = fd
  <2>1. fd \in Fds \cup {NoFd}
    BY DEF IInv, TypeOK
  <2> QED BY <2>1, FramesTyped DEF DoneFrame
<1>8. stack' # <<>> /\ Head(stack') = DoneFrame(fd, TRUE)
  BY <1>7, Started DEF AtRest
<1>9. Closing(stack') = {} /\ LastClose(stack') /\ Closing(stack) = {}
  BY <1>7, StartedClosing, EmptyClosing DEF AtRest, SameClosing
<1>10. \A r \in Socks : sd'[r].SockFD = fd <=> r = n
  <2>1. \A r \in Socks : r # s /\ sd[r].SockFD = fd => FALSE
    BY <1>1, <1>4 DEF HasFd
  <2> QED BY <1>1, <1>2, <1>3, <2>1
<1>11. \A r \in Socks : ~Freeing(r)' /\ (Handling(r)' <=> r = n)
  BY <1>1, <1>7, <1>8, <1>10 DEF Freeing, Handling, HasFd
<1>12. ASSUME NEW r \in Socks, r # s, r # n PROVE Placed(r)'
  <2>1. Placed(r) /\ sd'[r] = sd[r]
    BY <1>3, <1>12 DEF FInv, AllPlaced
  <2>2. HasFd(r) => r \in ValidSocks' /\ sd'[r].connected_to # NoServer
    BY <1>12, <2>1, HasFdValid
  <2>3. \A e : e.skey = r => (e \in fd_map' <=> e \in fd_map)
    <3>1. \A e \in fd_map : e.skey = r => e.fd # fd
      BY <1>4, <1>12, <2>1 DEF Placed
    <3> QED BY <1>6, <1>12, <3>1
  <2>4. ~Freeing(r)' /\ ~Handling(r)' /\ ioFD'[r] = ioFD[r]
    BY <1>5, <1>11, <1>12
  <2>5. Undisturbed(r)
    BY <1>1, <2>1, <2>2, <2>3, <2>4 DEF Undisturbed, Watching
  <2> QED BY <2>1, <2>5, PlacedKept
<1>13. Placed(s)'
  <2>1. ~HasFd(s)' /\ ~Watching(s)' /\ ~Streams(s)' /\ ~Shaking(s)'
    BY <1>1, <1>3, <1>5 DEF HasFd, Watching, Streams, Shaking
  <2>2. \A e \in fd_map' : e.skey # s
    BY <1>1, <1>2, <1>6 DEF Placed
  <2> QED BY <2>1, <2>2 DEF Placed, Shaking
<1>14. Placed(n)'
  <2>1. HasFd(n)' /\ ~Watching(n)' /\ ~Streams(n)' /\ ~Shaking(n)' /\ Handling(n)'
    BY <1>1, <1>2, <1>3, <1>5, <1>11 DEF HasFd, Watching, Streams, Shaking
  <2>2. /\ n \in ValidSocks' /\ sd'[n].connected_to # NoServer /\ fd \in open'
        /\ [fd |-> fd, skey |-> n] \in fd_map' /\ sd'[n].SockFD = fd
    BY <1>1, <1>2, <1>3, <1>6, HttpAssumption
  <2>3. \A e \in fd_map' : e.skey = n => e.fd = fd
    BY <1>2, <1>6 DEF Placed
  <2> QED BY <2>1, <2>2, <2>3 DEF Placed, Shaking
<1>15. AllPlaced'
  BY <1>12, <1>13, <1>14 DEF AllPlaced
<1>16. FdsApart'
  <2> SUFFICES ASSUME NEW p \in Socks, NEW r \in Socks, sd'[p].SockFD # NoFd,
                      sd'[p].SockFD = sd'[r].SockFD
               PROVE  p = r
    BY DEF FdsApart, HasFd
  <2>1. CASE p = n \/ r = n
    BY <1>3, <1>10, <2>1
  <2>2. CASE p # n /\ r # n
    <3>1. p # s /\ r # s
      BY <1>3
    <3>2. sd'[p] = sd[p] /\ sd'[r] = sd[r]
      BY <1>3, <2>2, <3>1
    <3> QED BY <3>2 DEF FInv, FdsApart, HasFd
  <2> QED BY <2>1, <2>2
<1>17. OpenAgrees'
  <2>1. ASSUME NEW g \in open' PROVE \E r \in Socks : sd'[r].SockFD = g
    <3>1. PICK r \in Socks : sd[r].SockFD = g
      BY <1>9 DEF FInv, OpenAgrees
    <3>2. CASE g = fd
      BY <1>3, <3>2
    <3>3. CASE g # fd
      <4>1. g # NoFd
        BY HttpAssumption DEF IInv, TypeOK
      <4>2. r # s /\ r # n
        BY <1>2, <3>1, <3>3, <4>1 DEF HasFd
      <4> QED BY <1>3, <3>1, <4>2
    <3> QED BY <3>2, <3>3
  <2> QED BY <1>9, <2>1 DEF OpenAgrees
<1>18. FdReady'
  BY <1>7, <1>8 DEF FdReady
<1> QED BY <1>15, <1>16, <1>17, <1>18 DEF FInv

LEMMA ReuseFds ==
  ASSUME IInv, FInv, NEW s \in Socks, Http_socket_reuse(s)
  PROVE  FInv'
<1>1. /\ AtRest /\ Streams(s) /\ s \in ValidSocks /\ ioFD' = [ioFD EXCEPT ![s] = NoFd]
      /\ UNCHANGED <<tls, open>>
  BY DEF Http_socket_reuse, Streaming, Ends, Streams
<1>2. PICK v \in Servers : v = sd[s].connected_to
  BY <1>1 DEF IInv, SocketsAgree, TypeOK, Streams
<1>3. CASE /\ stack' = <<FreeFrame(s), CloseFrame(sd[s].SockFD)>>
           /\ UNCHANGED <<sd, ValidSocks, freed, server, fd_map, cert>>
  BY <1>1, <1>3, StreamEndsFds
<1>4. ASSUME NEW i \in Reusable(v), NEW n, n = server[v].queue[i],
             ValidSocks' = ValidSocks \ {s},
             sd' = [sd EXCEPT ![s] = Dead(s), ![n].SockFD = sd[s].SockFD,
                              ![n].connected_to = v, ![n].flags = @ \ {"QUEUED"}],
             fd_map' = Http_fd_map_remove_entry(sd[s].SockFD)
                         \cup {[fd |-> sd[s].SockFD, skey |-> n]},
             stack' = <<DoneFrame(sd[s].SockFD, TRUE)>>
      PROVE  FInv'
  <2>1. n \in Socks /\ Queued(n) /\ "TO_BE_FREED" \notin sd[n].flags
    BY <1>4, QueueTyped DEF IInv, QueuesAgree, Reusable
  <2> QED BY <1>1, <1>2, <1>4, <2>1, HandedOver
<1> QED BY <1>2, <1>3, <1>4 DEF Http_socket_reuse

LEMMA InitFds == Init => FInv
<1> SUFFICES ASSUME Init PROVE FInv
  OBVIOUS
<1>1. \A s \in Socks : sd[s].SockFD = NoFd /\ sd[s].flags = {}
  BY DEF Init, NewSocket
<1>2. AllPlaced
  BY <1>1 DEF Init, AllPlaced, Placed, HasFd, Watching, Streams, Shaking
<1>3. FdsApart /\ FdReady
  BY <1>1 DEF Init, FdsApart, HasFd, FdReady
<1>4. OpenAgrees
  BY EmptyClosing DEF Init, OpenAgrees
<1> QED BY <1>2, <1>3, <1>4 DEF FInv

LEMMA NextFds ==
  ASSUME "write" \notin IoErrors, IInv, FInv, [Next]_vars
  PROVE  FInv'
<1>1. CASE Handler
  <2>1. CASE Http_socket_free
    BY <2>1, FreeUnknownFds, FreeQueuedFds, FreeUnqueuedFds DEF Http_socket_free
  <2>2. ASSUME NEW fd \in Fds, NEW r \in {"pending", "connected", "error"}, ConnectAddr(fd, r)
        PROVE  FInv'
    BY <2>2, ConnectAddrFds
  <2> QED BY <1>1, <2>1, <2>2, ReapFds, DiscardFds, QueueConnectFds, SkipFds, QueueEndFds,
          ConnectNoSocketFds, ConnectGivesUpFds, DoneFds, ConnectTlsFds, DnsCbFds, ServeFds,
          CloseFds DEF Handler
<1>2. CASE Network
  BY <1>2, EventsFds, SocketCbFds, TlsFds, EndsFds, ReuseFds DEF Network
<1>3. CASE User
  BY <1>3, GetFds, EndsFds, EventsFds, TlsFds DEF User
<1>4. CASE UNCHANGED vars
  BY <1>4, StutterFds
<1> QED BY <1>1, <1>2, <1>3, <1>4 DEF Next

(* Between two events the sockets and the open descriptors are one to one. *)
LEMMA FdsAreSound ==
  ASSUME IInv, FInv
  PROVE  FdsSound
<1>1. FdMapUnique
  <2> SUFFICES ASSUME NEW e \in fd_map, NEW f \in fd_map, e.fd = f.fd PROVE e = f
    BY DEF FdMapUnique
  <2>1. /\ e \in [fd : Fds \cup {NoFd}, skey : Socks]
        /\ f \in [fd : Fds \cup {NoFd}, skey : Socks]
    BY DEF IInv, TypeOK
  <2>2. HasFd(e.skey) /\ e.fd = sd[e.skey].SockFD /\ f.fd = sd[f.skey].SockFD
    BY <2>1 DEF FInv, AllPlaced, Placed
  <2>3. e.skey = f.skey
    BY <2>1, <2>2 DEF FInv, FdsApart
  <2> QED BY <2>1, <2>3
<1>2. FdsAccounted
  <2> SUFFICES ASSUME AtRest
               PROVE  /\ open = {sd[s].SockFD : s \in ValidSocks} \ {NoFd}
                      /\ \A e \in fd_map : e.skey \in ValidSocks /\ sd[e.skey].SockFD = e.fd
    BY DEF FdsAccounted
  <2>1. \A fd \in open : fd # NoFd /\ \E s \in ValidSocks : sd[s].SockFD = fd
    <3> TAKE fd \in open
    <3>1. fd # NoFd
      BY HttpAssumption DEF IInv, TypeOK
    <3>2. PICK s \in Socks : sd[s].SockFD = fd
      BY EmptyClosing DEF AtRest, FInv, OpenAgrees
    <3> QED BY <3>1, <3>2, HasFdValid DEF HasFd
  <2>2. \A s \in ValidSocks : sd[s].SockFD # NoFd => sd[s].SockFD \in open
    BY NobodyAtRest DEF IInv, TypeOK, FInv, AllPlaced, Placed, HasFd
  <2>3. \A e \in fd_map : e.skey \in ValidSocks /\ sd[e.skey].SockFD = e.fd
    <3> TAKE e \in fd_map
    <3>1. e.skey \in Socks
      BY DEF IInv, TypeOK
    <3> QED BY <3>1 DEF FInv, AllPlaced, Placed
  <2> QED BY <2>1, <2>2, <2>3
<1>3. StreamHasSocket
  BY HasFdValid DEF StreamHasSocket, Streaming, FInv, AllPlaced, Placed, Streams
<1> QED BY <1>1, <1>2, <1>3 DEF FdsSound

(* Unless a write fails, the assertions of http.c on descriptors hold:     *)
(* none is entered twice in fd_map, none leaks, none is closed under its   *)
(* owner, and a request that streams has its socket.                       *)
THEOREM DescriptorsAreSound ==
  ASSUME "write" \notin IoErrors
  PROVE  Spec => []FdsSound
<1>1. Init => IInv /\ FInv
  BY InitHolds, InitFds
<1>2. (IInv /\ FInv) /\ [Next]_vars => (IInv /\ FInv)'
  BY NextKeeps, NextFds
<1>3. IInv /\ FInv => FdsSound
  BY FdsAreSound
<1> QED BY <1>1, <1>2, <1>3, PTL DEF Spec
=============================================================================
