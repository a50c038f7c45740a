----------------------------- MODULE DpidProofs -----------------------------
(***************************************************************************)
(* Proofs about the daemon, for any number of plugins, filters and         *)
(* connections, and while fork does not fail.                              *)
(*                                                                         *)
(* That a socket is always handed over needs what ties the three records   *)
(* of a server together: its pid, its process and the watched set.         *)
(***************************************************************************)
EXTENDS Dpid, TLAPS, FiniteSetTheorems

(* The pid of an item names its process, as long as there is one.          *)
ChildKnown == \A i \in Dpis : /\ pid[i] # "failed"
                              /\ pid[i] = "child" <=> proc[i] # "none"

(* Filters are never started as servers.                                   *)
FiltersIdle == \A i \in Filters : pid[i] = "idle"

(* The sockets that are watched are those without a server.                *)
WatchedIdle == IF pc = "gone" THEN sock_set = {}
               ELSE \A i \in Dpis : i \in sock_set <=> pid[i] = "idle"

(* A server that is dead has raised the flag.                              *)
DeadFlagged == pc # "gone" => \A i \in Dpis : proc[i] = "zombie" => caught_sigchld

(* What select has returned still holds when it is worked on.              *)
SelectedReady ==
  pc = "work" =>
    /\ 0 \in selected_set => request # "none"
    /\ selected_set \ {0} \subseteq sock_set
    /\ \A i \in selected_set \cap Filters : backlog[i] > 0

IInv == /\ TypeOK
        /\ ChildKnown
        /\ FiltersIdle
        /\ WatchedIdle
        /\ DeadFlagged
        /\ SelectedReady
        /\ SocketsCounted

LEMMA DpisFinite == /\ IsFiniteSet(Dpis) /\ Cardinality(Dpis) = numdpis
                    /\ Dpis \subseteq Nat \ {0} /\ numdpis \in Nat
                    /\ Filters \subseteq Dpis
                    /\ \A S \in SUBSET Dpis : IsFiniteSet(S) /\ Cardinality(S) \in Nat
<1>1. IsFiniteSet(Dpis) /\ Cardinality(Dpis) = numdpis
  BY DpidAssumption, FS_Interval DEF Dpis
<1>2. \A S \in SUBSET Dpis : IsFiniteSet(S) /\ Cardinality(S) \in Nat
  BY <1>1, FS_Subset, FS_CardinalityType
<1> QED BY <1>1, <1>2, DpidAssumption DEF Dpis

LEMMA InitHolds == Init => IInv
<1> SUFFICES ASSUME Init PROVE IInv
  OBVIOUS
<1>1. TypeOK
  <2>1. /\ pid \in [Dpis -> {"idle", "child", "failed"}]
        /\ proc \in [Dpis -> {"none", "running", "zombie"}]
        /\ backlog \in [Dpis -> Nat]
    BY DEF Init
  <2>2. numsocks \in Int /\ sock_set \subseteq Dpis
    BY DpisFinite DEF Init
  <2>3. /\ pc = "top" /\ selected_set = {} /\ caught_sigchld = FALSE
        /\ strays = 0 /\ deadstrays = 0 /\ request = "none"
    BY DEF Init
  <2> QED BY <2>1, <2>2, <2>3 DEF TypeOK
<1>2. ChildKnown /\ WatchedIdle /\ DeadFlagged /\ SelectedReady /\ SocketsCounted
  BY DpisFinite DEF Init, ChildKnown, WatchedIdle, DeadFlagged, SelectedReady, SocketsCounted
<1>3. FiltersIdle
  BY DpisFinite DEF Init, FiltersIdle
<1> QED BY <1>1, <1>2, <1>3 DEF IInv

(* Top notices the exits: the dead servers, and only they, are idle again. *)
LEMMA TopKeeps ==
  ASSUME IInv, Top
  PROVE  IInv'
<1>1. CASE caught_sigchld
  <2>1. Greedy = {}
    BY DEF IInv, ChildKnown, Greedy
  <2>2. handle_sigchld(Exited) /\ Reap
    BY <1>1, <2>1 DEF Top, Notice
  <2>3. /\ pid' = [i \in Dpis |-> IF i \in Exited THEN "idle" ELSE pid[i]]
        /\ sock_set' = sock_set \cup Exited
        /\ numsocks' = numsocks + Cardinality(Exited)
        /\ proc' = [i \in Dpis |-> IF proc[i] = "zombie" THEN "none" ELSE proc[i]]
        /\ deadstrays' = 0
    BY <2>2 DEF handle_sigchld, Reap
  <2>4. /\ pc = "top" /\ pc' = "select" /\ caught_sigchld' = FALSE
        /\ UNCHANGED <<selected_set, strays, backlog, request>>
    BY DEF Top
  <2>5. \A i \in Dpis : i \in Exited <=> proc[i] = "zombie"
    BY DEF Exited, IInv, ChildKnown, TypeOK
  <2>6. Exited \subseteq Dpis
    BY DEF Exited
  <2> HIDE DEF Exited
  <2>7. TypeOK'
    <3>1. Cardinality(Exited) \in Nat
      BY <2>6, DpisFinite
    <3>2. numsocks' \in Int
      BY <2>3, <3>1 DEF IInv, TypeOK
    <3>3. pid' \in [Dpis -> {"idle", "child", "failed"}] /\ proc' \in [Dpis -> {"none", "running", "zombie"}]
      BY <2>3 DEF IInv, TypeOK
    <3> QED BY <2>3, <2>4, <2>6, <3>2, <3>3 DEF IInv, TypeOK
  <2>8. ChildKnown' /\ FiltersIdle'
    BY <2>3, <2>5, DpisFinite DEF IInv, ChildKnown, FiltersIdle, TypeOK
  <2>9. WatchedIdle' /\ DeadFlagged' /\ SelectedReady'
    BY <2>3, <2>4, <2>5, <2>6 DEF IInv, WatchedIdle, DeadFlagged, SelectedReady, ChildKnown, TypeOK
  <2>10. SocketsCounted'
    <3>1. sock_set \cap Exited = {}
      BY <2>4, <2>5, <2>6 DEF IInv, WatchedIdle, ChildKnown
    <3>2. IsFiniteSet(sock_set) /\ IsFiniteSet(Exited)
      BY <2>6, DpisFinite DEF IInv, TypeOK
    <3>3. Cardinality(sock_set \cup Exited) = Cardinality(sock_set) + Cardinality(Exited)
      <4>1. Cardinality(sock_set \cap Exited) = 0
        BY <3>1, FS_EmptySet
      <4>2. Cardinality(sock_set \cup Exited)
              = Cardinality(sock_set) + Cardinality(Exited) - Cardinality(sock_set \cap Exited)
        BY <3>2, FS_Union
      <4>3. Cardinality(sock_set) \in Nat /\ Cardinality(Exited) \in Nat
        BY <3>2, FS_CardinalityType
      <4> QED BY <4>1, <4>2, <4>3
    <3>4. Cardinality(sock_set) \in Nat /\ Cardinality(Exited) \in Nat
      BY <3>2, FS_CardinalityType
    <3> QED BY <2>3, <2>4, <3>3, <3>4 DEF IInv, SocketsCounted
  <2> QED BY <2>7, <2>8, <2>9, <2>10 DEF IInv
<1>2. CASE ~caught_sigchld
  <2>1. /\ pc = "top" /\ pc' = "select" /\ caught_sigchld' = FALSE
        /\ UNCHANGED <<pid, sock_set, numsocks, proc, deadstrays, selected_set, strays,
                       backlog, request>>
    BY <1>2 DEF Top
  <2> QED BY <1>2, <2>1 DEF IInv, TypeOK, ChildKnown, FiltersIdle, WatchedIdle, DeadFlagged,
                            SelectedReady, SocketsCounted
<1> QED BY <1>1, <1>2

LEMMA SelectKeeps ==
  ASSUME IInv, Select \/ Wake
  PROVE  IInv'
<1>1. Ready \subseteq Dpis \cup {0}
  BY DEF Ready, IInv, TypeOK
<1>2. /\ pc' \in {"asleep", "work"} /\ pc # "gone" /\ selected_set' = Ready
      /\ UNCHANGED <<sock_set, numsocks, pid, caught_sigchld, proc, others>>
  BY DEF Select, Wake, IInv
<1>3. SelectedReady'
  <2>1. 0 \in Ready => request # "none"
    BY DpisFinite DEF Ready, IInv, TypeOK
  <2>2. Ready \ {0} \subseteq sock_set /\ \A i \in Ready \ {0} : backlog[i] > 0
    BY DEF Ready
  <2>3. 0 \notin Filters
    BY DpisFinite
  <2>4. request' = request /\ backlog' = backlog /\ sock_set' = sock_set
    BY <1>2 DEF others
  <2> HIDE DEF Ready
  <2> QED BY <1>2, <2>1, <2>2, <2>3, <2>4 DEF SelectedReady
<1>4. TypeOK'
  BY <1>1, <1>2 DEF IInv, TypeOK, others
<1> QED BY <1>2, <1>3, <1>4 DEF IInv, ChildKnown, FiltersIdle, WatchedIdle, DeadFlagged,
                                SocketsCounted, others

LEMMA TimeoutKeeps ==
  ASSUME IInv, Timeout
  PROVE  IInv'
<1>1. /\ pc = "asleep"
      /\ UNCHANGED <<selected_set, numsocks, pid, caught_sigchld, proc, strays,
                     deadstrays, request>>
      /\ \/ pc' = "top" /\ UNCHANGED <<sock_set, backlog>>
         \/ Leave
  BY DEF Timeout
<1>2. CASE pc' = "top" /\ UNCHANGED <<sock_set, backlog>>
  BY <1>1, <1>2 DEF IInv, TypeOK, ChildKnown, FiltersIdle, WatchedIdle, DeadFlagged,
                    SelectedReady, SocketsCounted
<1>3. CASE Leave
  <2>1. pc' = "gone" /\ sock_set' = {} /\ backlog' \in [Dpis -> Nat]
    BY <1>3 DEF Leave
  <2> QED BY <1>1, <2>1 DEF IInv, TypeOK, ChildKnown, FiltersIdle, WatchedIdle, DeadFlagged,
                            SelectedReady, SocketsCounted
<1> QED BY <1>1, <1>2, <1>3

LEMMA SelectedNames ==
  ASSUME IInv, pc = "work", ~(0 \in selected_set /\ request = "register_all"),
         ~(0 \in selected_set /\ request = "DpiBye")
  PROVE  0 \notin selected_set /\ selected_set \subseteq sock_set
BY DEF IInv, TypeOK, SelectedReady

LEMMA RegisterKeeps ==
  ASSUME IInv, pc' = "top", selected_set' = {}, caught_sigchld' = caught_sigchld,
         register_all_cmd
  PROVE  IInv'
<1>1. /\ sock_set' = Dpis /\ numsocks' = numdpis + 1
      /\ pid' = [i \in Dpis |-> "idle"] /\ proc' = [i \in Dpis |-> "none"]
      /\ backlog' = [i \in Dpis |-> 0] /\ request' = "none"
  BY DEF register_all_cmd
<1>2. strays' \in Nat /\ deadstrays' \in Nat
  <2>1. Cardinality(Of("running")) \in Nat /\ Cardinality(Of("zombie")) \in Nat
    BY DpisFinite DEF Of
  <2> QED BY <2>1 DEF register_all_cmd, IInv, TypeOK
<1>3. TypeOK'
  BY <1>1, <1>2, DpisFinite DEF IInv, TypeOK
<1>4. ChildKnown' /\ FiltersIdle' /\ WatchedIdle' /\ DeadFlagged'
  BY <1>1, DpisFinite DEF ChildKnown, FiltersIdle, WatchedIdle, DeadFlagged
<1>5. SelectedReady' /\ SocketsCounted'
  BY <1>1, DpisFinite DEF SelectedReady, SocketsCounted
<1> QED BY <1>3, <1>4, <1>5 DEF IInv

LEMMA StartKeeps ==
  ASSUME IInv, pc = "work", pc' = "top", selected_set \subseteq sock_set,
         selected_set' = {}, caught_sigchld' = caught_sigchld,
         StartServers(selected_set \ Filters, {}),
         StartFilters(selected_set \cap Filters),
         UNCHANGED <<deadstrays, request>>
  PROVE  IInv'
<1> DEFINE S == selected_set \ Filters
           F == selected_set \cap Filters
<1>1. S \subseteq sock_set /\ sock_set \subseteq Dpis /\ F \subseteq Dpis
      /\ S \cap Filters = {} /\ \A i \in F : backlog[i] > 0
  BY DEF IInv, TypeOK, SelectedReady
<1>2. /\ sock_set' = sock_set \ S /\ numsocks' = numsocks - Cardinality(S)
      /\ pid' = [i \in Dpis |-> IF i \in S THEN "child" ELSE pid[i]]
      /\ proc' = [i \in Dpis |-> IF i \in S THEN "running" ELSE proc[i]]
  BY DEF StartServers
<1>3. /\ backlog' = [i \in Dpis |-> IF i \in F THEN backlog[i] - 1 ELSE backlog[i]]
      /\ strays' = strays + Cardinality(F)
  BY DEF StartFilters
<1> HIDE DEF S, F
<1>4. Cardinality(S) \in Nat /\ Cardinality(F) \in Nat
  BY <1>1, DpisFinite
<1>5. TypeOK'
  <2>1. backlog' \in [Dpis -> Nat]
    <3> SUFFICES ASSUME NEW i \in Dpis
                 PROVE  (IF i \in F THEN backlog[i] - 1 ELSE backlog[i]) \in Nat
      BY <1>3
    <3> QED BY <1>1 DEF IInv, TypeOK
  <2>2. numsocks' \in Int /\ strays' \in Nat
    BY <1>2, <1>3, <1>4 DEF IInv, TypeOK
  <2>3. pid' \in [Dpis -> {"idle", "child", "failed"}] /\ proc' \in [Dpis -> {"none", "running", "zombie"}]
    BY <1>2 DEF IInv, TypeOK
  <2> QED BY <1>1, <1>2, <2>1, <2>2, <2>3 DEF IInv, TypeOK
<1>6. ChildKnown' /\ FiltersIdle'
  BY <1>1, <1>2, DpisFinite DEF IInv, ChildKnown, FiltersIdle
<1>7. WatchedIdle' /\ DeadFlagged' /\ SelectedReady'
  BY <1>1, <1>2 DEF IInv, WatchedIdle, DeadFlagged, SelectedReady
<1>8. SocketsCounted'
  <2>1. IsFiniteSet(sock_set)
    BY <1>1, DpisFinite
  <2>2. Cardinality(sock_set \ S) = Cardinality(sock_set) - Cardinality(sock_set \cap S)
    BY <2>1, FS_Difference
  <2>3. sock_set \cap S = S
    BY <1>1
  <2>4. Cardinality(sock_set) \in Nat
    BY <2>1, FS_CardinalityType
  <2>5. numsocks = Cardinality(sock_set) + 1
    BY DEF IInv, SocketsCounted
  <2>6. Cardinality(sock_set') = Cardinality(sock_set) - Cardinality(S)
    BY <1>2, <2>2, <2>3
  <2>7. numsocks' = Cardinality(sock_set') + 1
    BY <1>2, <1>4, <2>4, <2>5, <2>6
  <2> QED BY <2>7 DEF SocketsCounted
<1> QED BY <1>5, <1>6, <1>7, <1>8 DEF IInv

LEMMA WorkKeeps ==
  ASSUME IInv, Work, "fork" \notin Mishaps
  PROVE  IInv'
<1>1. pc = "work" /\ selected_set' = {} /\ caught_sigchld' = caught_sigchld
  BY DEF Work
<1>2. CASE 0 \in selected_set /\ request = "register_all"
  <2>1. pc' = "top" /\ register_all_cmd
    BY <1>2 DEF Work
  <2> QED BY <1>1, <2>1, RegisterKeeps
<1>3. CASE 0 \in selected_set /\ request = "DpiBye"
  <2>1. /\ Leave /\ request' = "none"
        /\ UNCHANGED <<numsocks, pid, proc, strays, deadstrays>>
    BY <1>3 DEF Work
  <2>2. pc' = "gone" /\ sock_set' = {} /\ backlog' \in [Dpis -> Nat]
    BY <2>1 DEF Leave
  <2> QED BY <1>1, <2>1, <2>2 DEF IInv, TypeOK, ChildKnown, FiltersIdle, WatchedIdle,
                                  DeadFlagged, SelectedReady, SocketsCounted
<1>4. CASE /\ ~(0 \in selected_set /\ request = "register_all")
           /\ ~(0 \in selected_set /\ request = "DpiBye")
  <2>1. PICK failed \in SUBSET (selected_set \ Filters) :
          /\ failed # {} => "fork" \in Mishaps /\ Greedy = {}
          /\ StartServers(selected_set \ Filters, failed)
    BY <1>4 DEF Work
  <2>2. /\ StartFilters(selected_set \cap Filters)
        /\ pc' = "top" /\ UNCHANGED <<deadstrays, request>>
    BY <1>4 DEF Work
  <2>3. failed = {}
    BY <2>1
  <2>4. selected_set \subseteq sock_set
    BY <1>1, <1>4, SelectedNames
  <2> QED BY <1>1, <2>1, <2>2, <2>3, <2>4, StartKeeps
<1> QED BY <1>2, <1>3, <1>4
-----------------------------------------------------------------------------
LEMMA ConnectKeeps ==
  ASSUME IInv, NEW i \in Dpis, Connect(i)
  PROVE  IInv'
<1>1. /\ backlog' = [backlog EXCEPT ![i] = @ + 1]
      /\ UNCHANGED <<daemon, caught_sigchld, proc, strays, deadstrays, request>>
  BY DEF Connect
<1>2. backlog' \in [Dpis -> Nat] /\ \A j \in Dpis : backlog'[j] >= backlog[j]
  BY <1>1 DEF IInv, TypeOK
<1>3. SelectedReady'
  BY <1>1, <1>2, DpisFinite DEF IInv, SelectedReady, TypeOK, daemon
<1> QED BY <1>1, <1>2, <1>3 DEF IInv, TypeOK, ChildKnown, FiltersIdle, WatchedIdle,
                                DeadFlagged, SocketsCounted, daemon

LEMMA AcceptKeeps ==
  ASSUME IInv, NEW i \in Dpis, Accept(i)
  PROVE  IInv'
<1>1. /\ backlog' = [backlog EXCEPT ![i] = @ - 1] /\ backlog[i] > 0 /\ proc[i] = "running"
      /\ UNCHANGED <<daemon, caught_sigchld, proc, strays, deadstrays, request>>
  BY DEF Accept
<1>2. i \notin Filters
  BY <1>1 DEF IInv, ChildKnown, FiltersIdle
<1>3. backlog' \in [Dpis -> Nat] /\ \A j \in Dpis \ {i} : backlog'[j] = backlog[j]
  BY <1>1 DEF IInv, TypeOK
<1>4. SelectedReady'
  BY <1>1, <1>2, <1>3, DpisFinite DEF IInv, SelectedReady, daemon
<1> QED BY <1>1, <1>3, <1>4 DEF IInv, TypeOK, ChildKnown, FiltersIdle, WatchedIdle,
                                DeadFlagged, SocketsCounted, daemon

LEMMA AskKeeps ==
  ASSUME IInv, NEW cmd \in {"register_all", "DpiBye"}, AskDpid(cmd)
  PROVE  IInv'
<1>1. /\ request' = cmd
      /\ UNCHANGED <<daemon, caught_sigchld, proc, strays, deadstrays, backlog>>
  BY DEF AskDpid
<1> QED BY <1>1 DEF IInv, TypeOK, ChildKnown, FiltersIdle, WatchedIdle, DeadFlagged,
                    SelectedReady, SocketsCounted, daemon

LEMMA ExitKeeps ==
  ASSUME IInv, StrayExit \/ \E i \in Dpis : Exit(i)
  PROVE  IInv'
<1>1. /\ pc # "gone" /\ caught_sigchld' = TRUE
      /\ pc' = IF pc = "asleep" THEN "top" ELSE pc
      /\ UNCHANGED <<sock_set, selected_set, numsocks, pid, backlog, request>>
  BY DEF StrayExit, Exit, Signal, others
<1>2. pc' \in {"top", "select", "asleep", "work", "gone"} /\ pc' # "gone"
      /\ (pc' = "work" => pc = "work")
  BY <1>1 DEF IInv, TypeOK
<1>3. strays' \in Nat /\ deadstrays' \in Nat
  BY DEF StrayExit, Exit, others, IInv, TypeOK
<1>4. /\ proc' \in [Dpis -> {"none", "running", "zombie"}]
      /\ \A j \in Dpis : proc'[j] = "none" <=> proc[j] = "none"
  BY DEF StrayExit, Exit, IInv, TypeOK
<1>5. TypeOK'
  BY <1>1, <1>2, <1>3, <1>4 DEF IInv, TypeOK
<1>6. ChildKnown' /\ FiltersIdle' /\ WatchedIdle' /\ DeadFlagged'
  BY <1>1, <1>2, <1>4 DEF IInv, ChildKnown, FiltersIdle, WatchedIdle, DeadFlagged
<1>7. SelectedReady' /\ SocketsCounted'
  BY <1>1, <1>2 DEF IInv, SelectedReady, SocketsCounted
<1> QED BY <1>5, <1>6, <1>7 DEF IInv

LEMMA NextKeeps ==
  ASSUME IInv, [Next]_vars, "fork" \notin Mishaps
  PROVE  IInv'
<1>1. CASE Loop
  BY <1>1, TopKeeps, SelectKeeps, WorkKeeps DEF Loop
<1>2. CASE Timeout
  BY <1>2, TimeoutKeeps
<1>3. CASE StrayExit \/ \E i \in Dpis : Exit(i)
  BY <1>3, ExitKeeps
<1>4. CASE \E cmd \in {"register_all", "DpiBye"} : AskDpid(cmd)
  BY <1>4, AskKeeps
<1>5. CASE \E i \in Dpis : Connect(i) \/ Accept(i)
  BY <1>5, ConnectKeeps, AcceptKeeps
<1>6. CASE UNCHANGED vars
  BY <1>6 DEF vars, IInv, TypeOK, ChildKnown, FiltersIdle, WatchedIdle, DeadFlagged,
              SelectedReady, SocketsCounted
<1> QED BY <1>1, <1>2, <1>3, <1>4, <1>5, <1>6 DEF Next

(* While fork does not fail, the records of the daemon agree.              *)
THEOREM Invariance == ASSUME "fork" \notin Mishaps PROVE Spec => []IInv
<1>1. Init => IInv
  BY InitHolds
<1>2. IInv /\ [Next]_vars => IInv'
  BY NextKeeps
<1> QED BY <1>1, <1>2, PTL DEF Spec

(* The variables of the daemon have their types: no connection is accepted *)
(* that does not wait, and no process is waited for twice.                 *)
THEOREM TypeCorrect == ASSUME "fork" \notin Mishaps PROVE Spec => []TypeOK
<1>1. IInv => TypeOK
  BY DEF IInv
<1> QED BY <1>1, Invariance, PTL

(* The socket of every plugin has somebody who accepts or will, and never  *)
(* two (main.c:403-418, dpid.c:709-729).                                   *)
THEOREM SocketsHandedOver == ASSUME "fork" \notin Mishaps PROVE Spec => []HandedOver
<1>1. IInv => HandedOver
  BY DEF IInv, TypeOK, ChildKnown, WatchedIdle, DeadFlagged, HandedOver, ServerReachable,
         OneAcceptor
<1> QED BY <1>1, Invariance, PTL

(* numsocks counts the sockets watched (the assertions at main.c:338-408). *)
THEOREM SocketsAreCounted == ASSUME "fork" \notin Mishaps PROVE Spec => []SocketsCounted
<1>1. IInv => SocketsCounted
  BY DEF IInv
<1> QED BY <1>1, Invariance, PTL

(* While no child exits between the look at the flag and select, the loop  *)
(* does not sleep on an exit it has not noticed; fork may fail.            *)
THEOREM ExitsAreNoticed == ASSUME "window" \notin Mishaps PROVE Spec => []ExitNoticed
<1> DEFINE Inv == ExitNoticed /\ (pc = "select" => ~caught_sigchld)
<1>1. Init => Inv
  BY DEF Init, ExitNoticed
<1>2. Inv /\ [Next]_vars => Inv'
  <2> SUFFICES ASSUME Inv, [Next]_vars PROVE Inv'
    OBVIOUS
  <2>1. CASE Top
    BY <2>1 DEF Top, ExitNoticed
  <2>2. CASE Select \/ Wake
    BY <2>2 DEF Select, Wake, ExitNoticed
  <2>3. CASE Work
    <3>1. pc' \in {"top", "gone"}
      <4>1. CASE 0 \in selected_set /\ request = "register_all"
        BY <2>3, <4>1 DEF Work
      <4>2. CASE 0 \in selected_set /\ request = "DpiBye"
        BY <2>3, <4>2 DEF Work, Leave
      <4>3. CASE /\ ~(0 \in selected_set /\ request = "register_all")
                 /\ ~(0 \in selected_set /\ request = "DpiBye")
        BY <2>3, <4>3 DEF Work
      <4> QED BY <4>1, <4>2, <4>3
    <3> QED BY <3>1 DEF ExitNoticed
  <2>4. CASE Timeout
    BY <2>4 DEF Timeout, Leave, ExitNoticed
  <2>5. CASE StrayExit \/ \E i \in Dpis : Exit(i)
    BY <2>5 DEF StrayExit, Exit, Signal, ExitNoticed
  <2>6. CASE \E cmd \in {"register_all", "DpiBye"} : AskDpid(cmd)
    BY <2>6 DEF AskDpid, daemon, ExitNoticed
  <2>7. CASE \E i \in Dpis : Connect(i) \/ Accept(i)
    BY <2>7 DEF Connect, Accept, daemon, ExitNoticed
  <2>8. CASE UNCHANGED vars
    BY <2>8 DEF vars, ExitNoticed
  <2> QED BY <2>1, <2>2, <2>3, <2>4, <2>5, <2>6, <2>7, <2>8 DEF Next, Loop
<1> QED BY <1>1, <1>2, PTL DEF Spec
=============================================================================
