------------------------------- MODULE Dpid --------------------------------
(***************************************************************************)
(* The daemon that starts the plugins (src/dpid/main.c, dpid.c).           *)
(*                                                                         *)
(* It listens for every plugin.  A filter is started for each connection,  *)
(* which the daemon accepts.  A server is started by the first connection, *)
(* inherits the socket and accepts for itself, while the daemon stops to   *)
(* watch the socket until SIGCHLD tells that the server has gone.          *)
(*                                                                         *)
(* The main loop is cut where a signal or a client can come in between:    *)
(* SIGCHLD is blocked at "top", and neither blocked nor noticed by the     *)
(* kernel at "select", just before select() sleeps.  A plugin is its index *)
(* in dpi_attr_list.  Processes that no item of the list names (filters,   *)
(* servers of a former list) are only counted.                             *)
(***************************************************************************)
EXTENDS Integers, FiniteSets

CONSTANTS numdpis,     \* plugins of the list
          Filters,     \* the filters among them
          Downloads,   \* the downloads server, 0 if there is none
          Backlog,     \* bound on the connections that wait at a socket
          MaxStrays,   \* no filter or registration is asked for beyond so many
                       \* processes that no item names
          Mishaps      \* events let in: "window" (a child exits between
                       \* the look at caught_sigchld and select),
                       \* "fork" (fork fails for a server)

Dpis    == 1 .. numdpis
Servers == Dpis \ Filters

ASSUME DpidAssumption ==
  /\ numdpis \in Nat /\ Filters \subseteq Dpis /\ Downloads \in Servers \cup {0}
  /\ Backlog \in Nat /\ MaxStrays \in Nat
  /\ Mishaps \subseteq {"window", "fork"}

VARIABLES
  pc,              \* of the main loop
  sock_set,        \* plugins whose sockets are watched
  selected_set,    \* what select has returned; 0 is the request socket
  numsocks,
  pid,             \* "idle" (1), "child" (a process id), "failed" (-1)
  caught_sigchld,
  proc,            \* plugin -> the process of its pid
  strays, deadstrays, \* other processes: running, and not waited for yet
  backlog,         \* plugin -> connections that wait at its socket
  request          \* what waits at the request socket: "none", "register_all"
                   \* or "DpiBye"

vars == <<pc, sock_set, selected_set, numsocks, pid, caught_sigchld, proc,
          strays, deadstrays, backlog, request>>
daemon == <<pc, sock_set, selected_set, numsocks, pid>>
others == <<strays, deadstrays, backlog, request>>

Init ==
  /\ pc = "top" /\ selected_set = {} /\ caught_sigchld = FALSE
  /\ sock_set = Dpis /\ numsocks = numdpis + 1
  /\ pid = [i \in Dpis |-> "idle"] /\ proc = [i \in Dpis |-> "none"]
  /\ strays = 0 /\ deadstrays = 0
  /\ backlog = [i \in Dpis |-> 0] /\ request = "none"

(***************************************************************************)
(* The main loop.                                                          *)
(***************************************************************************)
\* Servers waitpid finds by their own pid.
Exited == {i \in Dpis : pid[i] = "child" /\ proc[i] = "zombie"}

\* A server whose fork failed has pid -1: waitpid takes any dead child.
Greedy == {i \in Dpis : pid[i] = "failed"}

\* The dead children left when the loop of handle_sigchld comes to f.
Left(f) == {i \in Exited : i > f}

(* The exits f may take for its own: of a later server, or (0) of a        *)
(* process the list does not name.                                         *)
Prey(f) == Left(f) \cup (IF deadstrays > 0 THEN {0} ELSE {})

\* Mutant: the socket of a server that has gone is not watched again.
handle_sigchld_unwatched(back) ==
  /\ pid' = [i \in Dpis |-> IF i \in back THEN "idle" ELSE pid[i]]
  /\ sock_set' = sock_set
  /\ numsocks' = numsocks + Cardinality(back)

\* handle_sigchld: "back" are the servers found to be gone
handle_sigchld(back) ==
  /\ pid' = [i \in Dpis |-> IF i \in back THEN "idle" ELSE pid[i]]
  /\ sock_set' = sock_set \cup back
  /\ numsocks' = numsocks + Cardinality(back)

\* All dead children are waited for.
Reap ==
  /\ proc' = [i \in Dpis |-> IF proc[i] = "zombie" THEN "none" ELSE proc[i]]
  /\ deadstrays' = 0

(* At most one server has failed to start, see StartServers.               *)
Notice ==
  \/ /\ \A f \in Greedy : Prey(f) = {}
     /\ handle_sigchld(Exited)
  \/ \E f \in Greedy : \E taken \in Prey(f) :
       handle_sigchld((Exited \ {taken}) \cup {f})

Top ==
  /\ pc = "top" /\ pc' = "select" /\ caught_sigchld' = FALSE
  /\ IF caught_sigchld THEN Notice /\ Reap
     ELSE UNCHANGED <<pid, sock_set, numsocks, proc, deadstrays>>
  /\ UNCHANGED <<selected_set, strays, backlog, request>>

\* Mutant: the set that was given to select is taken for its result.
Ready_watched == sock_set

Ready == {i \in sock_set : backlog[i] > 0} \cup (IF request # "none" THEN {0} ELSE {})

Select ==
  /\ pc = "select"
  /\ pc' = IF Ready = {} THEN "asleep" ELSE "work"
  /\ selected_set' = Ready
  /\ UNCHANGED <<sock_set, numsocks, pid, caught_sigchld, proc, others>>

Wake ==
  /\ pc = "asleep" /\ Ready # {}
  /\ pc' = "work" /\ selected_set' = Ready
  /\ UNCHANGED <<sock_set, numsocks, pid, caught_sigchld, proc, others>>

\* exit(): the sockets of the plugins are closed.
Leave == pc' = "gone" /\ sock_set' = {} /\ backlog' = [i \in Dpis |-> 0]

(* An hour without requests.  The daemon exits with all its sockets,       *)
(* unless a download may be going on.                                      *)
Timeout ==
  /\ pc = "asleep" /\ Ready = {}
  /\ IF Downloads # 0 /\ pid[Downloads] = "child"
     THEN pc' = "top" /\ UNCHANGED <<sock_set, backlog>> ELSE Leave
  /\ UNCHANGED <<selected_set, numsocks, pid, caught_sigchld, proc, strays,
                 deadstrays, request>>

Of(st) == {i \in Dpis : proc[i] = st}

(* register_all_cmd: new sockets for all plugins; the servers that run are *)
(* told to go, and whoever waits at the old sockets is not listened to.    *)
register_all_cmd ==
  /\ sock_set' = Dpis /\ numsocks' = numdpis + 1
  /\ pid' = [i \in Dpis |-> "idle"] /\ proc' = [i \in Dpis |-> "none"]
  /\ strays' = strays + Cardinality(Of("running"))
  /\ deadstrays' = deadstrays + Cardinality(Of("zombie"))
  /\ backlog' = [i \in Dpis |-> 0] /\ request' = "none"

\* Mutant: the socket of a server that is started stays watched.
StartServers_watched(S, failed) ==
  /\ sock_set' = sock_set /\ numsocks' = numsocks - Cardinality(S)
  /\ pid' = [i \in Dpis |-> IF i \notin S THEN pid[i]
                            ELSE IF i \in failed THEN "failed" ELSE "child"]
  /\ proc' = [i \in Dpis |-> IF i \in S \ failed THEN "running" ELSE proc[i]]

\* Mutant: a server that cannot be started is not counted.
StartServers_count(S, failed) ==
  /\ sock_set' = sock_set \ S /\ numsocks' = numsocks - 1
  /\ pid' = [i \in Dpis |-> IF i \notin S THEN pid[i]
                            ELSE IF i \in failed THEN "failed" ELSE "child"]
  /\ proc' = [i \in Dpis |-> IF i \in S \ failed THEN "running" ELSE proc[i]]

StartServers(S, failed) ==
  /\ sock_set' = sock_set \ S /\ numsocks' = numsocks - Cardinality(S)
  /\ pid' = [i \in Dpis |-> IF i \notin S THEN pid[i]
                            ELSE IF i \in failed THEN "failed" ELSE "child"]
  /\ proc' = [i \in Dpis |-> IF i \in S \ failed THEN "running" ELSE proc[i]]

\* start_filter_plugin: the connection is accepted, and has its process
StartFilters(F) ==
  /\ backlog' = [i \in Dpis |-> IF i \in F THEN backlog[i] - 1 ELSE backlog[i]]
  /\ strays' = strays + Cardinality(F)

(* The request socket is served first.  After a registration the result    *)
(* of select names only sockets of the past.                               *)
Work ==
  /\ pc = "work" /\ selected_set' = {}
  /\ CASE 0 \in selected_set /\ request = "register_all" ->
            pc' = "top" /\ register_all_cmd
       [] 0 \in selected_set /\ request = "DpiBye" ->
            Leave /\ request' = "none"
                  /\ UNCHANGED <<numsocks, pid, proc, strays, deadstrays>>
       [] OTHER ->
            /\ \E failed \in SUBSET (selected_set \ Filters) :
                 /\ failed # {} => "fork" \in Mishaps /\ Greedy = {}
                 /\ Cardinality(failed) <= 1
                 /\ StartServers(selected_set \ Filters, failed)
            /\ StartFilters(selected_set \cap Filters)
            /\ pc' = "top" /\ UNCHANGED <<deadstrays, request>>
  /\ UNCHANGED caught_sigchld

(***************************************************************************)
(* Its surroundings.                                                       *)
(***************************************************************************)
\* A client connects to a plugin.
Connect(i) ==
  /\ pc # "gone" /\ backlog[i] < Backlog
  /\ i \in Filters => strays + deadstrays + backlog[i] < MaxStrays
  /\ backlog' = [backlog EXCEPT ![i] = @ + 1]
  /\ UNCHANGED <<daemon, caught_sigchld, proc, strays, deadstrays, request>>

\* "dpidc register" and "dpidc stop"
AskDpid(cmd) ==
  /\ pc # "gone" /\ request = "none" /\ strays + deadstrays < MaxStrays
  /\ request' = cmd
  /\ UNCHANGED <<daemon, caught_sigchld, proc, strays, deadstrays, backlog>>

\* A server accepts the next connection.
Accept(i) ==
  /\ proc[i] = "running" /\ backlog[i] > 0
  /\ backlog' = [backlog EXCEPT ![i] = @ - 1]
  /\ UNCHANGED <<daemon, caught_sigchld, proc, strays, deadstrays, request>>

\* Mutant: select is restarted after the signal.
Signal_restart ==
  /\ pc # "select" \/ "window" \in Mishaps
  /\ caught_sigchld' = TRUE
  /\ pc' = pc

(* SIGCHLD: dpi_sigchld sets the flag, and select returns if it sleeps.    *)
Signal ==
  /\ pc # "select" \/ "window" \in Mishaps
  /\ caught_sigchld' = TRUE
  /\ pc' = IF pc = "asleep" THEN "top" ELSE pc

\* A server ends by itself (its idle time is over), or crashes.
Exit(i) ==
  /\ proc[i] = "running" /\ pc # "gone" /\ Signal
  /\ proc' = [proc EXCEPT ![i] = "zombie"]
  /\ UNCHANGED <<sock_set, selected_set, numsocks, pid, others>>

StrayExit ==
  /\ strays > 0 /\ pc # "gone" /\ Signal
  /\ strays' = strays - 1 /\ deadstrays' = deadstrays + 1
  /\ UNCHANGED <<sock_set, selected_set, numsocks, pid, proc, backlog, request>>

Loop == Top \/ Select \/ Wake \/ Work

Next ==
  \/ Loop \/ Timeout \/ StrayExit
  \/ \E cmd \in {"register_all", "DpiBye"} : AskDpid(cmd)
  \/ \E i \in Dpis : Connect(i) \/ Accept(i) \/ Exit(i)

Spec == Init /\ [][Next]_vars

(* The daemon goes on, and a server that is started again and again        *)
(* accepts a connection at last (main.c:225 names the endless loop that    *)
(* there would be otherwise).                                              *)
FairSpec == Spec /\ WF_vars(Loop) /\ \A i \in Dpis : SF_vars(Accept(i))

(***************************************************************************)
(* Properties.                                                             *)
(***************************************************************************)
(* The variables have their types.                                         *)
TypeOK ==
  /\ pc \in {"top", "select", "asleep", "work", "gone"}
  /\ sock_set \subseteq Dpis /\ selected_set \subseteq Dpis \cup {0}
  /\ numsocks \in Int /\ pid \in [Dpis -> {"idle", "child", "failed"}]
  /\ caught_sigchld \in BOOLEAN
  /\ proc \in [Dpis -> {"none", "running", "zombie"}]
  /\ strays \in Nat /\ deadstrays \in Nat
  /\ backlog \in [Dpis -> Nat] 
  /\ request \in {"none", "register_all", "DpiBye"}

(* Every plugin can be reached: its socket is watched, or a server runs    *)
(* that accepts, or the server is dead and the daemon has still to notice  *)
(* (main.c:409 and dpid.c:719-721 hand the socket over, and back).         *)
ServerReachable ==
  pc # "gone" =>
    \A i \in Dpis :
      \/ i \in sock_set \/ proc[i] = "running"
      \/ proc[i] = "zombie" /\ pid[i] = "child" /\ caught_sigchld

(* The daemon and a server never wait for the same connections.            *)
OneAcceptor == \A i \in sock_set : proc[i] = "none" /\ pid[i] # "child"

(* The socket of a plugin is handed to its server and back: it always has  *)
(* somebody who accepts or will, and never two (main.c:403-418,            *)
(* dpid.c:709-729).                                                        *)
HandedOver == ServerReachable /\ OneAcceptor

(* numsocks counts the sockets that are watched, with the request socket;  *)
(* the assertions at main.c:338 to 408 are about it.                       *)
SocketsCounted == pc # "gone" => numsocks = Cardinality(sock_set) + 1

(* dpid.c:708 "Called by main loop when caught_sigchld == 1": the loop     *)
(* does not sleep on an exit it has not noticed.                           *)
ExitNoticed == caught_sigchld => pc # "asleep"

(* While connections wait at a plugin there is a next one that is          *)
(* accepted, whatever exits and is started again in the meantime.          *)
RequestServed ==
  \A i \in Dpis :
    []<>(backlog[i] = 0) \/ []<><<backlog'[i] < backlog[i]>>_vars
=============================================================================
