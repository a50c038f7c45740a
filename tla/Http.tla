-------------------------------- MODULE Http --------------------------------
(***************************************************************************)
(* The HTTP connection pool of dillo (src/src/IO/http.c) with what it uses *)
(* of the TLS layer (src/src/IO/tls.c, tls_openssl.c) and of the IO engine *)
(* (src/src/IO/IO.c).                                                      *)
(*                                                                         *)
(* All of it runs on the main thread, as handlers called by the event      *)
(* loop, but the handlers call back into each other: freeing a socket runs *)
(* the queue of its server, running the queue connects sockets, and a      *)
(* connection that fails at once frees its socket.  "stack" is the part of *)
(* the C stack that matters: while it is not empty its top frame takes the *)
(* next step, and an event is handled only when it is empty.               *)
(*                                                                         *)
(* Not modelled: proxies (HTTP_SOCKET_USE_PROXY), the text of the query.   *)
(* A socket key is used once (a_Klist_insert counts up), so the set Socks  *)
(* bounds the number of requests.                                          *)
(***************************************************************************)
EXTENDS Integers, Sequences, FiniteSets, SequencesExt

CONSTANTS Socks,        \* socket keys, one per request
          Servers,      \* (host, port, https) triples
          TlsServers,   \* those reached over TLS
          Fds,          \* file descriptor numbers left to HTTP
          MaxConns,     \* prefs.http_max_conns
          NumAddrs,     \* length of the address list of a host
          IoErrors,     \* which calls may fail: of {"read", "write", "socket"}
          WebsClose,    \* may a page that shares a request be closed?
          NoFd, NoServer

ASSUME HttpAssumption ==
  /\ TlsServers \subseteq Servers /\ IsFiniteSet(Socks)
  /\ MaxConns \in Nat \ {0} /\ NumAddrs \in Nat \ {0}
  /\ IoErrors \subseteq {"read", "write", "socket"} /\ WebsClose \in BOOLEAN
  /\ NoFd \notin Fds /\ NoServer \notin Servers

VARIABLES
  sd,          \* key -> SocketData_t
  ValidSocks,  \* keys in the ValidSocks list
  freed,       \* keys whose SocketData_t was given back to the allocator
  server,      \* server -> Server_t
  fd_map,      \* set of [fd, skey]
  cert,        \* TLS server -> cert_status
  tls,         \* TLS connections: set of [fd, owner, connecting]
  popups,      \* sockets whose certificate waits for the user
  open,        \* descriptors open in the kernel
  watch,       \* descriptors in the IO watch list during connect()
  ioFD,        \* key -> descriptor its IO structures hold
  webs,        \* keys whose S->web is valid
  chain,       \* key -> what the client of the request was told
  waitDns,     \* keys waiting for the resolver, oldest first
  resolved,    \* servers whose address is cached by the resolver
  stack        \* frames of the handlers being executed

vars == <<sd, ValidSocks, freed, server, fd_map, cert, tls, popups, open, watch,
          ioFD, webs, chain, waitDns, resolved, stack>>

Flags == {"QUEUED", "TO_BE_FREED", "IOWATCH_ACTIVE"}
CertStatus == {"NONE", "RECEIVING", "CLEAN", "BAD", "USER_ACCEPTED"}
NewSocket == [srv |-> NoServer, image |-> FALSE, flags |-> {}, SockFD |-> NoFd,
              connected_to |-> NoServer, idx |-> 0]
NoServerData == [live |-> FALSE, active_conns |-> 0, running |-> 0, queue |-> <<>>]

QueueFrame(v, i) == [fn |-> "queue", srv |-> v, i |-> i]   \* Http_connect_queued_sockets
ConnectFrame(s)  == [fn |-> "connect", s |-> s]            \* Http_connect_socket
DoneFrame(fd, r) == [fn |-> "done", fd |-> fd, success |-> r]  \* a_Http_connect_done
TlsFrame(s)      == [fn |-> "tls", s |-> s]                \* Http_connect_tls
FreeFrame(s)     == [fn |-> "free", s |-> s]               \* Http_socket_free
DnsFrame(s, r)   == [fn |-> "dns", s |-> s, success |-> r] \* Http_dns_cb
CloseFrame(fd)   == [fn |-> "close", fd |-> fd]            \* IO_close_fd
AnswerFrame(v, r) ==                                       \* Dns_serve_channel
  [fn |-> "answer", srv |-> v, success |-> r]

Top(fn) == stack # <<>> /\ Head(stack).fn = fn
Rest    == Tail(stack)
AtRest  == stack = <<>>

Init ==
  /\ sd = [s \in Socks |-> NewSocket]
  /\ ValidSocks = {} /\ freed = {}
  /\ server = [v \in Servers |-> NoServerData]
  /\ fd_map = {} /\ tls = {} /\ popups = {} /\ open = {} /\ watch = {}
  /\ cert = [v \in TlsServers |-> "NONE"]
  /\ ioFD = [s \in Socks |-> NoFd]
  /\ webs = {}
  /\ chain = [s \in Socks |-> "none"]
  /\ waitDns = <<>> /\ resolved = {} /\ stack = <<>>

(***************************************************************************)
(* Helpers.                                                                *)
(***************************************************************************)
(* dFree(S).  What is left of the socket is its server, which the TLS layer *)
(* may still hold on behalf of a dialog.                                    *)
Dead(s) == [NewSocket EXCEPT !.srv = sd[s].srv]

FdOwners(fd) == {e.skey : e \in {x \in fd_map : x.fd = fd}} \cap ValidSocks

\* Mutant: the entry of a freed socket stays.
Http_fd_map_keep_entry(fd) == fd_map

Http_fd_map_remove_entry(fd) == {e \in fd_map : e.fd # fd}

(* a_Tls_reset_server_state *)
Tls_reset_server_state(v) ==
  IF v \in TlsServers /\ cert[v] = "RECEIVING" THEN [cert EXCEPT ![v] = "NONE"]
  ELSE cert

(* a_Tls_connect_ready: the first to ask may connect, the others wait until *)
(* the certificate of the server has been examined.                         *)
a_Tls_connect_ready(v) ==
  IF v \notin TlsServers THEN "READY"
  ELSE CASE cert[v] = "RECEIVING" -> "NOT_YET"
         [] cert[v] = "BAD"       -> "NEVER"
         [] OTHER                 -> "READY"

AskedReady(v) == IF v \in TlsServers /\ cert[v] = "NONE"
                 THEN [cert EXCEPT ![v] = "RECEIVING"] ELSE cert

TlsConns(fd) == {t \in tls : t.fd = fd}

(* Http_socket_enqueue: a page goes before the first image whose web is     *)
(* valid, an image to the end.                                              *)
Http_socket_enqueue(q, s) ==
  LET images == {i \in 1 .. Len(q) : q[i] \in webs /\ sd[q[i]].image}
      at == IF sd[s].image \/ images = {} THEN Len(q) + 1
            ELSE CHOOSE i \in images : \A j \in images : i <= j
  IN InsertAt(q, at, s)

(***************************************************************************)
(* Http_socket_free.  A queued socket is only marked; any other one gives  *)
(* its place back and runs the queue of its server.                        *)
(***************************************************************************)
FreeUnknown(s) ==
  /\ s \notin ValidSocks
  /\ stack' = Rest
  /\ UNCHANGED <<sd, ValidSocks, freed, server, fd_map, cert, tls, open, watch>>

\* Mutant: the memory of a queued socket is given back at once.
FreeQueued_now(s) ==
  /\ s \in ValidSocks /\ "QUEUED" \in sd[s].flags
  /\ ValidSocks' = ValidSocks \ {s}
  /\ freed' = freed \cup {s}
  /\ stack' = Rest
  /\ UNCHANGED <<sd, server, fd_map, cert, tls, open, watch>>

FreeQueued(s) ==
  /\ s \in ValidSocks /\ "QUEUED" \in sd[s].flags
  /\ ValidSocks' = ValidSocks \ {s}
  /\ sd' = [sd EXCEPT ![s].flags = @ \cup {"TO_BE_FREED"}]
  /\ stack' = Rest
  /\ UNCHANGED <<freed, server, fd_map, cert, tls, open, watch>>

(* The descriptor is closed here while connect() or the TLS handshake is    *)
(* pending: the IO engine has not been told it yet.                         *)
ClosedByFree(s) ==
  IF \/ "IOWATCH_ACTIVE" \in sd[s].flags
     \/ /\ sd[s].connected_to # NoServer
        /\ \E t \in TlsConns(sd[s].SockFD) : t.connecting
  THEN {sd[s].SockFD} ELSE {}

(* The connection no longer counts, and the queue of its server is run. *)
GiveBackSlot(v) ==
  /\ server' = [server EXCEPT ![v].active_conns = @ - 1, ![v].running = @ + 1]
  /\ stack' = <<QueueFrame(v, 1)>> \o Rest

FreeUnqueued(s) ==
  LET S == sd[s] IN
  /\ s \in ValidSocks /\ "QUEUED" \notin S.flags
  /\ ValidSocks' = ValidSocks \ {s}
  /\ freed' = freed \cup {s}
  /\ sd' = [sd EXCEPT ![s] = Dead(s)]
  /\ watch' = IF "IOWATCH_ACTIVE" \in S.flags THEN watch \ {S.SockFD} ELSE watch
  /\ open' = open \ ClosedByFree(s)
  /\ fd_map' = Http_fd_map_remove_entry(S.SockFD)
  /\ cert' = Tls_reset_server_state(S.srv)
  /\ IF S.connected_to = NoServer
     THEN /\ stack' = Rest
          /\ UNCHANGED <<tls, server>>
     ELSE /\ tls' = tls \ TlsConns(S.SockFD)
          /\ GiveBackSlot(S.connected_to)

Http_socket_free ==
  /\ Top("free")
  /\ LET s == Head(stack).s IN FreeUnknown(s) \/ FreeQueued(s) \/ FreeUnqueued(s)
  /\ UNCHANGED <<popups, ioFD, webs, chain, waitDns, resolved>>

(***************************************************************************)
(* Http_connect_queued_sockets, one action per turn of its loop.           *)
(***************************************************************************)
QV == Head(stack).srv
QI == Head(stack).i

\* Mutant: off by one in the connection limit.
QueueGoesOn_le == /\ QI <= Len(server[QV].queue)
                  /\ server[QV].active_conns <= MaxConns

QueueGoesOn == /\ QI <= Len(server[QV].queue)
               /\ server[QV].active_conns < MaxConns
QS == server[QV].queue[QI]
NextEntry == stack' = <<QueueFrame(QV, QI + 1)>> \o Rest

QueueReap ==
  /\ Top("queue") /\ QueueGoesOn /\ "TO_BE_FREED" \in sd[QS].flags
  /\ server' = [server EXCEPT ![QV].queue = RemoveAt(@, QI)]
  /\ sd' = [sd EXCEPT ![QS] = Dead(QS)]
  /\ freed' = freed \cup {QS}
  /\ UNCHANGED <<ValidSocks, fd_map, cert, tls, popups, open, watch, ioFD, webs,
                 chain, waitDns, resolved, stack>>

(* A server the user refused, or a request whose page is gone: the socket   *)
(* is marked to be freed.  Its chain is not told.                           *)
QueueDiscard ==
  /\ Top("queue") /\ QueueGoesOn /\ "TO_BE_FREED" \notin sd[QS].flags
  /\ a_Tls_connect_ready(QV) = "NEVER" \/ QS \notin webs
  /\ cert' = AskedReady(QV)
  /\ ValidSocks' = ValidSocks \ {QS}
  /\ sd' = [sd EXCEPT ![QS].flags = @ \cup {"TO_BE_FREED"}]
  /\ NextEntry
  /\ UNCHANGED <<freed, server, fd_map, tls, popups, open, watch, ioFD, webs,
                 chain, waitDns, resolved>>

QueueConnect ==
  /\ Top("queue") /\ QueueGoesOn /\ "TO_BE_FREED" \notin sd[QS].flags
  /\ a_Tls_connect_ready(QV) = "READY" /\ QS \in webs
  /\ cert' = AskedReady(QV)
  /\ server' = [server EXCEPT ![QV].queue = RemoveAt(@, QI),
                              ![QV].active_conns = @ + 1]
  /\ sd' = [sd EXCEPT ![QS].flags = @ \ {"QUEUED"}, ![QS].connected_to = QV]
  /\ stack' = <<ConnectFrame(QS)>> \o stack
  /\ UNCHANGED <<ValidSocks, freed, fd_map, tls, popups, open, watch, ioFD, webs,
                 chain, waitDns, resolved>>

QueueSkip ==
  /\ Top("queue") /\ QueueGoesOn /\ "TO_BE_FREED" \notin sd[QS].flags
  /\ a_Tls_connect_ready(QV) = "NOT_YET" /\ QS \in webs
  /\ NextEntry
  /\ UNCHANGED <<sd, ValidSocks, freed, server, fd_map, cert, tls, popups, open,
                 watch, ioFD, webs, chain, waitDns, resolved>>

Http_server_remove(v) ==
  LET q == Range(server[v].queue)
      marked == {s \in q : "TO_BE_FREED" \in sd[s].flags}
  IN
  /\ server' = [server EXCEPT ![v] = NoServerData]
  /\ freed' = freed \cup marked
  /\ sd' = [s \in Socks |->
              IF s \in marked THEN Dead(s)
              ELSE IF s \in q THEN [sd[s] EXCEPT !.flags = @ \ {"QUEUED"}]
              ELSE sd[s]]

LastRun(v) == server[v].running = 1

(* The end of the loop.  The outermost run removes a server that has no     *)
(* connection left, and whatever is in its queue with it.                   *)
QueueEnd ==
  /\ Top("queue") /\ ~QueueGoesOn
  /\ IF LastRun(QV) /\ server[QV].active_conns = 0
     THEN Http_server_remove(QV)
     ELSE /\ server' = [server EXCEPT ![QV].running = @ - 1]
          /\ UNCHANGED <<freed, sd>>
  /\ stack' = Rest
  /\ UNCHANGED <<ValidSocks, fd_map, cert, tls, popups, open, watch, ioFD, webs,
                 chain, waitDns, resolved>>

(***************************************************************************)
(* Http_connect_socket, one action per address tried.                      *)
(***************************************************************************)
CS == Head(stack).s
Connected(s, fd) == IF sd[s].srv \in TlsServers THEN TlsFrame(s) ELSE DoneFrame(fd, TRUE)

\* Mutant: one address too many.
MoreAddrs_le == sd[CS].idx <= NumAddrs

MoreAddrs == sd[CS].idx < NumAddrs

(* The descriptor of the address that failed before is closed first. *)
StaleFd == IF sd[CS].idx > 0 THEN {sd[CS].SockFD} \ {NoFd} ELSE {}
FdMapWithoutStale == {e \in fd_map : e.fd \notin StaleFd}

ConnectNoSocket ==
  /\ Top("connect") /\ MoreAddrs /\ "socket" \in IoErrors
  /\ open' = open \ StaleFd
  /\ fd_map' = FdMapWithoutStale
  /\ sd' = [sd EXCEPT ![CS].SockFD = NoFd, ![CS].idx = @ + 1]
  /\ UNCHANGED <<ValidSocks, freed, server, cert, tls, popups, watch, ioFD, webs,
                 chain, waitDns, resolved, stack>>

(* socket() and connect().  The kernel hands out any free number: other     *)
(* parts of the program open and close descriptors too.                     *)
ConnectAddr(fd, result) ==
  /\ Top("connect") /\ MoreAddrs
  /\ fd \notin open \ StaleFd
  /\ open' = (open \ StaleFd) \cup {fd}
  /\ fd_map' = FdMapWithoutStale \cup {[fd |-> fd, skey |-> CS]}
  /\ CASE result = "pending" ->
            /\ sd' = [sd EXCEPT ![CS].SockFD = fd, ![CS].flags = @ \cup {"IOWATCH_ACTIVE"}]
            /\ watch' = watch \cup {fd}
            /\ stack' = Rest
            /\ UNCHANGED tls
       [] result = "connected" ->
            /\ sd' = [sd EXCEPT ![CS].SockFD = fd]
            /\ stack' = <<Connected(CS, fd)>> \o Rest
            /\ UNCHANGED <<watch, tls>>
       [] result = "error" ->
            /\ sd' = [sd EXCEPT ![CS].SockFD = fd, ![CS].idx = @ + 1]
            /\ UNCHANGED <<watch, stack, tls>>
  /\ UNCHANGED <<ValidSocks, freed, server, cert, popups, ioFD, webs, chain,
                 waitDns, resolved>>

\* Mutant: nobody is told that the addresses ran out.
ConnectGivesUp_silent ==
  /\ Top("connect") /\ ~MoreAddrs
  /\ stack' = Rest
  /\ UNCHANGED <<sd, ValidSocks, freed, server, fd_map, cert, tls, popups, open,
                 watch, ioFD, webs, chain, waitDns, resolved>>

ConnectGivesUp ==
  /\ Top("connect") /\ ~MoreAddrs
  /\ stack' = <<DoneFrame(sd[CS].SockFD, FALSE)>> \o Rest
  /\ UNCHANGED <<sd, ValidSocks, freed, server, fd_map, cert, tls, popups, open,
                 watch, ioFD, webs, chain, waitDns, resolved>>

(***************************************************************************)
(* a_Http_connect_done(fd, success): tell the IO engine its descriptor and *)
(* send the query, or close and free the socket and abort the request.  A  *)
(* descriptor that is not in fd_map is ignored.                            *)
(***************************************************************************)
a_Http_connect_done ==
  /\ Top("done")
  /\ LET fd == Head(stack).fd IN
     \/ /\ FdOwners(fd) = {}
        /\ stack' = Rest
        /\ UNCHANGED <<ioFD, open, chain>>
     \/ \E s \in FdOwners(fd) :
          \/ /\ Head(stack).success /\ s \in webs
             /\ ioFD' = [ioFD EXCEPT ![s] = fd]
             /\ stack' = Rest
             /\ UNCHANGED <<open, chain>>
          \/ /\ ~(Head(stack).success /\ s \in webs)
             /\ open' = open \ {fd}
             /\ stack' = <<FreeFrame(s)>> \o Rest
             /\ chain' = [chain EXCEPT ![s] = "aborted"]
             /\ UNCHANGED ioFD
  /\ UNCHANGED <<sd, ValidSocks, freed, server, fd_map, cert, tls, popups, watch,
                 webs, waitDns, resolved>>

(***************************************************************************)
(* TLS: Http_connect_tls and a_Tls_openssl_connect start the handshake.    *)
(***************************************************************************)
Http_connect_tls ==
  /\ Top("tls")
  /\ LET s == Head(stack).s
         fd == sd[s].SockFD
     IN IF cert[sd[s].srv] = "BAD"
        THEN /\ stack' = <<DoneFrame(fd, FALSE)>> \o Rest
             /\ UNCHANGED tls
        ELSE /\ tls' = tls \cup {[fd |-> fd, owner |-> s, connecting |-> TRUE]}
             /\ stack' = Rest
  /\ UNCHANGED <<sd, ValidSocks, freed, server, fd_map, cert, popups, open, watch,
                 ioFD, webs, chain, waitDns, resolved>>

(* The end of Tls_connect: on failure the TLS connection is dropped, and    *)
(* http.c is told on its descriptor in either case.                         *)
Tls_finish(t, success) ==
  /\ tls' = IF success THEN (tls \ {t}) \cup {[t EXCEPT !.connecting = FALSE]}
            ELSE tls \ {t}
  /\ stack' = <<DoneFrame(t.fd, success)>>
  /\ UNCHANGED <<sd, ValidSocks, freed, server, fd_map, open, watch, ioFD, webs,
                 chain, waitDns, resolved>>

TlsFails(t) ==
  /\ AtRest /\ t.connecting /\ t.owner \notin popups
  /\ cert' = Tls_reset_server_state(sd[t.owner].srv)
  /\ Tls_finish(t, FALSE)
  /\ UNCHANGED popups

TlsClean(t) ==
  /\ AtRest /\ t.connecting /\ t.owner \notin popups
  /\ cert' = [cert EXCEPT ![sd[t.owner].srv] =
                            IF @ = "USER_ACCEPTED" THEN @ ELSE "CLEAN"]
  /\ Tls_finish(t, TRUE)
  /\ UNCHANGED popups

(* A doubtful certificate: a_Dialog_choice runs the event loop until the    *)
(* user answers, so anything can happen to the socket meanwhile.            *)
TlsDoubt(t) ==
  /\ AtRest /\ t.connecting /\ t.owner \notin popups
  /\ cert[sd[t.owner].srv] # "USER_ACCEPTED"
  /\ popups' = popups \cup {t.owner}
  /\ UNCHANGED <<sd, ValidSocks, freed, server, fd_map, cert, tls, open, watch,
                 ioFD, webs, chain, waitDns, resolved, stack>>

TlsUserAnswers(s, accepts) ==
  /\ AtRest /\ s \in popups
  /\ popups' = popups \ {s}
  /\ cert' = [cert EXCEPT ![sd[s].srv] = IF accepts THEN "USER_ACCEPTED" ELSE "BAD"]
  /\ LET mine == {t \in tls : t.owner = s /\ t.connecting} IN
     \/ \E t \in mine : Tls_finish(t, accepts)
     \/ /\ mine = {}          \* "Connection disappeared"
        /\ UNCHANGED <<sd, ValidSocks, freed, server, fd_map, tls, open, watch,
                       ioFD, webs, chain, waitDns, resolved, stack>>

(***************************************************************************)
(* The resolver's answer: Http_dns_cb for every waiting socket in turn,    *)
(* one action per turn.                                                    *)
(***************************************************************************)
Http_dns_cb ==
  /\ Top("dns")
  /\ LET s == Head(stack).s
         v == sd[s].srv
     IN
     \/ /\ s \notin ValidSocks
        /\ stack' = Rest
        /\ UNCHANGED <<sd, server, chain>>
     \/ /\ s \in ValidSocks /\ s \in webs /\ Head(stack).success
        /\ sd' = [sd EXCEPT ![s].flags = @ \cup {"QUEUED"}]
        /\ server' = [server EXCEPT ![v].live = TRUE,
                                    ![v].queue = Http_socket_enqueue(@, s),
                                    ![v].running = @ + 1]
        /\ stack' = <<QueueFrame(v, 1)>> \o Rest
        /\ UNCHANGED chain
     \/ /\ s \in ValidSocks /\ ~(s \in webs /\ Head(stack).success)
        /\ stack' = <<FreeFrame(s)>> \o Rest
        /\ chain' = [chain EXCEPT ![s] = "aborted"]
        /\ UNCHANGED <<sd, server>>
  /\ UNCHANGED <<ValidSocks, freed, fd_map, cert, tls, popups, open, watch, ioFD,
                 webs, waitDns, resolved>>

Waiting(v) == {i \in 1 .. Len(waitDns) : sd[waitDns[i]].srv = v}

Dns_serve_channel ==
  /\ Top("answer")
  /\ LET waiting == Waiting(Head(stack).srv) IN
     \/ /\ waiting = {}
        /\ stack' = Rest
        /\ UNCHANGED waitDns
     \/ \E i \in waiting :
          /\ \A j \in waiting : i <= j
          /\ waitDns' = RemoveAt(waitDns, i)
          /\ stack' = <<DnsFrame(waitDns[i], Head(stack).success)>> \o stack
  /\ UNCHANGED <<sd, ValidSocks, freed, server, fd_map, cert, tls, popups, open,
                 watch, ioFD, webs, chain, resolved>>

DnsAnswer(v, success) ==
  /\ AtRest /\ Waiting(v) # {}
  /\ resolved' = IF success THEN resolved \cup {v} ELSE resolved
  /\ stack' = <<AnswerFrame(v, success)>>
  /\ UNCHANGED <<sd, ValidSocks, freed, server, fd_map, cert, tls, popups, open,
                 watch, ioFD, webs, chain, waitDns>>

(***************************************************************************)
(* a_Http_ccc: the request starts (1B OpStart, Http_sock_new, Http_get).   *)
(***************************************************************************)
Http_get(s, v, image) ==
  /\ AtRest /\ chain[s] = "none"
  /\ sd' = [sd EXCEPT ![s].srv = v, ![s].image = image]
  /\ ValidSocks' = ValidSocks \cup {s}
  /\ webs' = webs \cup {s}
  /\ chain' = [chain EXCEPT ![s] = "open"]
  /\ IF v \in resolved THEN stack' = <<DnsFrame(s, TRUE)>> /\ UNCHANGED waitDns
     ELSE waitDns' = Append(waitDns, s) /\ UNCHANGED stack
  /\ UNCHANGED <<freed, server, fd_map, cert, tls, popups, open, watch, ioFD,
                 resolved>>

(* Http_connect_socket_cb: connect() is over. *)
Http_connect_socket_cb(s, success) ==
  /\ AtRest /\ s \in ValidSocks /\ sd[s].SockFD \in watch
  /\ "IOWATCH_ACTIVE" \in sd[s].flags
  /\ watch' = watch \ {sd[s].SockFD}
  /\ sd' = [sd EXCEPT ![s].flags = @ \ {"IOWATCH_ACTIVE"},
                      ![s].idx = IF success THEN @ ELSE @ + 1]
  /\ stack' = <<IF success THEN Connected(s, sd[s].SockFD) ELSE ConnectFrame(s)>>
  /\ UNCHANGED <<ValidSocks, freed, server, fd_map, cert, tls, popups, open, ioFD,
                 webs, chain, waitDns, resolved>>

(***************************************************************************)
(* a_Http_ccc and a_IO_ccc: the end of a request.                          *)
(***************************************************************************)
Streaming(s) == chain[s] = "open" /\ ioFD[s] # NoFd
Ends(s, how) == /\ chain' = [chain EXCEPT ![s] = how]
                /\ ioFD' = [ioFD EXCEPT ![s] = NoFd]

(* The server closes the connection (2F OpEnd): the socket is freed, the    *)
(* client told, and only then is the descriptor closed.                     *)
IoEof(s) ==
  /\ AtRest /\ Streaming(s)
  /\ Ends(s, "ended")
  /\ stack' = <<FreeFrame(s), CloseFrame(ioFD[s])>>
  /\ UNCHANGED <<sd, ValidSocks, freed, server, fd_map, cert, tls, popups, open,
                 watch, webs, waitDns, resolved>>

(* An IO error.  Reading (2F OpAbort): as above, with both branches closing *)
(* the descriptor one after the other.  Writing (1F OpAbort): the write     *)
(* branch closes it first, and the read branch once more at the end.        *)
IoError(s, branch) ==
  /\ AtRest /\ Streaming(s)
  /\ Ends(s, "aborted")
  /\ open' = IF branch = "write" THEN open \ {ioFD[s]} ELSE open
  /\ stack' = <<FreeFrame(s), CloseFrame(ioFD[s])>>
  /\ UNCHANGED <<sd, ValidSocks, freed, server, fd_map, cert, tls, popups, watch,
                 webs, waitDns, resolved>>

IO_close_fd ==
  /\ Top("close")
  /\ open' = open \ {Head(stack).fd}
  /\ watch' = watch \ {Head(stack).fd}
  /\ stack' = Rest
  /\ UNCHANGED <<sd, ValidSocks, freed, server, fd_map, cert, tls, popups, ioFD,
                 webs, chain, waitDns, resolved>>

(* The client aborts the request (a_Capi_conn_abort_by_url: 1B then 2B). *)
Abort(s) ==
  /\ AtRest /\ chain[s] = "open"
  /\ Ends(s, "aborted")
  /\ stack' = IF ioFD[s] = NoFd THEN <<FreeFrame(s)>>
              ELSE <<FreeFrame(s), CloseFrame(ioFD[s])>>
  /\ UNCHANGED <<sd, ValidSocks, freed, server, fd_map, cert, tls, popups, open,
                 watch, webs, waitDns, resolved>>

(* The page that made the request is closed while another one still waits   *)
(* for the same URL: the web structure goes, the chain stays.               *)
WebClose(s) ==
  /\ AtRest /\ WebsClose /\ s \in webs /\ chain[s] = "open"
  /\ webs' = webs \ {s}
  /\ UNCHANGED <<sd, ValidSocks, freed, server, fd_map, cert, tls, popups, open,
                 watch, ioFD, chain, waitDns, resolved, stack>>

(***************************************************************************)
(* Http_socket_reuse: the reply is complete and the connection persistent. *)
(***************************************************************************)
Reusable(v) == {i \in 1 .. Len(server[v].queue) :
                  LET n == server[v].queue[i] IN
                    "TO_BE_FREED" \notin sd[n].flags /\ n \in webs}

Http_socket_reuse(s) ==
  LET v == sd[s].connected_to
      fd == sd[s].SockFD
  IN
  /\ AtRest /\ Streaming(s) /\ s \in ValidSocks
  /\ Ends(s, "ended")
  /\ \/ /\ Reusable(v) = {}
        /\ stack' = <<FreeFrame(s), CloseFrame(fd)>>
        /\ UNCHANGED <<sd, ValidSocks, freed, server, fd_map, cert>>
     \/ \E i \in Reusable(v) :
          LET n == server[v].queue[i] IN
          /\ \A j \in Reusable(v) : i <= j
          /\ ValidSocks' = ValidSocks \ {s}
          /\ freed' = freed \cup {s}
          /\ cert' = Tls_reset_server_state(sd[s].srv)
          /\ sd' = [sd EXCEPT ![s] = Dead(s),
                              ![n].SockFD = fd, ![n].connected_to = v,
                              ![n].flags = @ \ {"QUEUED"}]
          /\ server' = [server EXCEPT ![v].queue = RemoveAt(@, i)]
          /\ fd_map' = Http_fd_map_remove_entry(fd) \cup {[fd |-> fd, skey |-> n]}
          /\ stack' = <<DoneFrame(fd, TRUE)>>
  /\ UNCHANGED <<tls, popups, open, watch, webs, waitDns, resolved>>

Handler == \/ Http_socket_free \/ QueueReap \/ QueueDiscard \/ QueueConnect
           \/ QueueSkip \/ QueueEnd \/ ConnectNoSocket \/ ConnectGivesUp
           \/ \E fd \in Fds : \E r \in {"pending", "connected", "error"} : ConnectAddr(fd, r)
           \/ a_Http_connect_done \/ Http_connect_tls \/ Http_dns_cb
           \/ Dns_serve_channel \/ IO_close_fd

Network ==
  \/ \E v \in Servers, r \in BOOLEAN : DnsAnswer(v, r)
  \/ \E s \in Socks, r \in BOOLEAN : Http_connect_socket_cb(s, r)
  \/ \E t \in tls : TlsFails(t) \/ TlsClean(t) \/ TlsDoubt(t)
  \/ \E s \in Socks : IoEof(s) \/ Http_socket_reuse(s)
  \/ \E s \in Socks, b \in IoErrors \ {"socket"} : IoError(s, b)

User ==
  \/ \E s \in Socks, v \in Servers, image \in BOOLEAN : Http_get(s, v, image)
  \/ \E s \in Socks : Abort(s) \/ WebClose(s)
  \/ \E s \in Socks, accepts \in BOOLEAN : TlsUserAnswers(s, accepts)

Next == Handler \/ Network \/ User
Spec == Init /\ [][Next]_vars

(* A handler runs to its end; the resolver answers (see Dns), a pending     *)
(* connect() is decided by the kernel, and a server that got the query      *)
(* answers, closes or fails.  The user does nothing by obligation.          *)
Fairness ==
  /\ WF_vars(Handler)
  /\ \A v \in Servers : WF_vars(\E r \in BOOLEAN : DnsAnswer(v, r))
  /\ \A s \in Socks :
       /\ WF_vars(\E r \in BOOLEAN : Http_connect_socket_cb(s, r))
       /\ WF_vars(IoEof(s) \/ Http_socket_reuse(s))

FairSpec == Spec /\ Fairness

-----------------------------------------------------------------------------
(***************************************************************************)
(* Properties.                                                             *)
(***************************************************************************)
Connections(v) == {s \in Socks : sd[s].connected_to = v}

(* Type invariant of the tables of http.c, tls.c and IO.c.                 *)
TypeOK ==
  /\ sd \in [Socks -> [srv : Servers \cup {NoServer}, image : BOOLEAN,
                       flags : SUBSET Flags, SockFD : Fds \cup {NoFd},
                       connected_to : Servers \cup {NoServer}, idx : 0 .. NumAddrs]]
  /\ ValidSocks \subseteq Socks /\ freed \subseteq Socks /\ webs \subseteq Socks
  /\ popups \subseteq Socks
  /\ server \in [Servers -> [live : BOOLEAN, active_conns : Nat, running : Nat,
                             queue : Seq(Socks)]]
  /\ fd_map \subseteq [fd : Fds \cup {NoFd}, skey : Socks]
  /\ cert \in [TlsServers -> CertStatus]
  /\ tls \subseteq [fd : Fds, owner : Socks, connecting : BOOLEAN]
  /\ open \subseteq Fds /\ watch \subseteq Fds
  /\ ioFD \in [Socks -> Fds \cup {NoFd}]
  /\ chain \in [Socks -> {"none", "open", "ended", "aborted"}]
  /\ waitDns \in Seq(Socks) /\ resolved \subseteq Servers

(* The per-server connection limit is kept, and the counter that enforces  *)
(* it is exact in the middle of nested queue runs too.                     *)
ActiveConnsExact ==
  \A v \in Servers : /\ server[v].active_conns = Cardinality(Connections(v))
                     /\ server[v].active_conns <= MaxConns

(* A Server_t outlives its users: the sockets that point to its host name  *)
(* and the queue runs that will look at it when they resume.               *)
ServerOutlivesUsers ==
  \A v \in Servers :
    /\ Connections(v) # {} => server[v].live
    /\ (\E i \in 1 .. Len(stack) : stack[i].fn = "queue" /\ stack[i].srv = v)
         => server[v].live

(* The queues hold each waiting socket once, hold no memory that was given *)
(* back, and hold every socket that says it is queued.                     *)
QueueSound ==
  LET in(s) == {v \in Servers : s \in Range(server[v].queue)} IN
  /\ \A v \in Servers : IsInjective(server[v].queue)
  /\ \A s \in Socks :
       /\ Cardinality(in(s)) <= 1
       /\ in(s) # {} <=> "QUEUED" \in sd[s].flags
       /\ in(s) # {} => s \notin freed /\ sd[s].connected_to = NoServer
       /\ in(s) # {} => (s \in ValidSocks <=> "TO_BE_FREED" \notin sd[s].flags)

(* The assertion of Http_fd_map_add_entry: a descriptor is never entered   *)
(* twice in fd_map.                                                        *)
FdMapUnique == \A e, f \in fd_map : e.fd = f.fd => e = f

(* Between two events the open descriptors are exactly those of the valid  *)
(* sockets: none leaks, none is closed under its owner.                    *)
FdsAccounted ==
  AtRest => /\ open = {sd[s].SockFD : s \in ValidSocks} \ {NoFd}
            /\ \A e \in fd_map : e.skey \in ValidSocks /\ sd[e.skey].SockFD = e.fd

(* assert(sd) in a_Http_ccc: while a request streams its socket is valid.  *)
StreamHasSocket == AtRest => \A s \in Socks : Streaming(s) => s \in ValidSocks

(* No connection slot stays unused while a socket that could take it waits *)
(* (servers without TLS).                                                  *)
NoIdleSlot ==
  AtRest => \A v \in Servers \ TlsServers :
              (\E s \in Range(server[v].queue) : s \in ValidSocks /\ s \in webs)
                => server[v].active_conns = MaxConns

(* The servers with their queues, in the middle of nested runs too: each   *)
(* outlives its users, its queue is sound and its slots are put to use.    *)
ServersSound == ServerOutlivesUsers /\ QueueSound /\ NoIdleSlot

(* The descriptors: each entered once, none leaked, none closed under its  *)
(* owner, and none left without the socket that streams over it.           *)
FdsSound == FdMapUnique /\ FdsAccounted /\ StreamHasSocket

(* Every request ends: its client gets the whole reply or is told of the   *)
(* failure.  Queues and nested runs forget nobody.                         *)
EveryRequestEnds ==
  \A s \in Socks : chain[s] = "open" ~> chain[s] \in {"ended", "aborted"}

(* "permit a single initial connection to a server": while a certificate   *)
(* is awaited, exactly one connection to that server is being made.        *)
SingleInitialConnection ==
  AtRest => \A v \in TlsServers :
              cert[v] = "RECEIVING" =>
                Cardinality({s \in Connections(v) : ioFD[s] = NoFd}) = 1
=============================================================================
