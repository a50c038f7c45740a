------------------------------- MODULE Cache -------------------------------
(***************************************************************************)
(* The memory cache of dillo (src/src/cache.c) with the connection layer   *)
(* that feeds it (src/src/capi.c).                                         *)
(*                                                                         *)
(* Everything runs in the main thread: a handler (a user's request, a      *)
(* message of the connection, a timeout) runs to its end before the next.  *)
(* A handler is a composition of operators on the record S of all the      *)
(* state, in the order of the calls; its action assigns the result.        *)
(*                                                                         *)
(* Data: a body is its size, cut at MaxData; a response is its kind:       *)
(*   page          a type the browser shows                                *)
(*   redirect      301, and any other 30x that is followed                 *)
(*   temp_redirect 302, whose target is fetched end to end                 *)
(*   attachment    not viewable, huge or "Content-Disposition: attachment" *)
(*   mismatch      the Content-Type header contradicts the data            *)
(* A client is a slot of the user interface: the root page of a window, or *)
(* an image.  Charset and transfer decoding, authentication, internal      *)
(* ("about:") urls and dpi connections are left out.                       *)
(***************************************************************************)
EXTENDS Integers, Lists

CONSTANTS Urls, NoUrl,
          Windows,       \* clients with WEB_RootUrl, one per window
          Images,        \* the other clients
          NoEntry,
          MaxData,       \* bound on the size of a body
          MaxClients,    \* bound on the clients waiting at a time
          MaxRedirects,  \* redirect_level at which a loop is declared (5)
          Kinds,         \* the kinds of response the servers give
          Mishaps        \* events let in: "read_error" (before any data),
                         \* "empty_reply" (no header), "shared_stop" (of one
                         \* client of an entry in DelayedQueue)

Entries == [InProgress : BOOLEAN, GotHeader : BOOLEAN, GotContentType : BOOLEAN,
            RedirectLoop : BOOLEAN, kind : Kinds, Location : Urls \cup {NoUrl},
            size : 0 .. MaxData, DataRefcount : -1 .. 2]

ASSUME NullAssumption == NoUrl \notin Urls /\ NoEntry \notin Entries
ASSUME BoundAssumption ==
  MaxData \in Nat \ {0} /\ MaxClients \in Nat \ {0} /\ MaxRedirects \in Nat \ {0}
ASSUME ClientAssumption == Windows \cap Images = {}
ASSUME KindAssumption ==
  /\ "page" \in Kinds
  /\ Kinds \subseteq {"page", "redirect", "temp_redirect", "attachment", "mismatch"}
ASSUME MishapAssumption ==
  Mishaps \subseteq {"read_error", "empty_reply", "shared_stop"}

VARIABLES
  CachedURLs,    \* url -> its entry, or NoEntry
  ClientQueue,   \* sequence of [key, Url, Callback, BufSize]
  DelayedQueue,  \* sequence of urls whose entry has to be processed
  timer,         \* DelayedQueueIdleId: the timeout is set
  conn,          \* url -> "none", "open", "closing" (InfoRecv is NULL)
  level,         \* window -> bw->redirect_level
  at             \* the main thread: "loop" or in the "delayed" callback

vars == <<CachedURLs, ClientQueue, DelayedQueue, timer, conn, level, at>>

Clients == Windows \cup Images
IsRedirect(kind) == kind \in {"redirect", "temp_redirect"}
Queued  == [key : Clients, Url : Urls, Callback : BOOLEAN, BufSize : 0 .. MaxData]

\* Cache_entry_init
Fresh == [InProgress |-> TRUE, GotHeader |-> FALSE, GotContentType |-> FALSE,
          RedirectLoop |-> FALSE, kind |-> "page", Location |-> NoUrl,
          size |-> 0, DataRefcount |-> 0]

State == [entry |-> CachedURLs, queue |-> ClientQueue, delayed |-> DelayedQueue,
          timer |-> timer, conn |-> conn, level |-> level]
\* S is bound, for TLC to evaluate the handler once.
Become(S) == \E T \in {S} :
  /\ CachedURLs' = T.entry   /\ ClientQueue' = T.queue
  /\ DelayedQueue' = T.delayed /\ timer' = T.timer
  /\ conn' = T.conn /\ level' = T.level

Init == /\ CachedURLs = [u \in Urls |-> NoEntry]
        /\ ClientQueue = <<>> /\ DelayedQueue = <<>>
        /\ timer = FALSE
        /\ conn = [u \in Urls |-> "none"]
        /\ level = [w \in Windows |-> 0]
        /\ at = "loop"

(***************************************************************************)
(* Clients and entries.                                                    *)
(***************************************************************************)
Of(S, u) == {i \in 1 .. Len(S.queue) : S.queue[i].Url = u}
Waiting(S, u) == {q \in ToSet(S.queue) : q.Url = u}
Roots(S, u) == Keep(S.queue, {q \in Waiting(S, u) : q.key \in Windows})
Keys(q) == {q[i].key : i \in 1 .. Len(q)}

\* Cache_client_dequeue, for each of a set of clients.
Dequeue(S, gone) == [S EXCEPT !.queue = Keep(@, ToSet(@) \ gone)]

Cache_client_enqueue(S, c, u) ==
  [S EXCEPT !.queue = Append(@, [key |-> c, Url |-> u, Callback |-> FALSE,
                                 BufSize |-> 0])]

Undelay(S, u) == [S EXCEPT !.delayed = Keep(@, Urls \ {u})]

Cache_delayed_process_queue(S, u) ==
  [S EXCEPT !.delayed = IF u \in ToSet(@) THEN @ ELSE Append(@, u),
            !.timer = TRUE]

\* Mutant: the clients of the entry stay in the queue.
Cache_entry_remove_keeps_clients(S, u) ==
  IF S.entry[u] = NoEntry THEN S
  ELSE [Undelay(S, u) EXCEPT !.entry[u] = NoEntry]

(* An entry is removed with its clients, and from DelayedQueue. *)
Cache_entry_remove(S, u) ==
  IF S.entry[u] = NoEntry THEN S
  ELSE [Undelay(Dequeue(S, Waiting(S, u)), u) EXCEPT !.entry[u] = NoEntry]

(* Abort both branches of the connection; that of the answer (absent while *)
(* the connection is closing) removes the entry.                           *)
a_Capi_conn_abort_by_url(S, u) ==
  IF S.conn[u] = "open" THEN [Cache_entry_remove(S, u) EXCEPT !.conn[u] = "none"]
  ELSE S

a_Cache_open_url(S, c, u, e2e) ==
  LET R == IF e2e THEN Cache_entry_remove(S, u) ELSE S
      Q == Cache_client_enqueue(R, c, u)
  IN IF R.entry[u] = NoEntry THEN [Q EXCEPT !.entry[u] = Fresh]
     ELSE Cache_delayed_process_queue(Q, u)

(* The http branch: a url that is not cached, or is asked for end to end,  *)
(* gets a new connection.  It may fail at once (not "starts"), with the    *)
(* effect of ConnFails, and then no client is enqueued.                    *)
a_Capi_open_url(S, c, u, e2e, starts) ==
  LET A == a_Capi_conn_abort_by_url(S, u)
  IN IF ~e2e /\ S.entry[u] # NoEntry THEN a_Cache_open_url(S, c, u, FALSE)
     ELSE IF starts
     THEN a_Cache_open_url([A EXCEPT !.conn[u] = "open"], c, u, e2e)
     ELSE Cache_entry_remove(A, u)

(***************************************************************************)
(* Cache_process_queue.                                                    *)
(***************************************************************************)
\* Mutant: redirect_level is never compared.
Cache_redirect_unbounded(S, u, w, starts) ==
  LET e == S.entry[u] IN
    IF e.Location = u THEN S
    ELSE a_Capi_open_url(S, w, e.Location, e.kind = "temp_redirect", starts)

(* The window is sent to the new location.  a_Nav_push returns at once     *)
(* when that is the url the window already waits for.                      *)
Cache_redirect(S, u, w, starts) ==
  LET e == S.entry[u]
      loop == e.RedirectLoop \/ S.level[w] >= MaxRedirects
  IN IF loop THEN [S EXCEPT !.entry[u].RedirectLoop = TRUE, !.level[w] = 0]
     ELSE IF e.Location = u THEN S
     ELSE a_Capi_open_url(S, w, e.Location, e.kind = "temp_redirect", starts)

(* redirect_level counts the redirects in a row; it is only compared with  *)
(* MaxRedirects, and cut there.                                            *)
NewLevel(S, u) ==
  LET e == S.entry[u]
      fresh == {w \in Windows : \E i \in Of(S, u) :
                  S.queue[i].key = w /\ ~S.queue[i].Callback}
  IN [w \in Windows |->
        IF w \notin Keys(Roots(S, u)) THEN S.level[w]
        ELSE IF ~IsRedirect(e.kind) THEN 0
        ELSE IF w \in fresh /\ S.level[w] < MaxRedirects THEN S.level[w] + 1
        ELSE S.level[w]]

(* Every client is given the data there is; when the entry is complete it  *)
(* is closed, dequeued, and a root client follows the redirection.         *)
Serve(S, u, starts) ==
  LET e == S.entry[u]
      Fed == [S EXCEPT
                !.level = NewLevel(S, u),
                !.queue = [i \in 1 .. Len(@) |->
                  IF @[i].Url = u
                  THEN [@[i] EXCEPT !.Callback = TRUE, !.BufSize = e.size]
                  ELSE @[i]]]
      Closed == Dequeue(Fed, Waiting(Fed, u))
  IN IF e.InProgress THEN Fed
     ELSE IF ~IsRedirect(e.kind) THEN Closed
     ELSE FoldLeft(LAMBDA T, q : Cache_redirect(T, u, q.key, starts),
                   Closed, Roots(S, u))

NewClients(S, u) == {S.queue[i].key : i \in {j \in Of(S, u) : ~S.queue[j].Callback}}

\* The content type is known already, or this call determines it.
TypeKnown(S, u, detect) ==
  LET e == S.entry[u] IN
    e.GotHeader /\ (e.GotContentType \/ detect \/ ~e.InProgress)

(* AbortEntry: a client that has no callback yet meets a type mismatch, or *)
(* a root client meets a document that is only offered for download.  A    *)
(* mismatch is seen only by the call that determines the type.             *)
AbortEntry(S, u, detect) ==
  LET e == S.entry[u] IN
    /\ TypeKnown(S, u, detect)
    /\ \/ /\ e.kind = "mismatch" /\ ~e.GotContentType
          /\ NewClients(S, u) # {}
       \/ /\ e.kind = "attachment"
          /\ NewClients(S, u) \cap Windows # {}

\* Mutant: the entry is removed and its connection goes on.
Abandon_no_abort(S, u) == Cache_entry_remove(S, u)

(* New clients are dequeued, the connection is aborted, and the entry is   *)
(* removed when a download is offered.                                     *)
Abandon(S, u) ==
  LET D == Dequeue([S EXCEPT !.level = NewLevel(S, u)],
                   {q \in Waiting(S, u) : ~q.Callback})
      A == a_Capi_conn_abort_by_url(D, u)
  IN IF Roots(S, u) # <<>> THEN Cache_entry_remove(A, u) ELSE A

Cache_process_queue(S, u, detect, starts) ==
  LET T == [S EXCEPT !.entry[u].GotContentType = TRUE]
  IN IF ~TypeKnown(S, u, detect) THEN S
     ELSE IF AbortEntry(S, u, detect) THEN Abandon(T, u)
     ELSE Serve(T, u, starts)

Cache_ref_data(S, u)   == [S EXCEPT !.entry[u].DataRefcount = @ + 1]
Cache_unref_data(S, u) == [S EXCEPT !.entry[u].DataRefcount = @ - 1]

\* Mutant: clears the flag without serving the queue.
Cache_finish_msg_unserved(S, u, starts) ==
  IF ~S.entry[u].InProgress THEN S
  ELSE LET T == [S EXCEPT !.entry[u].InProgress = FALSE]
       IN IF T.entry[u].GotHeader THEN Cache_unref_data(T, u) ELSE T

\* Mutant: unreferences the data whether the header was parsed or not.
Cache_finish_msg_unref(S, u, starts) ==
  IF ~S.entry[u].InProgress THEN S
  ELSE LET T == [S EXCEPT !.entry[u].InProgress = FALSE]
           P == Cache_process_queue(T, u, TRUE, starts)
       IN IF AbortEntry(T, u, TRUE) THEN P ELSE Cache_unref_data(P, u)

(* The reference taken by Cache_parse_header is given back, unless         *)
(* Cache_process_queue returned NULL.                                      *)
Cache_finish_msg(S, u, starts) ==
  IF ~S.entry[u].InProgress THEN S
  ELSE LET T == [S EXCEPT !.entry[u].InProgress = FALSE]
           P == Cache_process_queue(T, u, TRUE, starts)
       IN IF AbortEntry(T, u, TRUE) \/ ~P.entry[u].GotHeader THEN P
          ELSE Cache_unref_data(P, u)

(***************************************************************************)
(* a_Cache_process_dbuf.                                                   *)
(***************************************************************************)
IOClose(S, u, starts) ==
  IF S.entry[u] = NoEntry THEN S ELSE Cache_finish_msg(S, u, starts)

IOAbort(S, u, starts) ==
  IF S.entry[u] = NoEntry THEN S
  ELSE IF S.entry[u].size > 0 THEN Cache_finish_msg(S, u, starts)
  ELSE Dequeue(S, Waiting(S, u))

\* Cache_get_header finds the end of the header and Cache_parse_header runs.
Cache_parse_header(S, u, kind, loc) ==
  IF S.entry[u].GotHeader THEN S
  ELSE Cache_ref_data([S EXCEPT !.entry[u].GotHeader = TRUE,
                                !.entry[u].kind = kind,
                                !.entry[u].Location = loc], u)

(* Data arrive, the last of them when "done" (keep-alive only).            *)
IORead(S, u, hdr, more, detect, done, starts) ==
  LET H == Cache_parse_header(S, u, hdr.kind, hdr.Location)
      D == [H EXCEPT !.entry[u].size = @ + more]
      P == Cache_process_queue(D, u, detect, starts)
  IN IF done /\ ~AbortEntry(D, u, detect) THEN Cache_finish_msg(P, u, starts)
     ELSE P

\* Mutant: the sending branch is not ended.
EndConn_half(S, u) == S

EndConn(S, u) == [S EXCEPT !.conn[u] = "none"]
Closing(S, u) == [S EXCEPT !.conn[u] = "closing"]

(***************************************************************************)
(* The handlers.                                                           *)
(***************************************************************************)
(* A window or a page asks for a url. *)
Open(c, u, e2e, starts) ==
  /\ at = "loop" /\ c \notin Keys(ClientQueue) /\ Len(ClientQueue) < MaxClients
  /\ Become(a_Capi_open_url(State, c, u, e2e, starts))
  /\ UNCHANGED at

(* a_Capi_stop_client: the last client of an entry takes the connection    *)
(* along when forced or when it got no data.                               *)
Stop(c, force) ==
  /\ at = "loop"
  /\ \E i \in 1 .. Len(ClientQueue) :
       LET q == ClientQueue[i]
           unique == Of(State, q.Url) = {i}
           A == IF unique /\ (force \/ q.BufSize = 0)
                THEN a_Capi_conn_abort_by_url(State, q.Url) ELSE State
       IN /\ q.key = c
          /\ unique \/ q.Url \notin ToSet(DelayedQueue) \/ "shared_stop" \in Mishaps
          /\ Become(IF c \in Keys(A.queue)
                    THEN Dequeue(Undelay(A, q.Url),
                                 {r \in ToSet(A.queue) : r.key = c}) ELSE A)
  /\ UNCHANGED at

(* Only a redirection opens a connection, which starts or does not.        *)
Starts(kind) == IF IsRedirect(kind) THEN BOOLEAN ELSE {TRUE}

(* The header of an answer, and what there is to choose of it: all of it   *)
(* until the entry has got one.                                            *)
Headers(u) ==
  LET e == CachedURLs[u] IN
    IF e.GotHeader THEN {[kind |-> e.kind, Location |-> e.Location]}
    ELSE {h \in [kind : Kinds, Location : Urls \cup {NoUrl}] :
            IsRedirect(h.kind) <=> h.Location # NoUrl}

(* a_Capi_ccc 2 FWD OpSend; at the end of the answer "reply_complete" ends *)
(* the connection.                                                         *)
Receive(u) ==
  /\ at = "loop" /\ conn[u] = "open"
  /\ \E hdr \in Headers(u), more \in {0, 1}, detect, done \in BOOLEAN :
     \E starts \in Starts(hdr.kind) :
       /\ CachedURLs[u].size + more <= MaxData
       /\ CachedURLs[u].GotHeader => more = 1 \/ done
       /\ LET R == IORead(State, u, hdr, more, detect, done, starts)
          IN Become(IF done THEN EndConn(R, u) ELSE R)
  /\ UNCHANGED at

(* a_Capi_ccc 2 FWD OpEnd: the server closed. *)
Close(u) ==
  /\ at = "loop" /\ conn[u] = "open"
  /\ CachedURLs[u].GotHeader \/ "empty_reply" \in Mishaps
  /\ \E starts \in Starts(CachedURLs[u].kind) :
       Become(EndConn(IOClose(Closing(State, u), u, starts), u))
  /\ UNCHANGED at

(* a_Capi_ccc 1 FWD OpAbort "Both": no address, no connection, TLS refused *)
(* or a write error.                                                       *)
ConnFails(u) ==
  /\ at = "loop" /\ conn[u] = "open"
  /\ \E starts \in Starts(CachedURLs[u].kind) :
       Become(a_Capi_conn_abort_by_url(IOAbort(State, u, starts), u))
  /\ UNCHANGED at

(* a_Capi_ccc 2 FWD OpAbort: a read error.  The entry is not removed.      *)
ReadError(u) ==
  /\ at = "loop" /\ conn[u] = "open"
  /\ CachedURLs[u].size > 0 \/ "read_error" \in Mishaps
  /\ \E starts \in Starts(CachedURLs[u].kind) :
       Become(EndConn(IOAbort(Closing(State, u), u, starts), u))
  /\ UNCHANGED at

(* Cache_delayed_process_queue_callback, one turn of its loop per step.    *)
DelayedStart == /\ at = "loop" /\ timer
                /\ at' = "delayed"
                /\ UNCHANGED <<CachedURLs, ClientQueue, DelayedQueue, timer,
                               conn, level>>

DelayedTurn ==
  /\ at = "delayed" /\ DelayedQueue # <<>>
  /\ \E starts \in Starts(CachedURLs[Head(DelayedQueue)].kind) :
       LET u == Head(DelayedQueue)
           R == Cache_ref_data(State, u)
           P == Cache_process_queue(R, u, FALSE, starts)
       IN Become(IF AbortEntry(R, u, FALSE) THEN P
                 ELSE Undelay(Cache_unref_data(P, u), u))
  /\ UNCHANGED at

DelayedEnd == /\ at = "delayed" /\ DelayedQueue = <<>>
              /\ at' = "loop" /\ timer' = FALSE
              /\ UNCHANGED <<CachedURLs, ClientQueue, DelayedQueue, conn, level>>

ConnEvent(u) == Receive(u) \/ Close(u) \/ ConnFails(u) \/ ReadError(u)
Delayed      == DelayedStart \/ DelayedTurn \/ DelayedEnd

Next == \/ \E c \in Clients, u \in Urls, e2e, starts \in BOOLEAN : Open(c, u, e2e, starts)
        \/ \E c \in Clients, force \in BOOLEAN : Stop(c, force)
        \/ \E u \in Urls : ConnEvent(u)
        \/ Delayed

Spec == Init /\ [][Next]_vars

(* The main loop serves timeouts and ready descriptors, neither starves    *)
(* the other, and a connection gets on and ends, as the request it stands  *)
(* for does in Http.tla: it is not open for ever without a change.  (This  *)
(* follows from SF_vars(ConnEvent(u)), and costs TLC far less.)            *)
Moves(u) == CachedURLs'[u] # CachedURLs[u] \/ conn'[u] # conn[u]
FairSpec == /\ Spec /\ WF_vars(Delayed)
            /\ \A u \in Urls : []<>(conn[u] # "open") \/ []<><<Moves(u)>>_vars
-----------------------------------------------------------------------------
(***************************************************************************)
(* Properties.                                                             *)
(***************************************************************************)
Cached(u)  == CachedURLs[u] # NoEntry
Clients_(u) == {ClientQueue[i] : i \in Of(State, u)}

(* Type invariant: every cache and connection variable has its C type.     *)
TypeOK ==
  /\ CachedURLs \in [Urls -> Entries \cup {NoEntry}]
  /\ ClientQueue \in Seq(Queued)
  /\ DelayedQueue \in Seq(Urls)
  /\ timer \in BOOLEAN /\ at \in {"loop", "delayed"}
  /\ conn \in [Urls -> {"none", "open"}]
  /\ level \in [Windows -> 0 .. MaxRedirects]

(* Client->Url is a pointer into the entry: an entry leaves the cache only *)
(* with all its clients, and is processed later only if still there.       *)
NothingDangles ==
  /\ \A i \in 1 .. Len(ClientQueue) : Cached(ClientQueue[i].Url)
  /\ \A i \in 1 .. Len(DelayedQueue) : Cached(DelayedQueue[i])

(* What a connection delivers goes to the entry that waits for it: data    *)
(* are looked up by url, so a stale connection would append to (or be      *)
(* parsed as the header of) an entry that is not its own.                  *)
ConnFeedsItsEntry ==
  \A u \in Urls : conn[u] = "open" => Cached(u) /\ CachedURLs[u].InProgress

(* DelayedQueue is processed: its timeout is set, or its callback runs.    *)
DelayedIsScheduled == DelayedQueue # <<>> => timer

(* DataRefcount: the decoded data are held while they still grow, and no   *)
(* reference is given back twice.                                          *)
DataHeld ==
  \A u \in Urls : Cached(u) =>
    LET e == CachedURLs[u] IN
      /\ e.DataRefcount >= 0
      /\ e.InProgress => e.DataRefcount = IF e.GotHeader THEN 1 ELSE 0

(* The queues hold nothing that is gone, and the delayed one is processed. *)
QueuesSound == NothingDangles /\ DelayedIsScheduled

(* A client whose entry is still in progress has a connection to wait for. *)
InProgressIsFed ==
  \A u \in Urls : Clients_(u) # {} /\ CachedURLs[u].InProgress => conn[u] = "open"

(* A client of a complete entry will be served by the delayed callback,    *)
(* nothing else would do it.                                               *)
CompleteIsServed ==
  \A u \in Urls : Clients_(u) # {} /\ ~CachedURLs[u].InProgress =>
    u \in ToSet(DelayedQueue)

(* Every client has something to wait for: a connection that feeds its     *)
(* entry, or the delayed callback.                                         *)
ClientsFed == InProgressIsFed /\ CompleteIsServed

(* "We finished sending data, let the client know": a client leaves the    *)
(* queue, also when its page redirects in circles.                         *)
EveryClientServed ==
  \A c \in Clients : c \in Keys(ClientQueue) ~> c \notin Keys(ClientQueue)
=============================================================================
