---------------------------- MODULE CacheProofs ----------------------------
(***************************************************************************)
(* Proofs about the memory cache: the queues hold nothing that is gone, a  *)
(* connection feeds the entry that waits for it and the data of an entry   *)
(* are held while they grow, whatever mishaps are let in; that every       *)
(* client has something to wait for is proved without them, since each of  *)
(* them refutes it.                                                        *)
(*                                                                         *)
(* One lemma for each operator on states; what the recursive definitions   *)
(* of the lists compute is in ListProofs.                                  *)
(***************************************************************************)
EXTENDS Cache, ListProofs

(* The state inside a handler, where the connection that is being ended is *)
(* "closing".                                                              *)
ConnStates == {"none", "open", "closing"}
CState == [entry : [Urls -> Entries \cup {NoEntry}], queue : Seq(Queued),
           delayed : Seq(Urls), timer : BOOLEAN,
           conn : [Urls -> ConnStates],
           level : [Windows -> 0 .. MaxRedirects]]

(* A redirection has a target, and nothing else has one.                   *)
Targeted(e) == e.GotHeader => (IsRedirect(e.kind) <=> e.Location # NoUrl)

(* One reference is held from the header to the end of the data; the type  *)
(* of a complete answer is known, so that no mismatch is found any more.   *)
Counted(e) ==
  /\ e.DataRefcount \in 0 .. 1
  /\ e.InProgress => e.DataRefcount = IF e.GotHeader THEN 1 ELSE 0
  /\ ~e.InProgress /\ e.GotHeader => e.GotContentType

Paired(e, k) ==
  /\ k # "closing"
  /\ k = "open" => e # NoEntry /\ e.InProgress
  /\ e # NoEntry => Counted(e)

(* The invariant, as a predicate of states; the urls in X, whose answer is *)
(* being handled, need not be paired.                                      *)
Sound(S, X) ==
  /\ S \in CState
  /\ \A q \in ToSet(S.queue) : S.entry[q.Url] # NoEntry
  /\ \A v \in ToSet(S.delayed) : S.entry[v] # NoEntry
  /\ ToSet(S.delayed) # {} => S.timer
  /\ \A v \in Urls : S.entry[v] # NoEntry => Targeted(S.entry[v])
  /\ \A v \in Urls \ X : Paired(S.entry[v], S.conn[v])

(* Without mishaps: what is in progress has a connection, what is complete *)
(* has a header, a client that was fed knows the type, and the clients of  *)
(* a complete entry are those the delayed callback will serve.             *)
Fed(S, X) ==
  /\ \A v \in Urls : S.entry[v] # NoEntry =>
       S.entry[v].GotHeader \/ S.entry[v].size = 0
  /\ \A v \in Urls \ X : S.entry[v] # NoEntry =>
       IF S.entry[v].InProgress THEN S.conn[v] = "open" ELSE S.entry[v].GotHeader
  /\ \A q \in ToSet(S.queue) : q.Callback => S.entry[q.Url].GotContentType
  /\ \A q \in ToSet(S.queue) : q.Url \notin X /\ ~S.entry[q.Url].InProgress =>
       q.Url \in ToSet(S.delayed)

\* The fields of a state, one by one.
LEMMA Fields ==
  ASSUME NEW S \in CState
  PROVE  /\ S.entry \in [Urls -> Entries \cup {NoEntry}]
         /\ S.queue \in Seq(Queued) /\ S.delayed \in Seq(Urls)
         /\ S.timer \in BOOLEAN
         /\ S.conn \in [Urls -> ConnStates]
         /\ S.level \in [Windows -> 0 .. MaxRedirects]
         /\ \A q \in ToSet(S.queue) : q \in Queued /\ q.Url \in Urls
         /\ \A v \in ToSet(S.delayed) : v \in Urls
<1>1. /\ S.entry \in [Urls -> Entries \cup {NoEntry}]
      /\ S.queue \in Seq(Queued) /\ S.delayed \in Seq(Urls)
      /\ S.timer \in BOOLEAN
      /\ S.conn \in [Urls -> ConnStates]
      /\ S.level \in [Windows -> 0 .. MaxRedirects]
  BY DEF CState
<1>2. \A q \in ToSet(S.queue) : q \in Queued
  BY <1>1, ToSetIn
<1>3. \A v \in ToSet(S.delayed) : v \in Urls
  BY <1>1, ToSetIn
<1>4. \A q \in Queued : q.Url \in Urls
  BY DEF Queued
<1> QED BY <1>1, <1>2, <1>3, <1>4

\* Clients that leave the queue change nothing else.
LEMMA DequeueFields ==
  ASSUME NEW S \in CState, NEW gone
  PROVE  LET V == Dequeue(S, gone) IN
         /\ V \in CState
         /\ V.entry = S.entry /\ V.delayed = S.delayed /\ V.timer = S.timer
         /\ V.conn = S.conn /\ V.level = S.level
         /\ ToSet(V.queue) = ToSet(S.queue) \ gone
<1> DEFINE k == Keep(S.queue, ToSet(S.queue) \ gone)
           V == [S EXCEPT !.queue = k]
<1>1. V = Dequeue(S, gone)
  BY DEF Dequeue
<1>2. S.queue \in Seq(Queued)
  BY Fields
<1>3. k \in Seq(Queued) /\ ToSet(k) = ToSet(S.queue) \cap (ToSet(S.queue) \ gone)
  BY <1>2, KeepProperties
<1> HIDE DEF k
<1>4. V \in CState /\ V.queue = k
  BY <1>3 DEF CState
<1>5. /\ V.entry = S.entry /\ V.delayed = S.delayed /\ V.timer = S.timer
      /\ V.conn = S.conn /\ V.level = S.level
  BY DEF CState
<1> HIDE DEF V
<1> QED BY <1>1, <1>3, <1>4, <1>5

\* A url that leaves the delayed queue changes nothing else.
LEMMA UndelayFields ==
  ASSUME NEW S \in CState, NEW u \in Urls
  PROVE  LET V == Undelay(S, u) IN
         /\ V \in CState
         /\ V.entry = S.entry /\ V.queue = S.queue /\ V.timer = S.timer
         /\ V.conn = S.conn /\ V.level = S.level
         /\ ToSet(V.delayed) = ToSet(S.delayed) \ {u}
<1> DEFINE k == Keep(S.delayed, Urls \ {u})
           V == [S EXCEPT !.delayed = k]
<1>1. V = Undelay(S, u)
  BY DEF Undelay
<1>2. S.delayed \in Seq(Urls) /\ ToSet(S.delayed) \subseteq Urls
  BY Fields
<1>3. k \in Seq(Urls) /\ ToSet(k) = ToSet(S.delayed) \cap (Urls \ {u})
  BY <1>2, KeepProperties
<1> HIDE DEF k
<1>4. V \in CState /\ V.delayed = k
  BY <1>3 DEF CState
<1>5. /\ V.entry = S.entry /\ V.queue = S.queue /\ V.timer = S.timer
      /\ V.conn = S.conn /\ V.level = S.level
  BY DEF CState
<1> HIDE DEF V
<1> QED BY <1>1, <1>2, <1>3, <1>4, <1>5

\* A client joins the queue without having been called.
LEMMA EnqueueFields ==
  ASSUME NEW S \in CState, NEW c \in Clients, NEW u \in Urls
  PROVE  LET V == Cache_client_enqueue(S, c, u) IN
         /\ V \in CState
         /\ V.entry = S.entry /\ V.delayed = S.delayed /\ V.timer = S.timer
         /\ V.conn = S.conn /\ V.level = S.level
         /\ \E q \in Queued : /\ ToSet(V.queue) = ToSet(S.queue) \cup {q}
                              /\ q.key = c /\ q.Url = u /\ ~q.Callback
<1> DEFINE q == [key |-> c, Url |-> u, Callback |-> FALSE, BufSize |-> 0]
           k == Append(S.queue, q)
           V == [S EXCEPT !.queue = k]
<1>1. V = Cache_client_enqueue(S, c, u)
  BY DEF Cache_client_enqueue
<1>2. S.queue \in Seq(Queued)
  BY Fields
<1>3. q \in Queued /\ q.key = c /\ q.Url = u /\ ~q.Callback
  BY BoundAssumption DEF Queued
<1> HIDE DEF q
<1>4. k \in Seq(Queued) /\ ToSet(k) = ToSet(S.queue) \cup {q}
  BY <1>2, <1>3, AppendSet
<1> HIDE DEF k
<1>5. V \in CState /\ V.queue = k
  BY <1>4 DEF CState
<1>6. /\ V.entry = S.entry /\ V.delayed = S.delayed /\ V.timer = S.timer
      /\ V.conn = S.conn /\ V.level = S.level
  BY DEF CState
<1> HIDE DEF V
<1> QED BY <1>1, <1>3, <1>4, <1>5, <1>6

\* A url joins the delayed queue, and its timeout is set.
LEMMA DelayFields ==
  ASSUME NEW S \in CState, NEW u \in Urls
  PROVE  LET V == Cache_delayed_process_queue(S, u) IN
         /\ V \in CState
         /\ V.entry = S.entry /\ V.queue = S.queue /\ V.timer
         /\ V.conn = S.conn /\ V.level = S.level
         /\ ToSet(V.delayed) = ToSet(S.delayed) \cup {u}
<1> DEFINE k == IF u \in ToSet(S.delayed) THEN S.delayed ELSE Append(S.delayed, u)
           V == [S EXCEPT !.delayed = k, !.timer = TRUE]
<1>1. V = Cache_delayed_process_queue(S, u)
  BY DEF Cache_delayed_process_queue
<1>2. S.delayed \in Seq(Urls)
  BY Fields
<1>3. k \in Seq(Urls) /\ ToSet(k) = ToSet(S.delayed) \cup {u}
  BY <1>2, AppendSet
<1> HIDE DEF k
<1>4. V \in CState /\ V.delayed = k /\ V.timer
  BY <1>3 DEF CState
<1>5. /\ V.entry = S.entry /\ V.queue = S.queue
      /\ V.conn = S.conn /\ V.level = S.level
  BY DEF CState
<1> HIDE DEF V
<1> QED BY <1>1, <1>3, <1>4, <1>5

\* One entry is replaced.
LEMMA EntryFields ==
  ASSUME NEW S \in CState, NEW u \in Urls, NEW e \in Entries \cup {NoEntry}
  PROVE  LET V == [S EXCEPT !.entry[u] = e] IN
         /\ V \in CState
         /\ V.entry = [S.entry EXCEPT ![u] = e]
         /\ V.entry[u] = e /\ \A v \in Urls : v # u => V.entry[v] = S.entry[v]
         /\ V.queue = S.queue /\ V.delayed = S.delayed /\ V.timer = S.timer
         /\ V.conn = S.conn /\ V.level = S.level
<1> DEFINE V == [S EXCEPT !.entry[u] = e]
<1>1. V = [S EXCEPT !.entry = [S.entry EXCEPT ![u] = e]]
  BY DEF CState
<1>2. S.entry \in [Urls -> Entries \cup {NoEntry}]
  BY Fields
<1>3. [S.entry EXCEPT ![u] = e] \in [Urls -> Entries \cup {NoEntry}]
  BY <1>2
<1>4. V \in CState /\ V.entry = [S.entry EXCEPT ![u] = e]
  BY <1>1, <1>3 DEF CState
<1>5. /\ V.queue = S.queue /\ V.delayed = S.delayed /\ V.timer = S.timer
      /\ V.conn = S.conn /\ V.level = S.level
  BY <1>1 DEF CState
<1> HIDE DEF V
<1>6. V.entry[u] = e /\ \A v \in Urls : v # u => V.entry[v] = S.entry[v]
  BY <1>2, <1>4
<1> QED BY <1>4, <1>5, <1>6 DEF V

\* The states of a connection, named so that no literal is matched.
LEMMA Conns == "none" \in ConnStates /\ "open" \in ConnStates /\ "closing" \in ConnStates
BY DEF ConnStates

\* One connection is replaced.
LEMMA ConnFields ==
  ASSUME NEW S \in CState, NEW u \in Urls, NEW k \in ConnStates
  PROVE  LET V == [S EXCEPT !.conn[u] = k] IN
         /\ V \in CState
         /\ V.conn[u] = k /\ \A v \in Urls : v # u => V.conn[v] = S.conn[v]
         /\ V.entry = S.entry /\ V.queue = S.queue /\ V.delayed = S.delayed
         /\ V.timer = S.timer /\ V.level = S.level
<1> DEFINE V == [S EXCEPT !.conn[u] = k]
<1>1. V = [S EXCEPT !.conn = [S.conn EXCEPT ![u] = k]]
  BY DEF CState
<1>2. S.conn \in [Urls -> ConnStates]
  BY Fields
<1>3. [S.conn EXCEPT ![u] = k] \in [Urls -> ConnStates]
  BY <1>2
<1>4. V \in CState /\ V.conn = [S.conn EXCEPT ![u] = k]
  BY <1>1, <1>3 DEF CState
<1>5. /\ V.entry = S.entry /\ V.queue = S.queue /\ V.delayed = S.delayed
      /\ V.timer = S.timer /\ V.level = S.level
  BY <1>1 DEF CState
<1> HIDE DEF V
<1>6. V.conn[u] = k /\ \A v \in Urls : v # u => V.conn[v] = S.conn[v]
  BY <1>2, <1>4
<1> QED BY <1>4, <1>5, <1>6 DEF V

-----------------------------------------------------------------------------
(***************************************************************************)
(* Entries and connections.                                                *)
(***************************************************************************)
(* What V takes out of S, and nothing else, keeps the invariant: the       *)
(* entry of u with all that stands for it in the queues.                   *)
Without(S, V, u) ==
  /\ V.entry[u] = NoEntry
  /\ \A v \in Urls : v # u => V.entry[v] = S.entry[v] /\ V.conn[v] = S.conn[v]
  /\ ToSet(V.queue) = {q \in ToSet(S.queue) : q.Url # u}
  /\ ToSet(V.delayed) = ToSet(S.delayed) \ {u}
  /\ V.timer = S.timer /\ V.level = S.level

\* A removed entry leaves a sound state.
LEMMA WithoutSound ==
  ASSUME NEW S, NEW X, Sound(S, X), NEW u \in Urls, NEW V \in CState,
         Without(S, V, u), V.conn[u] = "none" \/ u \in X
  PROVE  Sound(V, X) /\ (Fed(S, X) => Fed(V, X))
<1>0. S \in CState /\ \A q \in ToSet(S.queue) : q.Url \in Urls
  BY Fields DEF Sound
<1>1. \A q \in ToSet(V.queue) : q \in ToSet(S.queue) /\ q.Url \in Urls /\ q.Url # u
  BY <1>0 DEF Without
<1>2. \A q \in ToSet(V.queue) : V.entry[q.Url] # NoEntry
  BY <1>1 DEF Without, Sound
<1>3. /\ \A v \in ToSet(V.delayed) : V.entry[v] # NoEntry
      /\ ToSet(V.delayed) # {} => V.timer
  <2>1. \A v \in ToSet(S.delayed) : v \in Urls
    BY <1>0, Fields
  <2> QED BY <2>1 DEF Without, Sound
<1>4. \A v \in Urls : V.entry[v] # NoEntry => Targeted(V.entry[v])
  BY DEF Without, Sound
<1>5. \A v \in Urls \ X : Paired(V.entry[v], V.conn[v])
  <2> TAKE v \in Urls \ X
  <2>1. CASE v = u
    BY <2>1 DEF Without, Paired
  <2>2. CASE v # u
    BY <2>2 DEF Without, Sound
  <2> QED BY <2>1, <2>2
<1>6. Sound(V, X)
  BY <1>2, <1>3, <1>4, <1>5 DEF Sound
<1>7. ASSUME Fed(S, X) PROVE Fed(V, X)
  <2>1. \A v \in Urls : V.entry[v] # NoEntry =>
          V.entry[v] = S.entry[v] /\ V.conn[v] = S.conn[v]
    BY DEF Without
  <2>2. \A q \in ToSet(V.queue) : /\ V.entry[q.Url] = S.entry[q.Url]
                                  /\ q.Url \in ToSet(S.delayed) => q.Url \in ToSet(V.delayed)
    BY <1>1 DEF Without
  <2>3. /\ \A v \in Urls : V.entry[v] # NoEntry =>
             V.entry[v].GotHeader \/ V.entry[v].size = 0
        /\ \A v \in Urls \ X : V.entry[v] # NoEntry =>
             IF V.entry[v].InProgress THEN V.conn[v] = "open" ELSE V.entry[v].GotHeader
    BY <2>1, <1>7 DEF Fed
  <2>4. \A q \in ToSet(V.queue) : q.Callback => V.entry[q.Url].GotContentType
    BY <2>2, <1>1, <1>7 DEF Fed
  <2>5. \A q \in ToSet(V.queue) : q.Url \notin X /\ ~V.entry[q.Url].InProgress =>
          q.Url \in ToSet(V.delayed)
    BY <2>2, <1>1, <1>7 DEF Fed
  <2> QED BY <2>3, <2>4, <2>5 DEF Fed
<1> QED BY <1>6, <1>7

\* What Cache_entry_remove leaves.
LEMMA RemoveFields ==
  ASSUME NEW S, NEW X, Sound(S, X), NEW u \in Urls
  PROVE  LET V == Cache_entry_remove(S, u) IN
         V \in CState /\ Without(S, V, u) /\ V.conn = S.conn
<1>0. S \in CState
  BY DEF Sound
<1>1. CASE S.entry[u] = NoEntry
  <2>1. Cache_entry_remove(S, u) = S
    BY <1>1 DEF Cache_entry_remove
  <2>2. Without(S, S, u)
    BY <1>1 DEF Without, Sound
  <2> QED BY <1>0, <2>1, <2>2
<1>2. CASE S.entry[u] # NoEntry
  <2> DEFINE D == Dequeue(S, Waiting(S, u))
             U == Undelay(D, u)
             V == [U EXCEPT !.entry[u] = NoEntry]
  <2>1. Cache_entry_remove(S, u) = V
    BY <1>2 DEF Cache_entry_remove
  <2>2. /\ D \in CState
        /\ D.entry = S.entry /\ D.delayed = S.delayed /\ D.timer = S.timer
        /\ D.conn = S.conn /\ D.level = S.level
        /\ ToSet(D.queue) = ToSet(S.queue) \ Waiting(S, u)
    BY <1>0, DequeueFields
  <2> HIDE DEF D
  <2>3. /\ U \in CState
        /\ U.entry = D.entry /\ U.queue = D.queue /\ U.timer = D.timer
        /\ U.conn = D.conn /\ U.level = D.level
        /\ ToSet(U.delayed) = ToSet(D.delayed) \ {u}
    BY <2>2, UndelayFields
  <2> HIDE DEF U
  <2>4. /\ V \in CState
        /\ V.entry[u] = NoEntry /\ \A v \in Urls : v # u => V.entry[v] = U.entry[v]
        /\ V.queue = U.queue /\ V.delayed = U.delayed /\ V.timer = U.timer
        /\ V.conn = U.conn /\ V.level = U.level
    BY <2>3, EntryFields
  <2> HIDE DEF V
  <2>5. ToSet(S.queue) \ Waiting(S, u) = {q \in ToSet(S.queue) : q.Url # u}
    BY DEF Waiting
  <2>6. Without(S, V, u) /\ V.conn = S.conn
    BY <2>2, <2>3, <2>4, <2>5 DEF Without
  <2> QED BY <2>1, <2>4, <2>6
<1> QED BY <1>1, <1>2

\* Cache_entry_remove keeps the state sound.
LEMMA RemoveSound ==
  ASSUME NEW S, NEW X, Sound(S, X), NEW u \in Urls, S.conn[u] = "none" \/ u \in X
  PROVE  LET V == Cache_entry_remove(S, u) IN
         Sound(V, X) /\ (Fed(S, X) => Fed(V, X))
<1> DEFINE V == Cache_entry_remove(S, u)
<1>1. V \in CState /\ Without(S, V, u) /\ V.conn = S.conn
  BY RemoveFields
<1> HIDE DEF V
<1>2. V.conn[u] = "none" \/ u \in X
  BY <1>1
<1>3. Sound(V, X) /\ (Fed(S, X) => Fed(V, X))
  BY <1>1, <1>2, WithoutSound
<1> QED BY <1>3 DEF V

\* a_Capi_conn_abort_by_url keeps the state sound.
LEMMA AbortSound ==
  ASSUME NEW S, NEW X, Sound(S, X), NEW u \in Urls
  PROVE  LET V == a_Capi_conn_abort_by_url(S, u) IN
         /\ Sound(V, X) /\ (Fed(S, X) => Fed(V, X))
         /\ IF S.conn[u] = "open" THEN Without(S, V, u) /\ V.conn[u] = "none" ELSE V = S
<1> DEFINE V == a_Capi_conn_abort_by_url(S, u)
<1>1. CASE S.conn[u] = "open"
  <2> DEFINE R == Cache_entry_remove(S, u)
  <2>1. V = [R EXCEPT !.conn[u] = "none"]
    BY <1>1 DEF a_Capi_conn_abort_by_url
  <2>2. R \in CState /\ Without(S, R, u) /\ R.conn = S.conn
    BY RemoveFields
  <2> HIDE DEF R
  <2>3. /\ V \in CState
        /\ V.conn[u] = "none" /\ \A v \in Urls : v # u => V.conn[v] = R.conn[v]
        /\ V.entry = R.entry /\ V.queue = R.queue /\ V.delayed = R.delayed
        /\ V.timer = R.timer /\ V.level = R.level
    BY <2>1, <2>2, Conns, ConnFields
  <2> HIDE DEF V
  <2>4. Without(S, V, u)
    BY <2>2, <2>3 DEF Without
  <2>5. Sound(V, X) /\ (Fed(S, X) => Fed(V, X))
    BY <2>3, <2>4, WithoutSound
  <2> QED BY <1>1, <2>3, <2>4, <2>5 DEF V
<1>2. CASE S.conn[u] # "open"
  <2>1. V = S
    BY <1>2 DEF a_Capi_conn_abort_by_url
  <2> QED BY <1>2, <2>1
<1> QED BY <1>1, <1>2

\* A new entry is of the right type, counted and targeted.
LEMMA FreshEntry ==
  /\ Fresh \in Entries /\ Fresh # NoEntry
  /\ Fresh.InProgress /\ ~Fresh.GotHeader /\ Fresh.size = 0
  /\ Targeted(Fresh) /\ Paired(Fresh, "open")
<1>1. Fresh \in Entries
  BY BoundAssumption, KindAssumption DEF Fresh, Entries
<1>2. /\ Fresh.InProgress /\ ~Fresh.GotHeader /\ Fresh.size = 0
      /\ Fresh.DataRefcount = 0
  BY DEF Fresh
<1>3. Fresh # NoEntry
  BY <1>1, NullAssumption
<1> HIDE DEF Fresh
<1>4. Targeted(Fresh) /\ Counted(Fresh)
  BY <1>2 DEF Targeted, Counted
<1> QED BY <1>1, <1>2, <1>3, <1>4 DEF Paired

(* The connection of a url whose answer is being handled.                  *)
LEMMA ConnSound ==
  ASSUME NEW S, NEW X, Sound(S, X), NEW u \in Urls, NEW k \in ConnStates
  PROVE  LET V == [S EXCEPT !.conn[u] = k] IN
         Sound(V, X \cup {u}) /\ (Fed(S, X) => Fed(V, X \cup {u}))
<1> DEFINE V == [S EXCEPT !.conn[u] = k]
<1>1. S \in CState
  BY DEF Sound
<1>2. /\ V \in CState
      /\ V.conn[u] = k /\ \A v \in Urls : v # u => V.conn[v] = S.conn[v]
      /\ V.entry = S.entry /\ V.queue = S.queue /\ V.delayed = S.delayed
      /\ V.timer = S.timer /\ V.level = S.level
  BY <1>1, ConnFields
<1> HIDE DEF V
<1>3. \A v \in Urls \ (X \cup {u}) : v \in Urls \ X /\ V.conn[v] = S.conn[v]
  BY <1>2
<1>4. Sound(V, X \cup {u})
  BY <1>2, <1>3 DEF Sound
<1>5. ASSUME Fed(S, X) PROVE Fed(V, X \cup {u})
  BY <1>2, <1>3, <1>5 DEF Fed
<1> QED BY <1>4, <1>5 DEF V

(* A client of an entry that is there has the delayed callback to wait for *)
LEMMA CachedClient ==
  ASSUME NEW S, NEW X, Sound(S, X), NEW u \in Urls, S.entry[u] # NoEntry,
         NEW V \in CState, NEW q \in Queued, q.Url = u, ~q.Callback,
         V.entry = S.entry, V.conn = S.conn, V.timer,
         ToSet(V.queue) = ToSet(S.queue) \cup {q},
         ToSet(V.delayed) = ToSet(S.delayed) \cup {u}
  PROVE  Sound(V, X) /\ (Fed(S, X) => Fed(V, X))
<1>1. Sound(V, X)
  BY DEF Sound
<1>2. ASSUME Fed(S, X) PROVE Fed(V, X)
  <2>1. \A r \in ToSet(V.queue) : r.Callback => V.entry[r.Url].GotContentType
    BY <1>2 DEF Fed
  <2>2. \A r \in ToSet(V.queue) : r.Url \notin X /\ ~V.entry[r.Url].InProgress =>
          r.Url \in ToSet(V.delayed)
    BY <1>2 DEF Fed
  <2> QED BY <1>2, <2>1, <2>2 DEF Fed
<1> QED BY <1>1, <1>2

(* The client of a new entry has the connection that was just opened.      *)
LEMMA FreshClient ==
  ASSUME NEW S, NEW X, NEW Y, NEW u \in Urls, Y = X \cup {u}, Sound(S, Y),
         S.entry[u] = NoEntry, S.conn[u] = "open",
         NEW V \in CState, NEW q \in Queued, q.Url = u, ~q.Callback,
         V.entry[u] = Fresh, \A v \in Urls : v # u => V.entry[v] = S.entry[v],
         V.conn = S.conn, V.timer = S.timer, V.delayed = S.delayed,
         ToSet(V.queue) = ToSet(S.queue) \cup {q}
  PROVE  Sound(V, X) /\ (Fed(S, Y) => Fed(V, X))
<1>0. S \in CState /\ \A r \in ToSet(S.queue) : r.Url \in Urls /\ r.Url # u
  BY Fields DEF Sound
<1>1. \A v \in ToSet(S.delayed) : v \in Urls /\ v # u
  BY <1>0, Fields DEF Sound
<1>2. \A r \in ToSet(V.queue) : r = q \/ (r \in ToSet(S.queue) /\ r.Url \in Urls /\ r.Url # u)
  BY <1>0
<1>3. \A r \in ToSet(V.queue) : V.entry[r.Url] # NoEntry
  BY <1>2, FreshEntry DEF Sound
<1>4. /\ \A v \in ToSet(V.delayed) : V.entry[v] # NoEntry
      /\ ToSet(V.delayed) # {} => V.timer
  BY <1>1 DEF Sound
<1>5. \A v \in Urls : V.entry[v] # NoEntry => Targeted(V.entry[v])
  BY FreshEntry DEF Sound
<1>6. \A v \in Urls \ X : Paired(V.entry[v], V.conn[v])
  BY FreshEntry DEF Sound
<1>7. Sound(V, X)
  BY <1>3, <1>4, <1>5, <1>6 DEF Sound
<1>8. ASSUME Fed(S, Y) PROVE Fed(V, X)
  <2>1. \A v \in Urls : V.entry[v] # NoEntry =>
          V.entry[v].GotHeader \/ V.entry[v].size = 0
    BY <1>8, FreshEntry DEF Fed
  <2>2. \A v \in Urls \ X : V.entry[v] # NoEntry =>
          IF V.entry[v].InProgress THEN V.conn[v] = "open" ELSE V.entry[v].GotHeader
    <3> TAKE v \in Urls \ X
    <3>1. CASE v = u
      BY <3>1, FreshEntry
    <3>2. CASE v # u
      BY <3>2, <1>8 DEF Fed
    <3> QED BY <3>1, <3>2
  <2>3. \A r \in ToSet(V.queue) : r.Callback => V.entry[r.Url].GotContentType
    BY <1>2, <1>8 DEF Fed
  <2>4. \A r \in ToSet(V.queue) : r.Url \notin X /\ ~V.entry[r.Url].InProgress =>
          r.Url \in ToSet(V.delayed)
    <3> TAKE r \in ToSet(V.queue)
    <3>1. CASE r = q
      BY <3>1, FreshEntry
    <3>2. CASE r # q
      BY <3>2, <1>2, <1>8 DEF Fed
    <3> QED BY <3>1, <3>2
  <2> QED BY <2>1, <2>2, <2>3, <2>4 DEF Fed
<1> QED BY <1>7, <1>8

(* What V changes of S is about u only.                                    *)
Only(S, V, u) ==
  /\ \A v \in Urls : v # u => V.entry[v] = S.entry[v] /\ V.conn[v] = S.conn[v]
  /\ \A q \in ToSet(V.queue) : q.Url # u => q \in ToSet(S.queue)
  /\ \A v \in Urls : v # u => (v \in ToSet(V.delayed) <=> v \in ToSet(S.delayed))
  /\ V.level = S.level

\* a_Capi_open_url keeps the state sound and changes no other entry.
LEMMA OpenSound ==
  ASSUME NEW S, NEW X, Sound(S, X), NEW u \in Urls, u \notin X, NEW c \in Clients,
         NEW e2e \in BOOLEAN, NEW starts \in BOOLEAN
  PROVE  LET V == a_Capi_open_url(S, c, u, e2e, starts) IN
         Sound(V, X) /\ (Fed(S, X) => Fed(V, X)) /\ Only(S, V, u)
<1> DEFINE V == a_Capi_open_url(S, c, u, e2e, starts)
           A == a_Capi_conn_abort_by_url(S, u)
<1>0. S \in CState
  BY DEF Sound
<1>1. /\ Sound(A, X) /\ (Fed(S, X) => Fed(A, X))
      /\ IF S.conn[u] = "open" THEN Without(S, A, u) /\ A.conn[u] = "none" ELSE A = S
  BY AbortSound
<1>2. A.conn[u] = "none"
  <2>1. S.conn[u] # "closing" /\ S.conn[u] \in ConnStates
    BY <1>0, Fields DEF Sound, Paired
  <2> QED BY <1>1, <2>1 DEF ConnStates
<1>3. S.entry[u] = NoEntry => A.entry[u] = NoEntry
  BY <1>1 DEF Without
<1>4. Only(S, A, u)
  BY <1>1 DEF Without, Only
<1>5. CASE ~e2e /\ S.entry[u] # NoEntry
  <2> DEFINE Q == Cache_client_enqueue(S, c, u)
             D == Cache_delayed_process_queue(Q, u)
  <2>1. V = D
    BY <1>5 DEF a_Capi_open_url, a_Cache_open_url
  <2>2. /\ Q \in CState
        /\ Q.entry = S.entry /\ Q.delayed = S.delayed /\ Q.timer = S.timer
        /\ Q.conn = S.conn /\ Q.level = S.level
        /\ \E q \in Queued : /\ ToSet(Q.queue) = ToSet(S.queue) \cup {q}
                             /\ q.key = c /\ q.Url = u /\ ~q.Callback
    BY <1>0, EnqueueFields, ZenonT(60)
  <2> HIDE DEF Q
  <2>3. /\ D \in CState
        /\ D.entry = Q.entry /\ D.queue = Q.queue /\ D.timer
        /\ D.conn = Q.conn /\ D.level = Q.level
        /\ ToSet(D.delayed) = ToSet(Q.delayed) \cup {u}
    BY <2>2, DelayFields
  <2> HIDE DEF D, V
  <2>4. PICK q \in Queued : /\ ToSet(Q.queue) = ToSet(S.queue) \cup {q}
                            /\ q.key = c /\ q.Url = u /\ ~q.Callback
    BY <2>2
  <2>5. Sound(D, X) /\ (Fed(S, X) => Fed(D, X))
    BY <1>5, <2>2, <2>3, <2>4, CachedClient
  <2>6. Only(S, D, u)
    BY <2>2, <2>3, <2>4 DEF Only
  <2> QED BY <2>1, <2>5, <2>6 DEF V
<1>6. CASE ~(~e2e /\ S.entry[u] # NoEntry) /\ starts
  <2> DEFINE C == [A EXCEPT !.conn[u] = "open"]
             R == IF e2e THEN Cache_entry_remove(C, u) ELSE C
             Q == Cache_client_enqueue(R, c, u)
             F == [Q EXCEPT !.entry[u] = Fresh]
  <2>1. V = a_Cache_open_url(C, c, u, e2e)
    BY <1>6 DEF a_Capi_open_url
  <2>2. A \in CState
    BY <1>1 DEF Sound
  <2>3. /\ C \in CState
        /\ C.conn[u] = "open" /\ \A v \in Urls : v # u => C.conn[v] = A.conn[v]
        /\ C.entry = A.entry /\ C.queue = A.queue /\ C.delayed = A.delayed
        /\ C.timer = A.timer /\ C.level = A.level
    <3> HIDE DEF A
    <3>1. "open" \in ConnStates
      BY Conns
    <3> QED BY <2>2, <3>1, ConnFields
  <2>4. Sound(C, X \cup {u}) /\ (Fed(S, X) => Fed(C, X \cup {u}))
    BY <1>1, Conns, ConnSound
  <2>5. a_Cache_open_url(C, c, u, e2e) =
          IF R.entry[u] = NoEntry THEN F ELSE Cache_delayed_process_queue(Q, u)
    BY DEF a_Cache_open_url
  <2> HIDE DEF C, A, V
  <2>6. /\ Sound(R, X \cup {u}) /\ (Fed(S, X) => Fed(R, X \cup {u}))
        /\ R.entry[u] = NoEntry /\ R.conn = C.conn /\ Only(C, R, u)
    <3>1. CASE e2e
      <4> DEFINE W == Cache_entry_remove(C, u)
      <4>1. W \in CState /\ Without(C, W, u) /\ W.conn = C.conn
        BY <2>4, RemoveFields
      <4>2. u \in X \cup {u}
        OBVIOUS
      <4>3. Sound(W, X \cup {u}) /\ (Fed(C, X \cup {u}) => Fed(W, X \cup {u}))
        BY <2>4, <4>2, RemoveSound
      <4> HIDE DEF W
      <4>4. W.entry[u] = NoEntry /\ Only(C, W, u)
        BY <4>1 DEF Without, Only
      <4>5. R = W
        BY <3>1 DEF W
      <4> QED BY <2>4, <4>1, <4>3, <4>4, <4>5
    <3>2. CASE ~e2e
      <4>1. R = C
        BY <3>2
      <4>2. C.entry[u] = NoEntry
        BY <3>2, <1>6, <1>3, <2>3
      <4>3. Only(C, C, u)
        BY DEF Only
      <4> QED BY <2>4, <4>1, <4>2, <4>3
    <3> QED BY <3>1, <3>2
  <2>7. R \in CState
    BY <2>6 DEF Sound
  <2> HIDE DEF R
  <2>8. /\ Q \in CState
        /\ Q.entry = R.entry /\ Q.delayed = R.delayed /\ Q.timer = R.timer
        /\ Q.conn = R.conn /\ Q.level = R.level
        /\ \E q \in Queued : /\ ToSet(Q.queue) = ToSet(R.queue) \cup {q}
                             /\ q.key = c /\ q.Url = u /\ ~q.Callback
    BY <2>7, EnqueueFields, ZenonT(60)
  <2> HIDE DEF Q
  <2>9. /\ F \in CState
        /\ F.entry[u] = Fresh /\ \A v \in Urls : v # u => F.entry[v] = Q.entry[v]
        /\ F.queue = Q.queue /\ F.delayed = Q.delayed /\ F.timer = Q.timer
        /\ F.conn = Q.conn /\ F.level = Q.level
    <3>1. Fresh \in Entries \cup {NoEntry}
      BY FreshEntry
    <3> QED BY <2>8, <3>1, EntryFields
  <2> HIDE DEF F
  <2>10. PICK q \in Queued : /\ ToSet(Q.queue) = ToSet(R.queue) \cup {q}
                             /\ q.key = c /\ q.Url = u /\ ~q.Callback
    BY <2>8
  <2>11. Sound(F, X) /\ (Fed(R, X \cup {u}) => Fed(F, X))
    <3>1. /\ \A v \in Urls : v # u => F.entry[v] = R.entry[v]
          /\ F.conn = R.conn /\ F.timer = R.timer /\ F.delayed = R.delayed
          /\ ToSet(F.queue) = ToSet(R.queue) \cup {q}
      BY <2>8, <2>9, <2>10
    <3>2. R.conn[u] = "open"
      BY <2>3, <2>6
    <3> DEFINE Y == X \cup {u}
    <3>3. /\ Sound(R, Y) /\ R.entry[u] = NoEntry /\ F \in CState
          /\ q \in Queued /\ q.Url = u /\ ~q.Callback /\ F.entry[u] = Fresh
      BY <2>6, <2>9, <2>10
    <3>4. Y = X \cup {u}
      OBVIOUS
    <3> HIDE DEF Y
    <3>5. Sound(F, X) /\ (Fed(R, Y) => Fed(F, X))
      BY <3>1, <3>2, <3>3, <3>4, FreshClient, SMTT(30)
    <3> QED BY <3>4, <3>5
  <2>12. Only(S, F, u)
    BY <1>4, <2>3, <2>6, <2>8, <2>9, <2>10 DEF Only
  <2> QED BY <2>1, <2>5, <2>6, <2>11, <2>12 DEF V
<1>7. CASE ~(~e2e /\ S.entry[u] # NoEntry) /\ ~starts
  <2> DEFINE R == Cache_entry_remove(A, u)
  <2>1. V = R
    BY <1>7 DEF a_Capi_open_url
  <2> HIDE DEF A, V
  <2>2. Without(A, R, u) /\ R.conn = A.conn
    BY <1>1, RemoveFields
  <2>3. Sound(R, X) /\ (Fed(A, X) => Fed(R, X))
    BY <1>1, <1>2, RemoveSound
  <2> HIDE DEF R
  <2>4. Only(S, R, u)
    BY <1>4, <2>2 DEF Without, Only
  <2> QED BY <2>1, <1>1, <2>3, <2>4 DEF V
<1> QED BY <1>5, <1>6, <1>7

-----------------------------------------------------------------------------
(***************************************************************************)
(* Cache_process_queue.                                                    *)
(***************************************************************************)
(* The entries of one answer, but for the redirect loop that was seen.     *)
SameAnswer(e, f) ==
  /\ f \in Entries
  /\ f.InProgress = e.InProgress /\ f.GotHeader = e.GotHeader
  /\ f.GotContentType = e.GotContentType /\ f.kind = e.kind
  /\ f.Location = e.Location /\ f.size = e.size /\ f.DataRefcount = e.DataRefcount

(* The entry of the answer that is being handled changes.                  *)
LEMMA HotEntry ==
  ASSUME NEW S, NEW u \in Urls, Sound(S, {u}), S.entry[u] # NoEntry,
         NEW V \in CState, V.entry[u] # NoEntry, Targeted(V.entry[u]),
         \A v \in Urls : v # u => V.entry[v] = S.entry[v] /\ V.conn[v] = S.conn[v],
         V.timer = S.timer, V.delayed = S.delayed, V.queue = S.queue
  PROVE  /\ Sound(V, {u})
         /\ (/\ V.entry[u].GotHeader \/ V.entry[u].size = 0
             /\ S.entry[u].GotContentType => V.entry[u].GotContentType
             /\ Fed(S, {u})) => Fed(V, {u})
<1>0. /\ \A q \in ToSet(S.queue) : q.Url \in Urls
      /\ \A v \in ToSet(S.delayed) : v \in Urls
  BY Fields DEF Sound
<1>1. \A v \in Urls : S.entry[v] # NoEntry => V.entry[v] # NoEntry
  OBVIOUS
<1>2. /\ \A q \in ToSet(V.queue) : V.entry[q.Url] # NoEntry
      /\ \A v \in ToSet(V.delayed) : V.entry[v] # NoEntry
      /\ ToSet(V.delayed) # {} => V.timer
  BY <1>0, <1>1 DEF Sound
<1>3. \A v \in Urls : V.entry[v] # NoEntry => Targeted(V.entry[v])
  BY DEF Sound
<1>4. \A v \in Urls \ {u} : Paired(V.entry[v], V.conn[v])
  BY DEF Sound
<1>5. Sound(V, {u})
  BY <1>2, <1>3, <1>4 DEF Sound
<1>6. ASSUME V.entry[u].GotHeader \/ V.entry[u].size = 0,
             S.entry[u].GotContentType => V.entry[u].GotContentType,
             Fed(S, {u})
      PROVE  Fed(V, {u})
  <2>1. \A v \in Urls : V.entry[v] # NoEntry =>
          V.entry[v].GotHeader \/ V.entry[v].size = 0
    BY <1>6 DEF Fed
  <2>2. \A v \in Urls \ {u} : V.entry[v] # NoEntry =>
          IF V.entry[v].InProgress THEN V.conn[v] = "open" ELSE V.entry[v].GotHeader
    BY <1>6 DEF Fed
  <2>3. \A q \in ToSet(V.queue) : q.Callback => V.entry[q.Url].GotContentType
    BY <1>0, <1>6 DEF Fed
  <2>4. \A q \in ToSet(V.queue) : q.Url \notin {u} /\ ~V.entry[q.Url].InProgress =>
          q.Url \in ToSet(V.delayed)
    BY <1>0, <1>6 DEF Fed
  <2> QED BY <2>1, <2>2, <2>3, <2>4 DEF Fed
<1> QED BY <1>5, <1>6

(* Fewer clients, and other levels.                                        *)
LEMMA FewerClients ==
  ASSUME NEW S, NEW X, Sound(S, X), NEW V \in CState,
         ToSet(V.queue) \subseteq ToSet(S.queue),
         V.entry = S.entry, V.conn = S.conn, V.timer = S.timer, V.delayed = S.delayed
  PROVE  Sound(V, X) /\ (Fed(S, X) => Fed(V, X))
<1>1. Sound(V, X)
  BY DEF Sound
<1>2. ASSUME Fed(S, X) PROVE Fed(V, X)
  BY <1>2 DEF Fed
<1> QED BY <1>1, <1>2

\* One redirect level is replaced.
LEMMA LevelFields ==
  ASSUME NEW S \in CState, NEW l \in [Windows -> 0 .. MaxRedirects]
  PROVE  LET V == [S EXCEPT !.level = l] IN
         /\ V \in CState /\ V.level = l
         /\ V.entry = S.entry /\ V.queue = S.queue /\ V.delayed = S.delayed
         /\ V.timer = S.timer /\ V.conn = S.conn
<1> DEFINE V == [S EXCEPT !.level = l]
<1>1. V \in CState /\ V.level = l
  BY DEF CState
<1>2. /\ V.entry = S.entry /\ V.queue = S.queue /\ V.delayed = S.delayed
      /\ V.timer = S.timer /\ V.conn = S.conn
  BY DEF CState
<1> QED BY <1>1, <1>2

\* A redirect level stays within its bound.
LEMMA NewLevelType ==
  ASSUME NEW S \in CState, NEW u
  PROVE  NewLevel(S, u) \in [Windows -> 0 .. MaxRedirects]
<1>1. S.level \in [Windows -> 0 .. MaxRedirects]
  BY Fields
<1>2. \A w \in Windows : /\ S.level[w] \in 0 .. MaxRedirects /\ 0 \in 0 .. MaxRedirects
                         /\ S.level[w] < MaxRedirects => S.level[w] + 1 \in 0 .. MaxRedirects
  BY <1>1, BoundAssumption
<1> QED BY <1>2 DEF NewLevel

(* Cache_redirect, while the answer of u is being handled.                 *)
LEMMA RedirectSound ==
  ASSUME NEW S, NEW u \in Urls, Sound(S, {u}), S.entry[u] # NoEntry,
         S.entry[u].Location \in Urls, NEW w \in Windows, NEW starts \in BOOLEAN,
         S.entry[u].GotHeader
  PROVE  LET V == Cache_redirect(S, u, w, starts) IN
         /\ Sound(V, {u}) /\ (Fed(S, {u}) => Fed(V, {u}))
         /\ SameAnswer(S.entry[u], V.entry[u]) /\ V.conn[u] = S.conn[u]
         /\ \A q \in ToSet(V.queue) : q.Url = u => q \in ToSet(S.queue)
<1> DEFINE V == Cache_redirect(S, u, w, starts)
           e == S.entry[u]
           t == e.Location
           loop == e.RedirectLoop \/ S.level[w] >= MaxRedirects
<1>0. S \in CState /\ e \in Entries
  BY Fields DEF Sound
<1>1. SameAnswer(e, e)
  BY <1>0 DEF SameAnswer
<1>2. CASE loop
  <2> DEFINE f == [e EXCEPT !.RedirectLoop = TRUE]
             R == [S EXCEPT !.entry[u] = f]
             l == [R.level EXCEPT ![w] = 0]
             Z == [R EXCEPT !.level = l]
  <2>1. V = Z
    BY <1>0, <1>2 DEF Cache_redirect, CState
  <2>2. f \in Entries /\ SameAnswer(e, f) /\ f.GotContentType = e.GotContentType
        /\ f.GotHeader = e.GotHeader
    BY <1>0 DEF Entries, SameAnswer
  <2>3. Targeted(f)
    BY <2>2 DEF SameAnswer, Targeted, Sound
  <2> HIDE DEF f
  <2>4. /\ R \in CState
        /\ R.entry[u] = f /\ \A v \in Urls : v # u => R.entry[v] = S.entry[v]
        /\ R.queue = S.queue /\ R.delayed = S.delayed /\ R.timer = S.timer
        /\ R.conn = S.conn /\ R.level = S.level
    BY <1>0, <2>2, EntryFields
  <2> HIDE DEF R
  <2>5. l \in [Windows -> 0 .. MaxRedirects]
    <3>1. R.level \in [Windows -> 0 .. MaxRedirects] /\ 0 \in 0 .. MaxRedirects
      BY <2>4, Fields, BoundAssumption
    <3> QED BY <3>1
  <2> HIDE DEF l
  <2>6. /\ Z \in CState
        /\ Z.entry = R.entry /\ Z.queue = R.queue /\ Z.delayed = R.delayed
        /\ Z.timer = R.timer /\ Z.conn = R.conn
    BY <2>4, <2>5, LevelFields
  <2> HIDE DEF Z
  <2>7. f # NoEntry
    BY <2>2, NullAssumption
  <2>8. Sound(Z, {u}) /\ (Fed(S, {u}) => Fed(Z, {u}))
    BY <2>2, <2>3, <2>4, <2>6, <2>7, HotEntry, ZenonT(60)
  <2> QED BY <2>1, <2>2, <2>4, <2>6, <2>8
<1>3. CASE ~loop /\ t = u
  <2>1. V = S
    BY <1>3 DEF Cache_redirect
  <2> QED BY <1>1, <2>1
<1>4. CASE ~loop /\ t # u
  <2> DEFINE O == a_Capi_open_url(S, w, t, e.kind = "temp_redirect", starts)
             e2e == e.kind = "temp_redirect"
  <2>1. V = O
    BY <1>4 DEF Cache_redirect
  <2>2. w \in Clients /\ t \notin {u} /\ e2e \in BOOLEAN
    BY <1>4 DEF Clients
  <2>3. Sound(O, {u}) /\ (Fed(S, {u}) => Fed(O, {u})) /\ Only(S, O, t)
    <3> HIDE DEF O, e2e, t
    <3>1. LET Z == a_Capi_open_url(S, w, t, e2e, starts) IN
          Sound(Z, {u}) /\ (Fed(S, {u}) => Fed(Z, {u})) /\ Only(S, Z, t)
      <4>1. t \in Urls
        BY DEF t
      <4> QED BY <2>2, <4>1, OpenSound
    <3> QED BY <3>1 DEF O, e2e
  <2> HIDE DEF O
  <2>4. O.entry[u] = e /\ O.conn[u] = S.conn[u]
    BY <1>4, <2>3 DEF Only
  <2>5. \A q \in ToSet(O.queue) : q.Url = u => q \in ToSet(S.queue)
    BY <1>4, <2>3 DEF Only
  <2> QED BY <1>1, <2>1, <2>3, <2>4, <2>5
<1> QED BY <1>2, <1>3, <1>4

(* Every client of u is given the data.                                    *)
LEMMA ServeQueue ==
  ASSUME NEW S \in CState, NEW u \in Urls, S.entry[u] # NoEntry
  PROVE  LET k == [i \in 1 .. Len(S.queue) |->
                     IF S.queue[i].Url = u
                     THEN [S.queue[i] EXCEPT !.Callback = TRUE, !.BufSize = S.entry[u].size]
                     ELSE S.queue[i]]
         IN /\ k \in Seq(Queued)
            /\ \A q \in ToSet(k) : q.Url # u => q \in ToSet(S.queue)
            /\ \A q \in ToSet(k) : q.Url = u => \E r \in ToSet(S.queue) : r.Url = u
<1> DEFINE z == S.entry[u].size
           fed(q) == IF q.Url = u THEN [q EXCEPT !.Callback = TRUE, !.BufSize = z] ELSE q
           k == [i \in 1 .. Len(S.queue) |-> fed(S.queue[i])]
<1>1. S.queue \in Seq(Queued) /\ S.entry[u] \in Entries
  BY Fields
<1>2. z \in 0 .. MaxData
  BY <1>1 DEF Entries
<1> HIDE DEF z
<1>3. ASSUME NEW q \in Queued
      PROVE  fed(q) \in Queued /\ fed(q).Url = q.Url /\ (q.Url # u => fed(q) = q)
  BY <1>2 DEF Queued
<1>4. /\ Len(S.queue) \in Nat
      /\ \A i \in 1 .. Len(S.queue) : S.queue[i] \in Queued /\ S.queue[i] \in ToSet(S.queue)
  BY <1>1, ToSetIn, ElementOfSeq
<1> HIDE DEF fed
<1>5. k \in Seq(Queued) /\ Len(k) = Len(S.queue)
  <2>1. \A i \in 1 .. Len(S.queue) : fed(S.queue[i]) \in Queued
    BY <1>3, <1>4
  <2>2. k \in [1 .. Len(S.queue) -> Queued]
    BY <2>1
  <2> HIDE DEF k
  <2> QED BY <1>4, <2>2, SeqDef
<1>6. \A i \in 1 .. Len(S.queue) : k[i] = fed(S.queue[i])
  OBVIOUS
<1> HIDE DEF k
<1>7. ASSUME NEW q \in ToSet(k)
      PROVE  \E r \in ToSet(S.queue) : r \in Queued /\ q = fed(r)
  <2>1. PICK i \in 1 .. Len(k) : k[i] = q
    BY <1>5, ToSetIn
  <2> QED BY <2>1, <1>4, <1>5, <1>6
<1>8. \A q \in ToSet(k) : q.Url # u => q \in ToSet(S.queue)
  BY <1>3, <1>7
<1>9. \A q \in ToSet(k) : q.Url = u => \E r \in ToSet(S.queue) : r.Url = u
  BY <1>3, <1>7
<1> QED BY <1>5, <1>8, <1>9 DEF k, fed, z

(* The loop over the root clients of a redirection.                        *)
Follow(S, u, q, starts) ==
  FoldLeft(LAMBDA T, r : Cache_redirect(T, u, r.key, starts), S, q)

\* All redirections of a queue: the fold over its root clients.
LEMMA RedirectLoopSound ==
  ASSUME NEW S, NEW u \in Urls, Sound(S, {u}), S.entry[u] # NoEntry,
         S.entry[u].GotHeader, S.entry[u].Location \in Urls,
         NEW q \in Seq(Queued), \A r \in ToSet(q) : r.key \in Windows,
         NEW starts \in BOOLEAN
  PROVE  LET V == Follow(S, u, q, starts) IN
         /\ Sound(V, {u}) /\ (Fed(S, {u}) => Fed(V, {u}))
         /\ SameAnswer(S.entry[u], V.entry[u]) /\ V.conn[u] = S.conn[u]
         /\ \A r \in ToSet(V.queue) : r.Url = u => r \in ToSet(S.queue)
<1> DEFINE A == {T \in CState :
                   /\ Sound(T, {u}) /\ (Fed(S, {u}) => Fed(T, {u}))
                   /\ SameAnswer(S.entry[u], T.entry[u]) /\ T.conn[u] = S.conn[u]
                   /\ \A r \in ToSet(T.queue) : r.Url = u => r \in ToSet(S.queue)}
           D == DOMAIN q
           turn(T, i) == Cache_redirect(T, u, q[i].key, starts)
           op == [x \in D \X A |-> turn(x[2], x[1])]
           pick == [s \in SUBSET D |-> Max(s)]
           Is(it) == it = [s \in SUBSET D |->
                             IF s = {} THEN S ELSE turn(it[s \ {Max(s)}], Max(s))]
           it == CHOOSE it : Is(it)
<1>1. D = 1 .. Len(q) /\ Len(q) \in Nat /\ IsFiniteSet(D)
  BY FS_Interval
<1>2. ASSUME NEW T \in A, NEW i \in D PROVE turn(T, i) \in A
  <2> DEFINE V == turn(T, i)
  <2>1. q[i].key \in Windows
    BY <1>1, ToSetIn
  <2>2. /\ Sound(T, {u}) /\ SameAnswer(S.entry[u], T.entry[u])
        /\ T.conn[u] = S.conn[u] /\ (Fed(S, {u}) => Fed(T, {u}))
        /\ \A r \in ToSet(T.queue) : r.Url = u => r \in ToSet(S.queue)
    OBVIOUS
  <2>3. T.entry[u] # NoEntry /\ T.entry[u].Location \in Urls /\ T.entry[u].GotHeader
    BY <2>2, NullAssumption DEF SameAnswer
  <2>4. /\ Sound(V, {u}) /\ (Fed(T, {u}) => Fed(V, {u}))
        /\ SameAnswer(T.entry[u], V.entry[u]) /\ V.conn[u] = T.conn[u]
        /\ \A r \in ToSet(V.queue) : r.Url = u => r \in ToSet(T.queue)
    BY <2>1, <2>2, <2>3, RedirectSound
  <2> HIDE DEF turn
  <2>5. V \in CState
    BY <2>4 DEF Sound
  <2>6. SameAnswer(S.entry[u], V.entry[u])
    BY <2>2, <2>4 DEF SameAnswer
  <2> QED BY <2>2, <2>4, <2>5, <2>6
<1>3. S \in A
  <2>1. S \in CState /\ S.entry[u] \in Entries
    BY Fields DEF Sound
  <2> QED BY <2>1 DEF SameAnswer
<1> HIDE DEF A, turn
<1>4. Picks(pick, D)
  <2> SUFFICES ASSUME NEW s \in SUBSET D, s # {} PROVE Max(s) \in s
    BY DEF Picks
  <2> QED BY <1>1, MaxPicks
<1>5. op \in [D \X A -> A] /\ \A i \in D, T \in A : op[<<i, T>>] = turn(T, i)
  BY <1>2
<1>6. \A s \in SUBSET D : pick[s] = Max(s)
  OBVIOUS
<1>7. PICK f : Folds_(f, D, A, S, op, pick)
  <2> HIDE DEF op, pick, D
  <2> QED BY <1>1, <1>3, <1>4, <1>5, FoldExists
<1>8. Is(f)
  <2> HIDE DEF op, pick, D
  <2>1. /\ f \in [SUBSET D -> A] /\ f[{}] = S
        /\ \A s \in SUBSET D : s # {} => f[s] = op[<<pick[s], f[s \ {pick[s]}]>>]
    BY <1>7 DEF Folds_
  <2>2. ASSUME NEW s \in SUBSET D, s # {}
        PROVE  f[s] = turn(f[s \ {Max(s)}], Max(s))
    <3>1. pick[s] = Max(s) /\ Max(s) \in D /\ s \ {Max(s)} \in SUBSET D
      BY <1>4, <1>6, <2>2 DEF Picks
    <3>2. f[s \ {Max(s)}] \in A
      BY <2>1, <3>1
    <3> QED BY <2>1, <2>2, <1>5, <3>1, <3>2
  <2>3. f = [s \in SUBSET D |-> f[s]]
    BY <2>1
  <2>4. \A s \in SUBSET D : f[s] = IF s = {} THEN S ELSE turn(f[s \ {Max(s)}], Max(s))
    BY <2>1, <2>2
  <2> QED BY <2>3, <2>4
<1>9. Is(it)
  <2> HIDE DEF Is
  <2> QED BY <1>8
<1>10. Follow(S, u, q, starts) = it[D]
  BY DEF Follow, FoldLeft, MapThenFoldSet, turn
<1> HIDE DEF it
<1>11. /\ it[{}] \in A
       /\ \A s \in SUBSET D : s # {} /\ it[s \ {pick[s]}] \in A => it[s] \in A
  <2> HIDE DEF D, pick
  <2>1. it[{}] = S /\ \A s \in SUBSET D : s # {} => it[s] = turn(it[s \ {Max(s)}], Max(s))
    BY <1>9
  <2>2. \A s \in SUBSET D : s # {} => Max(s) \in D /\ pick[s] = Max(s)
    BY <1>4, <1>6 DEF Picks
  <2>3. ASSUME NEW s \in SUBSET D, s # {}, it[s \ {pick[s]}] \in A PROVE it[s] \in A
    <3>1. it[s] = turn(it[s \ {Max(s)}], Max(s)) /\ Max(s) \in D /\ pick[s] = Max(s)
      BY <2>1, <2>2, <2>3
    <3> QED BY <1>2, <2>3, <3>1
  <2> QED BY <1>3, <2>1, <2>3
<1>12. it[D] \in A
  <2> HIDE DEF D, pick
  <2> QED BY <1>1, <1>4, <1>11, FoldKeeps
<1> QED BY <1>10, <1>12 DEF A

\* The clients with a window are among those that wait for the url.
LEMMA RootsFields ==
  ASSUME NEW S \in CState, NEW u
  PROVE  /\ Roots(S, u) \in Seq(Queued)
         /\ ToSet(Roots(S, u)) = {q \in ToSet(S.queue) : q.Url = u /\ q.key \in Windows}
<1>1. S.queue \in Seq(Queued)
  BY Fields
<1>2. {q \in Waiting(S, u) : q.key \in Windows} =
        {q \in ToSet(S.queue) : q.Url = u /\ q.key \in Windows}
  BY DEF Waiting
<1>3. ToSet(Roots(S, u)) = ToSet(S.queue) \cap {q \in Waiting(S, u) : q.key \in Windows}
  BY <1>1, KeepProperties DEF Roots
<1>4. Roots(S, u) \in Seq(Queued)
  BY <1>1, KeepProperties DEF Roots
<1> QED BY <1>2, <1>3, <1>4

(* Serve: a complete entry is left by all its clients.                     *)
LEMMA ServeSound ==
  ASSUME NEW S, NEW u \in Urls, Sound(S, {u}), S.entry[u] # NoEntry,
         S.entry[u].GotHeader, S.entry[u].GotContentType, NEW starts \in BOOLEAN
  PROVE  LET V == Serve(S, u, starts) IN
         /\ Sound(V, {u}) /\ (Fed(S, {u}) => Fed(V, {u}))
         /\ SameAnswer(S.entry[u], V.entry[u]) /\ V.conn[u] = S.conn[u]
         /\ ~S.entry[u].InProgress => \A q \in ToSet(V.queue) : q.Url # u
<1> DEFINE V == Serve(S, u, starts)
           e == S.entry[u]
           k == [i \in 1 .. Len(S.queue) |->
                   IF S.queue[i].Url = u
                   THEN [S.queue[i] EXCEPT !.Callback = TRUE, !.BufSize = e.size]
                   ELSE S.queue[i]]
           F == [S EXCEPT !.level = NewLevel(S, u), !.queue = k]
           C == Dequeue(F, Waiting(F, u))
           R == Follow(C, u, Roots(S, u), starts)
<1>0. S \in CState /\ e \in Entries
  BY Fields DEF Sound
<1>1. V = IF e.InProgress THEN F ELSE IF ~IsRedirect(e.kind) THEN C ELSE R
  BY DEF Serve, Follow
<1>2. /\ k \in Seq(Queued)
      /\ \A q \in ToSet(k) : q.Url # u => q \in ToSet(S.queue)
  BY <1>0, ServeQueue
<1>3. /\ F \in CState /\ F.queue = k
      /\ F.entry = S.entry /\ F.conn = S.conn /\ F.timer = S.timer
      /\ F.delayed = S.delayed
  <2>1. NewLevel(S, u) \in [Windows -> 0 .. MaxRedirects]
    BY <1>0, NewLevelType
  <2> HIDE DEF k
  <2>2. F \in CState /\ F.queue = k
    BY <1>0, <1>2, <2>1 DEF CState
  <2>3. /\ F.entry = S.entry /\ F.conn = S.conn /\ F.timer = S.timer
        /\ F.delayed = S.delayed
    BY <1>0 DEF CState
  <2> QED BY <2>2, <2>3
<1> HIDE DEF F, k
<1>4. Sound(F, {u}) /\ (Fed(S, {u}) => Fed(F, {u}))
  <2>1. \A q \in ToSet(F.queue) : q.Url = u \/ q \in ToSet(S.queue)
    BY <1>2, <1>3
  <2>2. Sound(F, {u})
    BY <1>3, <2>1 DEF Sound
  <2>3. ASSUME Fed(S, {u}) PROVE Fed(F, {u})
    <3>1. \A q \in ToSet(F.queue) : q.Callback => F.entry[q.Url].GotContentType
      BY <1>3, <2>1, <2>3 DEF Fed
    <3>2. \A q \in ToSet(F.queue) : q.Url \notin {u} /\ ~F.entry[q.Url].InProgress =>
            q.Url \in ToSet(F.delayed)
      BY <1>3, <2>1, <2>3 DEF Fed
    <3>3. /\ \A v \in Urls : F.entry[v] # NoEntry =>
               F.entry[v].GotHeader \/ F.entry[v].size = 0
          /\ \A v \in Urls \ {u} : F.entry[v] # NoEntry =>
               IF F.entry[v].InProgress THEN F.conn[v] = "open" ELSE F.entry[v].GotHeader
      BY <1>3, <2>3 DEF Fed
    <3> QED BY <3>1, <3>2, <3>3 DEF Fed
  <2> QED BY <2>2, <2>3
<1>5. /\ C \in CState
      /\ C.entry = F.entry /\ C.delayed = F.delayed /\ C.timer = F.timer
      /\ C.conn = F.conn
      /\ ToSet(C.queue) = ToSet(F.queue) \ Waiting(F, u)
  BY <1>3, DequeueFields
<1> HIDE DEF C
<1>6. Sound(C, {u}) /\ (Fed(F, {u}) => Fed(C, {u}))
  BY <1>4, <1>5, FewerClients
<1>7. \A q \in ToSet(C.queue) : q.Url # u
  BY <1>5 DEF Waiting
<1>8. SameAnswer(e, e)
  BY <1>0 DEF SameAnswer
<1>9. CASE e.InProgress
  BY <1>1, <1>3, <1>4, <1>8, <1>9
<1>10. CASE ~e.InProgress /\ ~IsRedirect(e.kind)
  <2>1. V = C
    BY <1>1, <1>10
  <2> QED BY <2>1, <1>3, <1>4, <1>5, <1>6, <1>7, <1>8, <1>10
<1>11. CASE ~e.InProgress /\ IsRedirect(e.kind)
  <2>1. V = R
    BY <1>1, <1>11
  <2>2. Roots(S, u) \in Seq(Queued) /\ \A q \in ToSet(Roots(S, u)) : q.key \in Windows
    BY <1>0, RootsFields
  <2>3. C.entry[u] = e /\ C.entry[u] # NoEntry /\ C.entry[u].GotHeader
    BY <1>3, <1>5
  <2>4. C.entry[u].Location \in Urls
    <3>1. e.Location # NoUrl /\ e.Location \in Urls \cup {NoUrl}
      BY <1>0, <1>11 DEF Sound, Targeted, Entries
    <3> QED BY <3>1, <2>3
  <2>5. /\ Sound(R, {u}) /\ (Fed(C, {u}) => Fed(R, {u}))
        /\ SameAnswer(C.entry[u], R.entry[u]) /\ R.conn[u] = C.conn[u]
        /\ \A r \in ToSet(R.queue) : r.Url = u => r \in ToSet(C.queue)
    BY <1>6, <2>2, <2>3, <2>4, RedirectLoopSound
  <2> HIDE DEF R
  <2> QED BY <2>1, <1>3, <1>4, <1>5, <1>6, <1>7, <2>3, <2>5
<1> HIDE DEF V
<1> QED BY <1>9, <1>10, <1>11 DEF V

(* What Cache_process_queue leaves of an entry that it does not give up.   *)
Kept(e, f) ==
  /\ f \in Entries
  /\ f.InProgress = e.InProgress /\ f.GotHeader = e.GotHeader /\ f.kind = e.kind
  /\ f.Location = e.Location /\ f.size = e.size /\ f.DataRefcount = e.DataRefcount

(* The content type of the entry is determined.                            *)
LEMMA TypeSet ==
  ASSUME NEW S, NEW u \in Urls, Sound(S, {u}), S.entry[u] # NoEntry
  PROVE  LET T == [S EXCEPT !.entry[u].GotContentType = TRUE] IN
         /\ Sound(T, {u}) /\ (Fed(S, {u}) => Fed(T, {u}))
         /\ Kept(S.entry[u], T.entry[u]) /\ T.entry[u].GotContentType
         /\ T.entry[u] # NoEntry
         /\ T.queue = S.queue /\ T.conn = S.conn /\ T.level = S.level
<1> DEFINE e == S.entry[u]
           f == [e EXCEPT !.GotContentType = TRUE]
           T == [S EXCEPT !.entry[u] = f]
<1>0. S \in CState /\ e \in Entries
  BY Fields DEF Sound
<1>1. [S EXCEPT !.entry[u].GotContentType = TRUE] = T
  BY <1>0 DEF CState
<1>2. f \in Entries /\ Kept(e, f) /\ f.GotContentType
  BY <1>0 DEF Entries, Kept
<1>3. f # NoEntry /\ Targeted(f)
  BY <1>2, NullAssumption DEF Kept, Targeted, Sound
<1> HIDE DEF f
<1>4. /\ T \in CState
      /\ T.entry[u] = f /\ \A v \in Urls : v # u => T.entry[v] = S.entry[v]
      /\ T.queue = S.queue /\ T.delayed = S.delayed /\ T.timer = S.timer
      /\ T.conn = S.conn /\ T.level = S.level
  BY <1>0, <1>2, EntryFields
<1> HIDE DEF T
<1>5. Fed(S, {u}) => T.entry[u].GotHeader \/ T.entry[u].size = 0
  BY <1>2, <1>4 DEF Fed, Kept
<1>6. Sound(T, {u}) /\ (Fed(S, {u}) => Fed(T, {u}))
  BY <1>2, <1>3, <1>4, <1>5, HotEntry
<1> QED BY <1>1, <1>2, <1>3, <1>4, <1>6

\* The end of an aborted entry: clients, entry and connection go.
LEMMA AbandonSound ==
  ASSUME NEW S, NEW u \in Urls, Sound(S, {u}), S.entry[u] # NoEntry
  PROVE  LET V == Abandon(S, u) IN
         /\ Sound(V, {u}) /\ (Fed(S, {u}) => Fed(V, {u}))
         /\ IF S.conn[u] = "open" THEN V.conn[u] = "none" /\ V.entry[u] = NoEntry
            ELSE /\ V.conn[u] = S.conn[u]
                 /\ V.entry[u] \in {NoEntry, S.entry[u]}
                 /\ Roots(S, u) # <<>> => V.entry[u] = NoEntry
                 /\ \A q \in ToSet(V.queue) : q.Url = u => q \in ToSet(S.queue) /\ q.Callback
<1> DEFINE V == Abandon(S, u)
           L == [S EXCEPT !.level = NewLevel(S, u)]
           new == {q \in Waiting(S, u) : ~q.Callback}
           D == Dequeue(L, new)
           A == a_Capi_conn_abort_by_url(D, u)
           R == Cache_entry_remove(A, u)
<1>0. S \in CState
  BY DEF Sound
<1>1. V = IF Roots(S, u) # <<>> THEN R ELSE A
  BY DEF Abandon
<1>2. /\ L \in CState
      /\ L.entry = S.entry /\ L.queue = S.queue /\ L.delayed = S.delayed
      /\ L.timer = S.timer /\ L.conn = S.conn
  BY <1>0, NewLevelType, LevelFields
<1> HIDE DEF L
<1>3. /\ D \in CState
      /\ D.entry = L.entry /\ D.delayed = L.delayed /\ D.timer = L.timer
      /\ D.conn = L.conn
      /\ ToSet(D.queue) = ToSet(L.queue) \ new
  BY <1>2, DequeueFields
<1> HIDE DEF D
<1>4. Sound(D, {u}) /\ (Fed(S, {u}) => Fed(D, {u}))
  BY <1>2, <1>3, FewerClients
<1>5. \A q \in ToSet(D.queue) : q.Url = u => q \in ToSet(S.queue) /\ q.Callback
  BY <1>2, <1>3 DEF Waiting
<1>6. /\ Sound(A, {u}) /\ (Fed(D, {u}) => Fed(A, {u}))
      /\ IF D.conn[u] = "open" THEN Without(D, A, u) /\ A.conn[u] = "none" ELSE A = D
  BY <1>4, AbortSound
<1> HIDE DEF A
<1>7. Without(A, R, u) /\ R.conn = A.conn
  BY <1>6, RemoveFields
<1>8. Sound(R, {u}) /\ (Fed(A, {u}) => Fed(R, {u}))
  BY <1>6, RemoveSound
<1> HIDE DEF R
<1>9. CASE Roots(S, u) # <<>>
  <2>1. V = R
    BY <1>1, <1>9
  <2>2. R.entry[u] = NoEntry /\ \A q \in ToSet(R.queue) : q.Url # u
    BY <1>7 DEF Without
  <2>3. R.conn[u] = IF S.conn[u] = "open" THEN "none" ELSE S.conn[u]
    BY <1>2, <1>3, <1>6, <1>7
  <2> HIDE DEF V
  <2> QED BY <2>1, <2>2, <2>3, <1>4, <1>6, <1>8 DEF V
<1>10. CASE Roots(S, u) = <<>>
  <2>1. V = A
    BY <1>1, <1>10
  <2>2. IF S.conn[u] = "open" THEN A.conn[u] = "none" /\ A.entry[u] = NoEntry
        ELSE /\ A.conn[u] = S.conn[u] /\ A.entry[u] = S.entry[u]
             /\ \A q \in ToSet(A.queue) : q.Url = u => q \in ToSet(S.queue) /\ q.Callback
    BY <1>2, <1>3, <1>5, <1>6 DEF Without
  <2> HIDE DEF V
  <2> QED BY <2>1, <2>2, <1>4, <1>6, <1>10 DEF V
<1> QED BY <1>9, <1>10

(* A document that is only offered for download has a root client.         *)
LEMMA NewRoot ==
  ASSUME NEW S \in CState, NEW u, NewClients(S, u) \cap Windows # {}
  PROVE  Roots(S, u) # <<>>
<1>1. S.queue \in Seq(Queued) /\ Roots(S, u) \in Seq(Queued)
  BY Fields, RootsFields
<1>2. PICK w \in Windows : w \in NewClients(S, u)
  OBVIOUS
<1>3. PICK i \in 1 .. Len(S.queue) : S.queue[i].Url = u /\ S.queue[i].key = w
  BY <1>2 DEF NewClients, Of
<1>4. S.queue[i] \in ToSet(S.queue)
  BY <1>1, ToSetIn
<1>5. S.queue[i] \in ToSet(Roots(S, u))
  BY <1>3, <1>4, RootsFields
<1> QED BY <1>1, <1>5, EmptyList

(* The answer P after the one in S was processed, and not given up.        *)
Passed(S, P, u, detect) ==
  LET e == S.entry[u] IN
    /\ P.conn[u] = S.conn[u] /\ Kept(e, P.entry[u])
    /\ P.entry[u].GotContentType <=> (e.GotContentType \/ TypeKnown(S, u, detect))
    /\ TypeKnown(S, u, detect) /\ ~e.InProgress =>
         \A q \in ToSet(P.queue) : q.Url # u

(* AbortEntry: with its connection, except when that is closing already.   *)
GivenUp(S, P, u) ==
  LET e == S.entry[u] IN
    IF S.conn[u] = "open" THEN P.conn[u] = "none" /\ P.entry[u] = NoEntry
    ELSE /\ P.conn[u] = S.conn[u]
         /\ e.kind # "mismatch" \/ e.GotContentType => P.entry[u] = NoEntry
         /\ P.entry[u] # NoEntry =>
              /\ Kept(e, P.entry[u]) /\ P.entry[u].GotContentType
              /\ Fed(S, {u}) => \A q \in ToSet(P.queue) : q.Url # u

\* Cache_process_queue keeps the state sound, on each of its paths.
LEMMA ProcessSound ==
  ASSUME NEW S, NEW u \in Urls, Sound(S, {u}), S.entry[u] # NoEntry,
         NEW detect \in BOOLEAN, NEW starts \in BOOLEAN
  PROVE  LET P == Cache_process_queue(S, u, detect, starts)
         IN /\ Sound(P, {u}) /\ (Fed(S, {u}) => Fed(P, {u}))
            /\ ~AbortEntry(S, u, detect) => Passed(S, P, u, detect)
            /\ AbortEntry(S, u, detect) => GivenUp(S, P, u)
<1> DEFINE P == Cache_process_queue(S, u, detect, starts)
           e == S.entry[u]
           T == [S EXCEPT !.entry[u].GotContentType = TRUE]
<1>0. S \in CState /\ e \in Entries
  BY Fields DEF Sound
<1>1. P = IF ~TypeKnown(S, u, detect) THEN S
          ELSE IF AbortEntry(S, u, detect) THEN Abandon(T, u) ELSE Serve(T, u, starts)
  BY DEF Cache_process_queue
<1>2. /\ Sound(T, {u}) /\ (Fed(S, {u}) => Fed(T, {u}))
      /\ Kept(e, T.entry[u]) /\ T.entry[u].GotContentType
      /\ T.entry[u] # NoEntry
      /\ T.queue = S.queue /\ T.conn = S.conn /\ T.level = S.level
  BY TypeSet
<1> HIDE DEF T
<1>3. CASE ~TypeKnown(S, u, detect)
  <2>1. P = S /\ ~AbortEntry(S, u, detect)
    BY <1>1, <1>3 DEF AbortEntry
  <2>2. Kept(e, e) /\ e.GotContentType \in BOOLEAN
    BY <1>0 DEF Kept, Entries
  <2> HIDE DEF P
  <2> QED BY <2>1, <2>2, <1>3 DEF P, Passed
<1>4. CASE TypeKnown(S, u, detect) /\ ~AbortEntry(S, u, detect)
  <2> DEFINE V == Serve(T, u, starts)
  <2>1. P = V
    BY <1>1, <1>4
  <2>2. T.entry[u].GotHeader
    BY <1>2, <1>4 DEF Kept, TypeKnown
  <2>3. /\ Sound(V, {u}) /\ (Fed(T, {u}) => Fed(V, {u}))
        /\ SameAnswer(T.entry[u], V.entry[u]) /\ V.conn[u] = T.conn[u]
        /\ ~T.entry[u].InProgress => \A q \in ToSet(V.queue) : q.Url # u
    BY <1>2, <2>2, ServeSound
  <2> HIDE DEF V
  <2>4. Kept(e, V.entry[u]) /\ V.entry[u].GotContentType
    BY <1>2, <2>3 DEF Kept, SameAnswer
  <2>5. ~e.InProgress => \A q \in ToSet(V.queue) : q.Url # u
    BY <1>2, <2>3 DEF Kept
  <2>6. V.entry[u].GotContentType <=> (e.GotContentType \/ TypeKnown(S, u, detect))
    <3>1. V.entry[u].GotContentType = TRUE
      BY <1>2, <2>3, <2>4 DEF SameAnswer, Kept, Entries
    <3> QED BY <3>1, <1>4
  <2> HIDE DEF P
  <2> QED BY <2>1, <2>3, <2>4, <2>5, <2>6, <1>2, <1>4 DEF P, Passed
<1>5. CASE AbortEntry(S, u, detect)
  <2> DEFINE V == Abandon(T, u)
  <2>1. P = V
    BY <1>1, <1>5 DEF AbortEntry
  <2>2. /\ Sound(V, {u}) /\ (Fed(T, {u}) => Fed(V, {u}))
        /\ IF T.conn[u] = "open" THEN V.conn[u] = "none" /\ V.entry[u] = NoEntry
           ELSE /\ V.conn[u] = T.conn[u]
                /\ V.entry[u] \in {NoEntry, T.entry[u]}
                /\ Roots(T, u) # <<>> => V.entry[u] = NoEntry
                /\ \A q \in ToSet(V.queue) : q.Url = u => q \in ToSet(T.queue) /\ q.Callback
    BY <1>2, AbandonSound
  <2> HIDE DEF V
  <2>3. ASSUME T.conn[u] # "open", e.kind # "mismatch" \/ e.GotContentType
        PROVE  V.entry[u] = NoEntry
    <3>1. NewClients(S, u) \cap Windows # {}
      BY <1>5, <2>3 DEF AbortEntry
    <3>2. Roots(S, u) # <<>>
      BY <1>0, <3>1, NewRoot
    <3>3. Roots(T, u) = Roots(S, u)
      BY <1>2 DEF Roots, Waiting
    <3> QED BY <2>2, <2>3, <3>2, <3>3
  <2>4. ASSUME T.conn[u] # "open", V.entry[u] # NoEntry, Fed(S, {u})
        PROVE  \A q \in ToSet(V.queue) : q.Url # u
    <3>1. ~e.GotContentType
      BY <2>3, <2>4
    <3>2. \A q \in ToSet(S.queue) : q.Url = u => ~q.Callback
      BY <2>4, <3>1 DEF Fed
    <3> QED BY <2>2, <2>4, <3>2, <1>2
  <2>5. V.entry[u] # NoEntry /\ T.conn[u] # "open" =>
          Kept(e, V.entry[u]) /\ V.entry[u].GotContentType
    BY <1>2, <2>2
  <2> HIDE DEF P
  <2> QED BY <2>1, <2>2, <2>3, <2>4, <2>5, <1>2, <1>5 DEF P, GivenUp
<1> QED BY <1>3, <1>4, <1>5

-----------------------------------------------------------------------------
(***************************************************************************)
(* a_Cache_process_dbuf.                                                   *)
(***************************************************************************)
LEMMA HotUpdate ==
  ASSUME NEW S, NEW u \in Urls, Sound(S, {u}), S.entry[u] # NoEntry,
         NEW f \in Entries, Targeted(f), f.GotContentType = S.entry[u].GotContentType,
         f.GotHeader \/ (f.GotHeader = S.entry[u].GotHeader /\ f.size = S.entry[u].size)
  PROVE  LET T == [S EXCEPT !.entry[u] = f] IN
         /\ Sound(T, {u}) /\ (Fed(S, {u}) => Fed(T, {u}))
         /\ T.entry[u] = f /\ f # NoEntry
         /\ T.queue = S.queue /\ T.conn = S.conn /\ T.delayed = S.delayed
<1> DEFINE T == [S EXCEPT !.entry[u] = f]
<1>0. S \in CState
  BY DEF Sound
<1>1. f # NoEntry
  BY NullAssumption
<1>2. /\ T \in CState
      /\ T.entry[u] = f /\ \A v \in Urls : v # u => T.entry[v] = S.entry[v]
      /\ T.queue = S.queue /\ T.delayed = S.delayed /\ T.timer = S.timer
      /\ T.conn = S.conn /\ T.level = S.level
  BY <1>0, EntryFields
<1> HIDE DEF T
<1>3. Fed(S, {u}) => T.entry[u].GotHeader \/ T.entry[u].size = 0
  BY <1>2 DEF Fed
<1>4. Sound(T, {u}) /\ (Fed(S, {u}) => Fed(T, {u}))
  BY <1>1, <1>2, <1>3, HotEntry
<1> QED BY <1>1, <1>2, <1>4 DEF T

Count(S, u, d) == [S EXCEPT !.entry[u].DataRefcount = @ + d]

Counts(S, T, u) ==
  LET e == S.entry[u]
      f == T.entry[u]
  IN /\ f \in Entries
     /\ f.InProgress = e.InProgress /\ f.GotHeader = e.GotHeader
     /\ f.GotContentType = e.GotContentType /\ f.kind = e.kind
     /\ T.queue = S.queue /\ T.conn = S.conn /\ T.delayed = S.delayed

\* A reference more or less changes the count and nothing else.
LEMMA CountSound ==
  ASSUME NEW S, NEW u \in Urls, Sound(S, {u}), S.entry[u] # NoEntry, NEW d \in Int,
         S.entry[u].DataRefcount + d \in -1 .. 2
  PROVE  LET T == Count(S, u, d) IN
         /\ Sound(T, {u}) /\ (Fed(S, {u}) => Fed(T, {u}))
         /\ Counts(S, T, u) /\ T.entry[u] # NoEntry
         /\ T.entry[u].DataRefcount = S.entry[u].DataRefcount + d
<1> DEFINE e == S.entry[u]
           f == [e EXCEPT !.DataRefcount = @ + d]
           T == [S EXCEPT !.entry[u] = f]
<1>0. S \in CState /\ e \in Entries
  BY Fields DEF Sound
<1>1. Count(S, u, d) = T
  BY <1>0 DEF CState, Count
<1>2. /\ f \in Entries /\ f.DataRefcount = e.DataRefcount + d
      /\ f.InProgress = e.InProgress /\ f.GotHeader = e.GotHeader
      /\ f.GotContentType = e.GotContentType /\ f.kind = e.kind
      /\ f.Location = e.Location /\ f.size = e.size
  BY <1>0 DEF Entries
<1>3. Targeted(e)
  BY DEF Sound
<1> HIDE DEF f
<1>4. Targeted(f)
  BY <1>2, <1>3 DEF Targeted
<1>5. /\ Sound(T, {u}) /\ (Fed(S, {u}) => Fed(T, {u}))
      /\ T.entry[u] = f /\ f # NoEntry
      /\ T.queue = S.queue /\ T.conn = S.conn /\ T.delayed = S.delayed
  BY <1>2, <1>4, HotUpdate
<1> HIDE DEF T
<1> QED BY <1>1, <1>2, <1>5 DEF Counts

(* Cache_finish_msg: the entry is complete, its reference given back (but  *)
(* for a mismatch found while the connection closes), and it has no        *)
(* clients left.                                                           *)
Finished(S, F, u) ==
  /\ IF S.conn[u] = "open"
     THEN F.conn[u] = "open" \/ (F.conn[u] = "none" /\ F.entry[u] = NoEntry)
     ELSE F.conn[u] = S.conn[u]
  /\ F.entry[u] # NoEntry =>
       /\ ~F.entry[u].InProgress /\ Counted(F.entry[u])
       /\ F.entry[u].GotHeader = S.entry[u].GotHeader
  /\ Fed(S, {u}) =>
       /\ Fed(F, {u})
       /\ S.entry[u].GotHeader /\ F.entry[u] # NoEntry =>
            \A q \in ToSet(F.queue) : q.Url # u

\* Cache_finish_msg completes the entry and gives its reference back.
LEMMA FinishSound ==
  ASSUME NEW S, NEW u \in Urls, Sound(S, {u}), S.entry[u] # NoEntry,
         S.entry[u].InProgress, Counted(S.entry[u]), NEW starts \in BOOLEAN
  PROVE  LET F == Cache_finish_msg(S, u, starts) IN Sound(F, {u}) /\ Finished(S, F, u)
<1> DEFINE F == Cache_finish_msg(S, u, starts)
           e == S.entry[u]
           f == [e EXCEPT !.InProgress = FALSE]
           T == [S EXCEPT !.entry[u] = f]
           d == TRUE
           P == Cache_process_queue(T, u, d, starts)
<1>0. S \in CState /\ e \in Entries
  BY Fields DEF Sound
<1>1. [S EXCEPT !.entry[u].InProgress = FALSE] = T
  BY <1>0 DEF CState
<1>2. F = IF AbortEntry(T, u, TRUE) \/ ~P.entry[u].GotHeader THEN P
          ELSE Cache_unref_data(P, u)
  BY <1>1 DEF Cache_finish_msg
<1>3. /\ f \in Entries /\ ~f.InProgress
      /\ f.GotHeader = e.GotHeader /\ f.GotContentType = e.GotContentType
      /\ f.kind = e.kind /\ f.Location = e.Location /\ f.size = e.size
      /\ f.DataRefcount = e.DataRefcount
  BY <1>0 DEF Entries
<1>4. e.DataRefcount = (IF e.GotHeader THEN 1 ELSE 0) /\ e.GotHeader \in BOOLEAN
  BY <1>0 DEF Counted, Entries
<1> HIDE DEF f
<1>5. Targeted(f)
  BY <1>3 DEF Targeted, Sound
<1>6. /\ Sound(T, {u}) /\ (Fed(S, {u}) => Fed(T, {u}))
      /\ T.entry[u] = f /\ f # NoEntry
      /\ T.queue = S.queue /\ T.conn = S.conn /\ T.delayed = S.delayed
  BY <1>3, <1>5, HotUpdate, ZenonT(60)
<1> HIDE DEF T
<1>7. /\ Sound(P, {u}) /\ (Fed(T, {u}) => Fed(P, {u}))
      /\ ~AbortEntry(T, u, d) => Passed(T, P, u, d)
      /\ AbortEntry(T, u, d) => GivenUp(T, P, u)
  <2>1. d \in BOOLEAN
    OBVIOUS
  <2> HIDE DEF d
  <2> QED BY <1>6, <2>1, ProcessSound
<1> HIDE DEF P
<1>8. TypeKnown(T, u, TRUE) = e.GotHeader
  BY <1>3, <1>6, <1>4 DEF TypeKnown
<1>9. CASE AbortEntry(T, u, TRUE)
  <2>1. F = P
    BY <1>2, <1>9
  <2>2. P.entry[u] # NoEntry =>
           /\ ~P.entry[u].InProgress /\ Counted(P.entry[u])
           /\ P.entry[u].GotHeader = e.GotHeader
    BY <1>3, <1>4, <1>6, <1>7, <1>9 DEF Kept, Counted, GivenUp
  <2> HIDE DEF F
  <2> QED BY <2>1, <2>2, <1>6, <1>7, <1>9 DEF F, GivenUp, Finished
<1>10. CASE ~AbortEntry(T, u, TRUE)
  <2>1. P.conn[u] = S.conn[u] /\ Kept(f, P.entry[u]) /\ P.entry[u] # NoEntry
    BY <1>6, <1>7, <1>10, NullAssumption DEF Kept, Passed
  <2>2. e.GotHeader => P.entry[u].GotContentType /\ \A q \in ToSet(P.queue) : q.Url # u
    BY <1>3, <1>6, <1>7, <1>8, <1>10 DEF Passed
  <2>3. CASE ~P.entry[u].GotHeader
    <3>1. F = P
      BY <1>2, <2>3
    <3>2. ~P.entry[u].InProgress /\ Counted(P.entry[u]) /\ ~e.GotHeader
          /\ P.entry[u].GotHeader = e.GotHeader
      BY <1>3, <1>4, <2>1, <2>3 DEF Kept, Counted
    <3> HIDE DEF F
    <3> QED BY <3>1, <3>2, <2>1, <1>6, <1>7 DEF F, Finished
  <2>4. CASE P.entry[u].GotHeader
    <3> DEFINE m == -1
               W == Count(P, u, m)
    <3>1. F = Cache_unref_data(P, u)
      BY <1>2, <1>10, <2>4
    <3>2. e.GotHeader /\ P.entry[u].DataRefcount = 1 /\ P.entry[u] \in Entries
      BY <1>3, <1>4, <2>1, <2>4 DEF Kept
    <3>3. P \in CState
      BY <1>7 DEF Sound
    <3>4. F = W
      <4>1. P.entry[u].DataRefcount - 1 = P.entry[u].DataRefcount + (-1)
        BY <3>2
      <4> QED BY <3>1, <3>3, <4>1 DEF Cache_unref_data, CState, Count
    <3>5. P.entry[u].DataRefcount + m \in -1 .. 2 /\ m \in Int /\ 1 + m = 0
      BY <3>2
    <3> HIDE DEF m
    <3>6. /\ Sound(W, {u}) /\ (Fed(P, {u}) => Fed(W, {u}))
          /\ Counts(P, W, u) /\ W.entry[u] # NoEntry
          /\ W.entry[u].DataRefcount = P.entry[u].DataRefcount + m
      BY <1>7, <2>1, <3>5, CountSound
    <3> HIDE DEF W
    <3>7. ~W.entry[u].InProgress /\ Counted(W.entry[u])
          /\ W.entry[u].GotHeader = e.GotHeader
      <4>1. W.entry[u].DataRefcount = 0
        BY <3>2, <3>5, <3>6
      <4>2. ~W.entry[u].InProgress /\ W.entry[u].GotHeader = e.GotHeader
        BY <1>3, <2>1, <3>6 DEF Kept, Counts
      <4>3. W.entry[u].GotContentType
        BY <2>2, <3>2, <3>6 DEF Counts
      <4> QED BY <4>1, <4>2, <4>3 DEF Counted
    <3> HIDE DEF F
    <3> QED BY <3>4, <3>6, <3>7, <2>1, <2>2, <1>6, <1>7 DEF F, Counts, Finished
  <2> QED BY <2>3, <2>4
<1> QED BY <1>9, <1>10

ReadInto(S, R, u, done) ==
  /\ R.conn[u] = "open" \/ (R.conn[u] = "none" /\ R.entry[u] = NoEntry)
  /\ R.conn[u] = "open" /\ ~done => R.entry[u] # NoEntry
  /\ R.entry[u] # NoEntry =>
       /\ Counted(R.entry[u]) /\ R.entry[u].GotHeader
       /\ R.entry[u].InProgress <=> ~done
       /\ done /\ Fed(S, {u}) => \A q \in ToSet(R.queue) : q.Url # u

(* Data arrive for the entry of an open connection: it stays in progress,  *)
(* is complete when they were the last, or is gone with the connection.    *)
LEMMA ReadSound ==
  ASSUME NEW S, NEW u \in Urls, Sound(S, {u}), S.entry[u] # NoEntry,
         S.conn[u] = "open", S.entry[u].InProgress, Counted(S.entry[u]),
         NEW hdr, hdr.kind \in Kinds, hdr.Location \in Urls \cup {NoUrl},
         IsRedirect(hdr.kind) <=> hdr.Location # NoUrl,
         NEW more \in Nat, S.entry[u].size + more <= MaxData,
         NEW detect \in BOOLEAN, NEW done \in BOOLEAN, NEW starts \in BOOLEAN
  PROVE  LET R == IORead(S, u, hdr, more, detect, done, starts) IN
         /\ Sound(R, {u}) /\ (Fed(S, {u}) => Fed(R, {u}))
         /\ ReadInto(S, R, u, done)
<1> DEFINE e == S.entry[u]
           R == IORead(S, u, hdr, more, detect, done, starts)
           g == IF e.GotHeader THEN e
                ELSE [e EXCEPT !.GotHeader = TRUE, !.kind = hdr.kind,
                               !.Location = hdr.Location, !.DataRefcount = @ + 1]
           f == [g EXCEPT !.size = @ + more]
           D == [S EXCEPT !.entry[u] = f]
           P == Cache_process_queue(D, u, detect, starts)
<1>0. S \in CState /\ e \in Entries /\ MaxData \in Nat
  BY Fields, BoundAssumption DEF Sound
<1>1. [Cache_parse_header(S, u, hdr.kind, hdr.Location) EXCEPT !.entry[u].size = @ + more] = D
  <2>1. CASE e.GotHeader
    <3>1. Cache_parse_header(S, u, hdr.kind, hdr.Location) = S /\ g = e
      BY <2>1 DEF Cache_parse_header
    <3>2. [S EXCEPT !.entry[u].size = @ + more] = [S EXCEPT !.entry[u] = [e EXCEPT !.size = @ + more]]
      BY <1>0 DEF CState
    <3> QED BY <3>1, <3>2
  <2>2. CASE ~e.GotHeader
    <3> DEFINE a == [e EXCEPT !.GotHeader = TRUE, !.kind = hdr.kind,
                              !.Location = hdr.Location]
               A == [S EXCEPT !.entry[u] = a]
               b == [a EXCEPT !.DataRefcount = @ + 1]
               B == [S EXCEPT !.entry[u] = b]
    <3>1. Cache_parse_header(S, u, hdr.kind, hdr.Location) =
            [A EXCEPT !.entry[u].DataRefcount = @ + 1]
      <4>1. Cache_parse_header(S, u, hdr.kind, hdr.Location) =
              Cache_ref_data([S EXCEPT !.entry[u].GotHeader = TRUE,
                                       !.entry[u].kind = hdr.kind,
                                       !.entry[u].Location = hdr.Location], u)
        BY <2>2 DEF Cache_parse_header
      <4>2. [S EXCEPT !.entry[u].GotHeader = TRUE, !.entry[u].kind = hdr.kind,
                      !.entry[u].Location = hdr.Location] = A
        BY <1>0 DEF CState
      <4> HIDE DEF A
      <4> QED BY <4>1, <4>2 DEF Cache_ref_data
    <3>2. S.entry \in [Urls -> Entries \cup {NoEntry}]
      BY <1>0, Fields
    <3> HIDE DEF a
    <3>3. [A EXCEPT !.entry[u].DataRefcount = @ + 1] = B
      BY <1>0, <3>2 DEF CState
    <3> HIDE DEF b, A
    <3>4. [B EXCEPT !.entry[u].size = @ + more] = [S EXCEPT !.entry[u] = [b EXCEPT !.size = @ + more]]
      BY <1>0, <3>2 DEF CState
    <3>5. g = b
      BY <1>0, <2>2 DEF a, b, Entries
    <3> HIDE DEF B, g
    <3> QED BY <3>1, <3>3, <3>4, <3>5
  <2> QED BY <2>1, <2>2
<1>2. R = IF done /\ ~AbortEntry(D, u, detect) THEN Cache_finish_msg(P, u, starts) ELSE P
  BY <1>1 DEF IORead
<1>3. /\ f \in Entries /\ f.GotHeader /\ f.InProgress /\ f.DataRefcount = 1
      /\ f.GotContentType = e.GotContentType
      /\ IsRedirect(f.kind) <=> f.Location # NoUrl
  <2>1. e.size + more \in 0 .. MaxData
    BY <1>0 DEF Entries
  <2>2. CASE e.GotHeader
    <3>1. e.DataRefcount = 1 /\ (IsRedirect(e.kind) <=> e.Location # NoUrl)
      BY <2>2 DEF Counted, Sound, Targeted
    <3>2. f = [e EXCEPT !.size = e.size + more]
      BY <2>2, <1>0 DEF Entries
    <3> HIDE DEF f
    <3> QED BY <1>0, <2>1, <2>2, <3>1, <3>2 DEF Entries
  <2>3. CASE ~e.GotHeader
    <3>1. e.DataRefcount = 0
      BY <2>3 DEF Counted
    <3>2. f = [e EXCEPT !.GotHeader = TRUE, !.kind = hdr.kind, !.Location = hdr.Location,
                        !.DataRefcount = 1, !.size = e.size + more]
      BY <2>3, <3>1, <1>0 DEF Entries
    <3> HIDE DEF f
    <3>3. f \in Entries
      <4>1. f = [InProgress |-> e.InProgress, GotHeader |-> TRUE,
                 GotContentType |-> e.GotContentType, RedirectLoop |-> e.RedirectLoop,
                 kind |-> hdr.kind, Location |-> hdr.Location,
                 size |-> e.size + more, DataRefcount |-> 1]
        BY <1>0, <3>2 DEF Entries
      <4>2. /\ e.InProgress \in BOOLEAN /\ e.GotContentType \in BOOLEAN
            /\ e.RedirectLoop \in BOOLEAN
        BY <1>0 DEF Entries
      <4> DEFINE z == e.size + more
      <4> HIDE DEF z, e
      <4> QED BY <4>1, <4>2, <2>1 DEF Entries, z
    <3>4. /\ f.GotHeader /\ f.InProgress /\ f.DataRefcount = 1
          /\ f.GotContentType = e.GotContentType
          /\ f.kind = hdr.kind /\ f.Location = hdr.Location
      BY <1>0, <3>2 DEF Entries
    <3> QED BY <3>3, <3>4
  <2> QED BY <2>2, <2>3
<1> HIDE DEF f
<1>4. Targeted(f)
  BY <1>3 DEF Targeted
<1>5. /\ Sound(D, {u}) /\ (Fed(S, {u}) => Fed(D, {u}))
      /\ D.entry[u] = f /\ f # NoEntry
      /\ D.queue = S.queue /\ D.conn = S.conn /\ D.delayed = S.delayed
  <2> HIDE DEF P, R
  <2>1. f \in Entries /\ f.GotHeader /\ f.GotContentType = S.entry[u].GotContentType
    BY <1>3
  <2> QED BY <2>1, <1>4, HotUpdate, ZenonT(60)
<1> HIDE DEF D
<1>6. /\ Sound(P, {u}) /\ (Fed(D, {u}) => Fed(P, {u}))
      /\ ~AbortEntry(D, u, detect) => Passed(D, P, u, detect)
      /\ AbortEntry(D, u, detect) => GivenUp(D, P, u)
  BY <1>5, ProcessSound
<1> HIDE DEF P, R
<1>7. CASE AbortEntry(D, u, detect)
  <2>1. R = P
    BY <1>2, <1>7
  <2>2. P.conn[u] = "none" /\ P.entry[u] = NoEntry
    BY <1>5, <1>6, <1>7 DEF GivenUp
  <2>3. ReadInto(S, P, u, done)
    BY <2>2 DEF ReadInto
  <2> QED BY <2>1, <2>3, <1>5, <1>6 DEF R
<1>8. CASE ~AbortEntry(D, u, detect)
  <2>1. P.conn[u] = "open" /\ Kept(f, P.entry[u])
    BY <1>5, <1>6, <1>8 DEF Passed
  <2>2. /\ P.entry[u].InProgress /\ P.entry[u].GotHeader /\ P.entry[u].DataRefcount = 1
        /\ P.entry[u] # NoEntry
    <3>1. /\ P.entry[u] \in Entries /\ P.entry[u].InProgress = f.InProgress
          /\ P.entry[u].GotHeader = f.GotHeader
          /\ P.entry[u].DataRefcount = f.DataRefcount
      BY <2>1 DEF Kept
    <3>2. P.entry[u].InProgress /\ P.entry[u].GotHeader
      BY <1>3, <3>1, Zenon
    <3>3. P.entry[u].DataRefcount = 1
      BY <1>3, <3>1
    <3> QED BY <3>1, <3>2, <3>3, NullAssumption
  <2>3. Counted(P.entry[u])
    BY <2>2 DEF Counted
  <2>4. CASE ~done
    <3>1. R = P
      BY <1>2, <2>4
    <3>2. ReadInto(S, P, u, done)
      BY <2>1, <2>2, <2>3, <2>4 DEF ReadInto
    <3> QED BY <3>1, <3>2, <1>5, <1>6 DEF R
  <2>5. CASE done
    <3> DEFINE F == Cache_finish_msg(P, u, starts)
    <3>1. R = F
      BY <1>2, <1>8, <2>5
    <3>2. Sound(F, {u}) /\ Finished(P, F, u)
      BY <1>6, <2>2, <2>3, FinishSound
    <3> HIDE DEF F
    <3>3. F.conn[u] = "open" \/ (F.conn[u] = "none" /\ F.entry[u] = NoEntry)
      BY <3>2, <2>1 DEF Finished
    <3>4. Fed(S, {u}) => Fed(P, {u}) /\ Fed(F, {u})
      BY <3>2, <1>5, <1>6 DEF Finished
    <3>5. F.entry[u] # NoEntry => Counted(F.entry[u]) /\ ~F.entry[u].InProgress
      BY <3>2 DEF Finished
    <3>6. F.entry[u] # NoEntry => F.entry[u].GotHeader
      BY <3>2, <2>2, Zenon DEF Finished
    <3>7. F.entry[u] # NoEntry /\ Fed(S, {u}) => \A q \in ToSet(F.queue) : q.Url # u
      BY <3>2, <3>4, <2>2 DEF Finished
    <3>8. ReadInto(S, F, u, done)
      BY <3>3, <3>5, <3>6, <3>7, <2>5 DEF ReadInto
    <3> QED BY <3>1, <3>2, <3>4, <3>8 DEF R
  <2> QED BY <2>4, <2>5
<1> QED BY <1>7, <1>8

(* The connection failed: what has come is all, or the clients are let go. *)
LEMMA IOAbortSound ==
  ASSUME NEW S, NEW u \in Urls, Sound(S, {u}), S.entry[u] # NoEntry,
         S.entry[u].InProgress, Counted(S.entry[u]), NEW starts \in BOOLEAN
  PROVE  LET R == IOAbort(S, u, starts) IN
         /\ Sound(R, {u}) /\ (Fed(S, {u}) => Fed(R, {u}))
         /\ IF S.conn[u] = "open"
            THEN R.conn[u] = "open" \/ (R.conn[u] = "none" /\ R.entry[u] = NoEntry)
            ELSE R.conn[u] = S.conn[u]
         /\ R.entry[u] # NoEntry => Counted(R.entry[u])
         /\ S.entry[u].size > 0 /\ Fed(S, {u}) /\ R.entry[u] # NoEntry =>
              /\ ~R.entry[u].InProgress /\ R.entry[u].GotHeader
              /\ \A q \in ToSet(R.queue) : q.Url # u
<1> DEFINE R == IOAbort(S, u, starts)
<1>0. S \in CState /\ S.entry[u] \in Entries /\ S.entry[u].size \in 0 .. MaxData
  BY Fields DEF Sound, Entries
<1>1. CASE S.entry[u].size > 0
  <2> DEFINE F == Cache_finish_msg(S, u, starts)
  <2>1. R = F
    BY <1>1 DEF IOAbort
  <2>2. Sound(F, {u}) /\ Finished(S, F, u)
    BY FinishSound
  <2> HIDE DEF F
  <2>3. Fed(S, {u}) => S.entry[u].GotHeader
    BY <1>1, <1>0 DEF Fed
  <2> HIDE DEF R
  <2> QED BY <2>1, <2>2, <2>3 DEF R, Finished
<1>2. CASE ~(S.entry[u].size > 0)
  <2> DEFINE D == Dequeue(S, Waiting(S, u))
  <2>1. R = D
    BY <1>2 DEF IOAbort
  <2>2. /\ D \in CState
        /\ D.entry = S.entry /\ D.delayed = S.delayed /\ D.timer = S.timer
        /\ D.conn = S.conn
        /\ ToSet(D.queue) = ToSet(S.queue) \ Waiting(S, u)
    BY <1>0, DequeueFields
  <2> HIDE DEF D
  <2>3. Sound(D, {u}) /\ (Fed(S, {u}) => Fed(D, {u}))
    BY <2>2, FewerClients
  <2> HIDE DEF R
  <2> QED BY <2>1, <2>2, <2>3, <1>2 DEF R
<1> QED BY <1>1, <1>2

-----------------------------------------------------------------------------
(***************************************************************************)
(* The handlers.                                                           *)
(***************************************************************************)
Inv  == Sound(State, {}) /\ at \in {"loop", "delayed"}
FInv == Inv /\ Fed(State, {})

(* The answer of u begins and ends to be handled.                          *)
LEMMA Heat ==
  ASSUME NEW S, Sound(S, {}), NEW u
  PROVE  Sound(S, {u}) /\ (Fed(S, {}) => Fed(S, {u}))
BY DEF Sound, Fed

\* A handled url that is paired again is handled no more.
LEMMA Cool ==
  ASSUME NEW S, NEW u \in Urls, Sound(S, {u}), Paired(S.entry[u], S.conn[u])
  PROVE  Sound(S, {})
BY DEF Sound

\* The same for what feeds the clients.
LEMMA CoolFed ==
  ASSUME NEW S, NEW u \in Urls, Fed(S, {u}),
         S.entry[u] # NoEntry =>
           IF S.entry[u].InProgress THEN S.conn[u] = "open"
           ELSE S.entry[u].GotHeader /\ \A q \in ToSet(S.queue) : q.Url # u,
         S.entry[u] = NoEntry => \A q \in ToSet(S.queue) : q.Url # u
  PROVE  Fed(S, {})
<1>1. \A v \in Urls \ {} : S.entry[v] # NoEntry =>
        IF S.entry[v].InProgress THEN S.conn[v] = "open" ELSE S.entry[v].GotHeader
  BY DEF Fed
<1>2. \A q \in ToSet(S.queue) : q.Url \notin {} /\ ~S.entry[q.Url].InProgress =>
        q.Url \in ToSet(S.delayed)
  BY DEF Fed
<1> QED BY <1>1, <1>2 DEF Fed

\* A url may leave the delayed queue when its clients are served.
LEMMA UndelaySound ==
  ASSUME NEW S, NEW X, Sound(S, X), NEW u \in Urls
  PROVE  LET V == Undelay(S, u) IN
         /\ Sound(V, X)
         /\ Fed(S, X) /\ (u \in X \/ \A q \in ToSet(S.queue) : q.Url = u =>
              S.entry[u].InProgress) => Fed(V, X)
         /\ V.entry = S.entry /\ V.conn = S.conn /\ V.queue = S.queue
<1> DEFINE V == Undelay(S, u)
<1>1. /\ V \in CState
      /\ V.entry = S.entry /\ V.queue = S.queue /\ V.timer = S.timer
      /\ V.conn = S.conn /\ V.level = S.level
      /\ ToSet(V.delayed) = ToSet(S.delayed) \ {u}
  BY UndelayFields DEF Sound
<1> HIDE DEF V
<1>2. Sound(V, X)
  BY <1>1 DEF Sound
<1>3. ASSUME Fed(S, X), u \in X \/ \A q \in ToSet(S.queue) : q.Url = u =>
                          S.entry[u].InProgress
      PROVE  Fed(V, X)
  <2>1. \A q \in ToSet(V.queue) : q.Url \notin X /\ ~V.entry[q.Url].InProgress =>
          q.Url \in ToSet(V.delayed)
    BY <1>1, <1>3 DEF Fed
  <2> QED BY <1>1, <1>3, <2>1 DEF Fed
<1> QED BY <1>1, <1>2, <1>3 DEF V

\* Become assigns the state of the handler.
LEMMA BecomeState ==
  ASSUME NEW R \in CState, Become(R)
  PROVE  State' = R
BY DEF Become, State, CState

\* The end of a connection keeps the state sound.
LEMMA EndSound ==
  ASSUME NEW S, NEW u \in Urls, Sound(S, {u}),
         S.entry[u] # NoEntry => Counted(S.entry[u])
  PROVE  LET V == EndConn(S, u) IN
         /\ Sound(V, {})
         /\ Fed(S, {u}) /\ (S.entry[u] # NoEntry =>
              /\ ~S.entry[u].InProgress /\ S.entry[u].GotHeader
              /\ \A q \in ToSet(S.queue) : q.Url # u) => Fed(V, {})
<1> DEFINE V == EndConn(S, u)
<1>1. S \in CState /\ \A q \in ToSet(S.queue) : S.entry[q.Url] # NoEntry
  BY DEF Sound
<1>2. V = [S EXCEPT !.conn[u] = "none"]
  BY DEF EndConn
<1>3. /\ V \in CState /\ V.conn[u] = "none"
      /\ V.entry = S.entry /\ V.queue = S.queue /\ V.delayed = S.delayed
  BY <1>1, <1>2, Conns, ConnFields
<1>4. Sound(V, {u}) /\ (Fed(S, {u}) => Fed(V, {u}))
  <2>1. {u} \cup {u} = {u}
    OBVIOUS
  <2> QED BY <1>2, <2>1, Conns, ConnSound
<1> HIDE DEF V
<1>5. Sound(V, {})
  <2>1. Paired(V.entry[u], V.conn[u])
    BY <1>3 DEF Paired
  <2> QED BY <1>4, <2>1, Cool
<1>6. ASSUME Fed(S, {u}), S.entry[u] # NoEntry =>
               /\ ~S.entry[u].InProgress /\ S.entry[u].GotHeader
               /\ \A q \in ToSet(S.queue) : q.Url # u
      PROVE  Fed(V, {})
  <2>1. S.entry[u] = NoEntry => \A q \in ToSet(S.queue) : q.Url # u
    BY <1>1
  <2> QED BY <1>3, <1>4, <1>6, <2>1, CoolFed
<1> QED BY <1>5, <1>6 DEF V

\* One lemma for each action: a user asks for a url,
LEMMA OpenStep ==
  ASSUME Sound(State, {}),
         NEW c \in Clients, NEW u \in Urls, NEW e2e \in BOOLEAN, NEW starts \in BOOLEAN,
         Open(c, u, e2e, starts)
  PROVE  Sound(State', {}) /\ (Fed(State, {}) => Fed(State', {}))
<1> DEFINE V == a_Capi_open_url(State, c, u, e2e, starts)
<1>1. Sound(V, {}) /\ (Fed(State, {}) => Fed(V, {}))
  <2>1. u \notin {}
    OBVIOUS
  <2> QED BY <2>1, OpenSound
<1>2. Become(V)
  BY DEF Open
<1> HIDE DEF V
<1>3. State' = V
  BY <1>1, <1>2, BecomeState DEF Sound
<1> QED BY <1>1, <1>3

\* stops a client,
LEMMA StopStep ==
  ASSUME Sound(State, {}), NEW c \in Clients, NEW force \in BOOLEAN, Stop(c, force)
  PROVE  /\ Sound(State', {})
         /\ Mishaps = {} /\ Fed(State, {}) => Fed(State', {})
<1> DEFINE S == State
<1>0. S \in CState /\ S.queue = ClientQueue /\ S.delayed = DelayedQueue
  BY DEF Sound, State
<1>1. PICK i \in 1 .. Len(ClientQueue) :
        LET q == ClientQueue[i]
            unique == Of(State, q.Url) = {i}
            A == IF unique /\ (force \/ q.BufSize = 0)
                 THEN a_Capi_conn_abort_by_url(State, q.Url) ELSE State
        IN /\ unique \/ q.Url \notin ToSet(DelayedQueue) \/ "shared_stop" \in Mishaps
           /\ q.key = c
           /\ Become(IF c \in Keys(A.queue)
                     THEN Dequeue(Undelay(A, q.Url),
                                  {r \in ToSet(A.queue) : r.key = c}) ELSE A)
  BY Zenon DEF Stop
<1> DEFINE q == ClientQueue[i]
           u == q.Url
           unique == Of(State, u) = {i}
           A == IF unique /\ (force \/ q.BufSize = 0)
                THEN a_Capi_conn_abort_by_url(State, u) ELSE State
           U == Undelay(A, u)
           gone == {r \in ToSet(A.queue) : r.key = c}
           D == Dequeue(U, gone)
<1>2. q \in ToSet(S.queue) /\ u \in Urls
  BY <1>0, ToSetIn, Fields
<1>3. Sound(A, {}) /\ (Fed(S, {}) => Fed(A, {}))
      /\ (A = S \/ \A r \in ToSet(A.queue) : r.Url # u)
  <2> DEFINE B == a_Capi_conn_abort_by_url(S, u)
  <2>1. /\ Sound(B, {}) /\ (Fed(S, {}) => Fed(B, {}))
        /\ IF S.conn[u] = "open" THEN Without(S, B, u) /\ B.conn[u] = "none" ELSE B = S
    BY <1>2, AbortSound
  <2>2. A = S \/ A = B
    OBVIOUS
  <2> HIDE DEF A, B
  <2>3. B = S \/ \A r \in ToSet(B.queue) : r.Url # u
    BY <2>1 DEF Without
  <2> QED BY <2>1, <2>2, <2>3
<1>4. unique \/ u \notin ToSet(S.delayed) \/ "shared_stop" \in Mishaps
  BY <1>0, <1>1
<1>5. \A r \in ToSet(S.queue) : unique /\ r.Url = u => r = q
  <2> SUFFICES ASSUME unique, NEW r \in ToSet(S.queue), r.Url = u PROVE r = q
    OBVIOUS
  <2>1. S.queue \in Seq(Queued)
    BY <1>0, Fields
  <2>2. PICK j \in 1 .. Len(S.queue) : S.queue[j] = r
    BY <2>1, ToSetIn
  <2>3. j \in Of(S, u)
    BY <2>2 DEF Of
  <2> QED BY <1>0, <2>2, <2>3
<1>6. q.key = c /\ Become(IF c \in Keys(A.queue) THEN D ELSE A)
  BY <1>1
<1> HIDE DEF A
<1>7. /\ U \in CState
      /\ U.entry = A.entry /\ U.queue = A.queue /\ U.timer = A.timer
      /\ U.conn = A.conn /\ U.level = A.level
      /\ ToSet(U.delayed) = ToSet(A.delayed) \ {u}
  BY <1>2, <1>3, UndelayFields DEF Sound
<1>8. Sound(U, {})
  BY <1>2, <1>3, UndelaySound
<1> HIDE DEF U
<1>9. /\ D \in CState
      /\ D.entry = U.entry /\ D.delayed = U.delayed /\ D.timer = U.timer
      /\ D.conn = U.conn
      /\ ToSet(D.queue) = ToSet(U.queue) \ gone
  BY <1>7, DequeueFields
<1> HIDE DEF D
<1>10. Sound(D, {})
  BY <1>8, <1>9, FewerClients
<1>11. ASSUME Mishaps = {}, Fed(S, {}) PROVE Fed(D, {})
  <2>1. \A r \in ToSet(D.queue) : r.Url = u => u \notin ToSet(A.delayed)
    BY <1>3, <1>4, <1>5, <1>6, <1>7, <1>9, <1>11
  <2>2. \A r \in ToSet(D.queue) : r.Url \notin {} /\ ~D.entry[r.Url].InProgress =>
          r.Url \in ToSet(D.delayed)
    BY <1>3, <1>7, <1>9, <1>11, <2>1 DEF Fed
  <2>3. \A r \in ToSet(D.queue) : r.Callback => D.entry[r.Url].GotContentType
    BY <1>3, <1>7, <1>9, <1>11 DEF Fed
  <2> QED BY <1>3, <1>7, <1>9, <1>11, <2>2, <2>3 DEF Fed
<1>12. CASE c \in Keys(A.queue)
  <2>1. State' = D
    BY <1>6, <1>9, <1>12, BecomeState
  <2> QED BY <2>1, <1>10, <1>11
<1>13. CASE c \notin Keys(A.queue)
  <2>1. State' = A
    BY <1>6, <1>3, <1>13, BecomeState DEF Sound
  <2> QED BY <2>1, <1>3
<1> QED BY <1>12, <1>13

(* What an open connection feeds.                                          *)
LEMMA OpenConn ==
  ASSUME NEW S, Sound(S, {}), NEW u \in Urls, S.conn[u] = "open"
  PROVE  /\ S.entry[u] # NoEntry /\ S.entry[u] \in Entries /\ S.entry[u].InProgress
         /\ Counted(S.entry[u]) /\ Targeted(S.entry[u])
<1>1. S.entry[u] \in Entries \cup {NoEntry}
  BY Fields DEF Sound
<1> QED BY <1>1 DEF Sound, Paired

\* data arrive,
LEMMA ReceiveStep ==
  ASSUME Sound(State, {}), NEW u \in Urls, Receive(u)
  PROVE  Sound(State', {}) /\ (Fed(State, {}) => Fed(State', {}))
<1> DEFINE S == State
           e == S.entry[u]
<1>1. PICK hdr \in Headers(u), more \in {0, 1}, detect \in BOOLEAN, done \in BOOLEAN :
      \E starts \in Starts(hdr.kind) :
        /\ CachedURLs[u].size + more <= MaxData
        /\ LET R == IORead(S, u, hdr, more, detect, done, starts)
           IN Become(IF done THEN EndConn(R, u) ELSE R)
  BY DEF Receive
<1>2. PICK starts \in Starts(hdr.kind) :
        /\ CachedURLs[u].size + more <= MaxData
        /\ LET R == IORead(S, u, hdr, more, detect, done, starts)
           IN Become(IF done THEN EndConn(R, u) ELSE R)
  BY <1>1
<1> DEFINE R == IORead(S, u, hdr, more, detect, done, starts)
           V == EndConn(R, u)
<1>3. S.conn[u] = "open" /\ e = CachedURLs[u] /\ starts \in BOOLEAN /\ more \in Nat
  <2>1. S.conn[u] = "open" /\ e = CachedURLs[u]
    BY DEF Receive, State
  <2>2. starts \in BOOLEAN
    BY DEF Starts
  <2> QED BY <2>1, <2>2
<1>4. /\ e # NoEntry /\ e \in Entries /\ e.InProgress /\ Counted(e) /\ Targeted(e)
  BY <1>3, OpenConn
<1>5. /\ hdr.kind \in Kinds /\ hdr.Location \in Urls \cup {NoUrl}
      /\ IsRedirect(hdr.kind) <=> hdr.Location # NoUrl
  <2>1. CASE e.GotHeader
    <3>1. hdr = [kind |-> e.kind, Location |-> e.Location]
      BY <1>3, <2>1 DEF Headers
    <3>2. e.kind \in Kinds /\ e.Location \in Urls \cup {NoUrl}
      BY <1>4 DEF Entries
    <3> QED BY <3>1, <3>2, <2>1, <1>4 DEF Targeted
  <2>2. CASE ~e.GotHeader
    BY <1>3, <2>2 DEF Headers
  <2> QED BY <2>1, <2>2
<1>6. Sound(S, {u}) /\ (Fed(S, {}) => Fed(S, {u}))
  BY Heat
<1>7. /\ Sound(R, {u}) /\ (Fed(S, {u}) => Fed(R, {u}))
      /\ ReadInto(S, R, u, done)
  <2>1. S.entry[u].size + more <= MaxData
    BY <1>2, <1>3
  <2> HIDE DEF R
  <2> QED BY <1>3, <1>4, <1>5, <1>6, <2>1, ReadSound DEF R
<1>8. Become(IF done THEN V ELSE R)
  BY <1>2
<1> HIDE DEF R, S
<1>9. CASE done
  <2>1. R.entry[u] # NoEntry =>
          /\ Counted(R.entry[u])
          /\ ~R.entry[u].InProgress /\ R.entry[u].GotHeader
          /\ Fed(S, {u}) => \A q \in ToSet(R.queue) : q.Url # u
    BY <1>7, <1>9 DEF ReadInto
  <2>2. Sound(V, {}) /\ (Fed(S, {}) => Fed(V, {}))
    BY <1>6, <1>7, <2>1, EndSound
  <2> HIDE DEF V
  <2>3. State' = V
    BY <1>8, <1>9, <2>2, BecomeState DEF Sound
  <2> QED BY <2>2, <2>3 DEF S
<1>10. CASE ~done
  <2>1. Paired(R.entry[u], R.conn[u])
    BY <1>7, <1>10 DEF ReadInto, Paired
  <2>2. Sound(R, {})
    BY <1>7, <2>1, Cool
  <2>3. ASSUME Fed(S, {}) PROVE Fed(R, {})
    <3>1. R.entry[u] # NoEntry => R.entry[u].InProgress /\ R.conn[u] = "open"
      BY <1>7, <1>10 DEF ReadInto
    <3>2. R.entry[u] = NoEntry => \A q \in ToSet(R.queue) : q.Url # u
      BY <1>7 DEF Sound
    <3> QED BY <1>6, <1>7, <2>3, <3>1, <3>2, CoolFed
  <2>4. State' = R
    BY <1>8, <1>10, <2>2, BecomeState DEF Sound
  <2> QED BY <2>2, <2>3, <2>4 DEF S
<1> QED BY <1>9, <1>10

\* (a connection that is being closed)
LEMMA ClosingSound ==
  ASSUME NEW S, Sound(S, {}), NEW u \in Urls
  PROVE  LET C == Closing(S, u) IN
         /\ Sound(C, {u}) /\ (Fed(S, {}) => Fed(C, {u}))
         /\ C.entry = S.entry /\ C.conn[u] = "closing"
<1>1. S \in CState /\ {} \cup {u} = {u}
  BY DEF Sound
<1>2. Closing(S, u) = [S EXCEPT !.conn[u] = "closing"]
  BY DEF Closing
<1> DEFINE C == [S EXCEPT !.conn[u] = "closing"]
<1>3. C.entry = S.entry /\ C.conn[u] = "closing"
  BY <1>1, Conns, ConnFields, ZenonT(60)
<1>4. Sound(C, {} \cup {u}) /\ (Fed(S, {}) => Fed(C, {} \cup {u}))
  BY Conns, ConnSound
<1> HIDE DEF C
<1> QED BY <1>1, <1>2, <1>3, <1>4 DEF C

\* the server closes,
LEMMA CloseStep ==
  ASSUME Sound(State, {}), NEW u \in Urls, Close(u)
  PROVE  /\ Sound(State', {})
         /\ Mishaps = {} /\ Fed(State, {}) => Fed(State', {})
<1> DEFINE S == State
           C == Closing(S, u)
<1>1. PICK starts \in Starts(CachedURLs[u].kind) :
        Become(EndConn(IOClose(Closing(S, u), u, starts), u))
  BY DEF Close
<1> DEFINE F == Cache_finish_msg(C, u, starts)
           V == EndConn(F, u)
<1>2. /\ S.conn[u] = "open" /\ S.entry[u] = CachedURLs[u] /\ starts \in BOOLEAN
      /\ Mishaps = {} => S.entry[u].GotHeader
  BY DEF Close, State, Starts
<1>3. S.entry[u] # NoEntry /\ S.entry[u].InProgress /\ Counted(S.entry[u])
  BY <1>2, OpenConn
<1>4. /\ Sound(C, {u}) /\ (Fed(S, {}) => Fed(C, {u}))
      /\ C.entry = S.entry /\ C.conn[u] = "closing"
  BY ClosingSound
<1> HIDE DEF C
<1>5. Sound(F, {u}) /\ Finished(C, F, u)
  BY <1>2, <1>3, <1>4, FinishSound
<1>6. Become(V)
  BY <1>1, <1>3, <1>4 DEF IOClose, C
<1> HIDE DEF F, S
<1>7. Sound(V, {}) /\ (Mishaps = {} /\ Fed(S, {}) => Fed(V, {}))
  <2>1. F.entry[u] # NoEntry =>
          /\ Counted(F.entry[u]) /\ ~F.entry[u].InProgress
          /\ F.entry[u].GotHeader = S.entry[u].GotHeader
    BY <1>4, <1>5 DEF Finished
  <2>2. Sound(V, {})
    BY <1>5, <2>1, EndSound
  <2>3. ASSUME Mishaps = {}, Fed(S, {}) PROVE Fed(V, {})
    <3>1. Fed(F, {u}) /\ (F.entry[u] # NoEntry => \A q \in ToSet(F.queue) : q.Url # u)
      BY <1>2, <1>4, <1>5, <2>3 DEF Finished
    <3>2. F.entry[u] # NoEntry => F.entry[u].GotHeader
      BY <1>2, <2>1, <2>3
    <3> QED BY <1>5, <2>1, <3>1, <3>2, EndSound
  <2> QED BY <2>2, <2>3
<1> HIDE DEF V
<1>8. State' = V
  BY <1>6, <1>7, BecomeState DEF Sound
<1> QED BY <1>7, <1>8 DEF S

\* the connection fails,
LEMMA ConnFailsStep ==
  ASSUME Sound(State, {}), NEW u \in Urls, ConnFails(u)
  PROVE  Sound(State', {}) /\ (Fed(State, {}) => Fed(State', {}))
<1> DEFINE S == State
<1>1. PICK starts \in Starts(CachedURLs[u].kind) :
        Become(a_Capi_conn_abort_by_url(IOAbort(S, u, starts), u))
  BY DEF ConnFails
<1> DEFINE R == IOAbort(S, u, starts)
           V == a_Capi_conn_abort_by_url(R, u)
<1>2. S.conn[u] = "open" /\ starts \in BOOLEAN
  BY DEF ConnFails, State, Starts
<1>3. S.entry[u] # NoEntry /\ S.entry[u].InProgress /\ Counted(S.entry[u])
  BY <1>2, OpenConn
<1>4. Sound(S, {u}) /\ (Fed(S, {}) => Fed(S, {u}))
  BY Heat
<1> HIDE DEF S
<1>5. /\ Sound(R, {u}) /\ (Fed(S, {u}) => Fed(R, {u}))
      /\ R.conn[u] = "open" \/ (R.conn[u] = "none" /\ R.entry[u] = NoEntry)
  BY <1>2, <1>3, <1>4, IOAbortSound
<1>6. Become(V)
  BY <1>1
<1> HIDE DEF R
<1>7. /\ Sound(V, {u}) /\ (Fed(R, {u}) => Fed(V, {u}))
      /\ IF R.conn[u] = "open" THEN Without(R, V, u) /\ V.conn[u] = "none" ELSE V = R
  BY <1>5, AbortSound
<1> HIDE DEF V
<1>8. V.entry[u] = NoEntry /\ V.conn[u] = "none"
  BY <1>5, <1>7 DEF Without
<1>9. Sound(V, {})
  BY <1>7, <1>8, Cool DEF Paired
<1>10. Fed(S, {}) => Fed(V, {})
  <2>1. \A q \in ToSet(V.queue) : q.Url # u
    BY <1>7, <1>8 DEF Sound
  <2> QED BY <1>4, <1>5, <1>7, <1>8, <2>1, CoolFed
<1>11. State' = V
  BY <1>6, <1>9, BecomeState DEF Sound
<1> QED BY <1>9, <1>10, <1>11 DEF S

\* the read fails,
LEMMA ReadErrorStep ==
  ASSUME Sound(State, {}), NEW u \in Urls, ReadError(u)
  PROVE  /\ Sound(State', {})
         /\ Mishaps = {} /\ Fed(State, {}) => Fed(State', {})
<1> DEFINE S == State
           C == Closing(S, u)
<1>1. PICK starts \in Starts(CachedURLs[u].kind) :
        Become(EndConn(IOAbort(Closing(S, u), u, starts), u))
  BY DEF ReadError
<1> DEFINE R == IOAbort(C, u, starts)
           V == EndConn(R, u)
<1>2. /\ S.conn[u] = "open" /\ S.entry[u] = CachedURLs[u] /\ starts \in BOOLEAN
      /\ Mishaps = {} => S.entry[u].size > 0
  BY DEF ReadError, State, Starts
<1>3. S.entry[u] # NoEntry /\ S.entry[u].InProgress /\ Counted(S.entry[u])
  BY <1>2, OpenConn
<1>4. /\ Sound(C, {u}) /\ (Fed(S, {}) => Fed(C, {u}))
      /\ C.entry = S.entry /\ C.conn[u] = "closing"
  BY ClosingSound
<1>6. Become(V)
  BY <1>1
<1> HIDE DEF C, S
<1>5. /\ Sound(R, {u}) /\ (Fed(C, {u}) => Fed(R, {u}))
      /\ R.entry[u] # NoEntry => Counted(R.entry[u])
      /\ C.entry[u].size > 0 /\ Fed(C, {u}) /\ R.entry[u] # NoEntry =>
           /\ ~R.entry[u].InProgress /\ R.entry[u].GotHeader
           /\ \A q \in ToSet(R.queue) : q.Url # u
  BY <1>2, <1>3, <1>4, IOAbortSound
<1> HIDE DEF R
<1>7. Sound(V, {}) /\ (Mishaps = {} /\ Fed(S, {}) => Fed(V, {}))
  BY <1>2, <1>4, <1>5, EndSound
<1> HIDE DEF V
<1>8. State' = V
  BY <1>6, <1>7, BecomeState DEF Sound
<1> QED BY <1>7, <1>8 DEF S

\* the delayed callback processes an entry,
LEMMA DelayedTurnStep ==
  ASSUME Sound(State, {}), DelayedTurn
  PROVE  Sound(State', {}) /\ (Fed(State, {}) => Fed(State', {}))
<1> DEFINE S == State
           u == Head(DelayedQueue)
           e == S.entry[u]
           d == FALSE
           one == 1
           m == -1
           R == Count(S, u, one)
<1>1. PICK starts \in Starts(CachedURLs[u].kind) :
        Become(IF AbortEntry(Cache_ref_data(S, u), u, d)
               THEN Cache_process_queue(Cache_ref_data(S, u), u, d, starts)
               ELSE Undelay(Cache_unref_data(
                      Cache_process_queue(Cache_ref_data(S, u), u, d, starts), u), u))
  BY DEF DelayedTurn
<1> DEFINE P == Cache_process_queue(R, u, d, starts)
           W == Count(P, u, m)
           V == Undelay(W, u)
<1>2. /\ S \in CState /\ S.delayed = DelayedQueue /\ S.delayed \in Seq(Urls)
      /\ starts \in BOOLEAN /\ d \in BOOLEAN /\ one \in Int /\ m \in Int /\ one + m = 0
  <2>1. S \in CState
    BY DEF Sound
  <2>2. S.delayed \in Seq(Urls)
    BY <2>1, Fields
  <2>3. starts \in BOOLEAN
    BY DEF Starts
  <2> QED BY <2>1, <2>2, <2>3 DEF State
<1>3. u \in Urls /\ u \in ToSet(S.delayed)
  <2>1. DelayedQueue # <<>> /\ DelayedQueue \in Seq(Urls)
    BY <1>2 DEF DelayedTurn
  <2>2. 1 \in 1 .. Len(DelayedQueue) /\ Head(DelayedQueue) = DelayedQueue[1]
    BY <2>1
  <2> QED BY <1>2, <2>1, <2>2, ToSetIn
<1>4. e # NoEntry /\ e \in Entries /\ Counted(e) /\ Paired(e, S.conn[u])
  <2>1. e # NoEntry
    BY <1>3 DEF Sound
  <2>2. e \in Entries
    BY <1>2, <1>3, <2>1, Fields
  <2> QED BY <1>3, <2>1, <2>2 DEF Sound, Paired
<1>5. Sound(S, {u}) /\ (Fed(S, {}) => Fed(S, {u}))
  BY Heat
<1>6. Cache_ref_data(S, u) = R
  BY DEF Cache_ref_data, Count
<1>7. Become(IF AbortEntry(R, u, d) THEN P ELSE Undelay(Cache_unref_data(P, u), u))
  BY <1>1, <1>6
<1>8. e.DataRefcount + one \in -1 .. 2
  BY <1>4 DEF Counted
<1> HIDE DEF S, d, one, m, u
<1>9. /\ Sound(R, {u}) /\ (Fed(S, {u}) => Fed(R, {u}))
      /\ Counts(S, R, u) /\ R.entry[u] # NoEntry
      /\ R.entry[u].DataRefcount = e.DataRefcount + one
  BY <1>2, <1>3, <1>4, <1>5, <1>8, CountSound
<1> HIDE DEF R
<1>10. /\ Sound(P, {u}) /\ (Fed(R, {u}) => Fed(P, {u}))
       /\ ~AbortEntry(R, u, d) => Passed(R, P, u, d)
       /\ AbortEntry(R, u, d) => GivenUp(R, P, u)
  BY <1>2, <1>3, <1>9, ProcessSound
<1> HIDE DEF P
<1>11. R.conn = S.conn /\ R.entry[u].InProgress = e.InProgress
       /\ R.entry[u].GotHeader = e.GotHeader /\ R.entry[u].kind = e.kind
       /\ R.entry[u].GotContentType = e.GotContentType
  BY <1>9 DEF Counts
<1>12. CASE AbortEntry(R, u, d)
  <2>1. ~(e.kind = "mismatch" /\ ~e.GotContentType)
    <3>1. TypeKnown(R, u, d) /\ ~d
      BY <1>12 DEF AbortEntry, d
    <3>2. e.GotHeader /\ (e.GotContentType \/ ~e.InProgress)
      BY <3>1, <1>11 DEF TypeKnown
    <3> QED BY <3>2, <1>4 DEF Counted
  <2>2. P.entry[u] = NoEntry /\ (P.conn[u] = "none" \/ (P.conn[u] = S.conn[u] /\ S.conn[u] # "open"))
    BY <1>10, <1>11, <1>12, <2>1 DEF GivenUp
  <2>3. S.conn[u] \in ConnStates /\ S.conn[u] # "closing"
    BY <1>2, <1>3, <1>4, Fields DEF Paired
  <2>4. P.conn[u] = "none"
    BY <2>2, <2>3 DEF ConnStates
  <2>5. Sound(P, {})
    BY <1>3, <1>10, <2>2, <2>4, Cool DEF Paired
  <2>6. Fed(S, {}) => Fed(P, {})
    <3>1. \A q \in ToSet(P.queue) : q.Url # u
      BY <1>10, <2>2 DEF Sound
    <3> QED BY <1>3, <1>5, <1>9, <1>10, <2>2, <3>1, CoolFed
  <2>7. State' = P
    BY <1>7, <1>12, <2>5, BecomeState DEF Sound
  <2> QED BY <2>5, <2>6, <2>7 DEF S
<1>13. CASE ~AbortEntry(R, u, d)
  <2>1. /\ P.conn[u] = S.conn[u] /\ Kept(R.entry[u], P.entry[u])
        /\ P.entry[u].GotContentType <=> (R.entry[u].GotContentType \/ TypeKnown(R, u, d))
        /\ TypeKnown(R, u, d) /\ ~R.entry[u].InProgress =>
             \A q \in ToSet(P.queue) : q.Url # u
    BY <1>10, <1>11, <1>13 DEF Passed
  <2>2. /\ P.entry[u] \in Entries /\ P.entry[u] # NoEntry
        /\ P.entry[u].InProgress = e.InProgress /\ P.entry[u].GotHeader = e.GotHeader
        /\ P.entry[u].DataRefcount = e.DataRefcount + one
    BY <1>9, <1>11, <2>1, NullAssumption DEF Kept
  <2>3. P.entry[u].DataRefcount + m = e.DataRefcount
    <3>1. e.DataRefcount \in Int
      BY <1>4 DEF Counted
    <3> QED BY <2>2, <3>1, <1>2
  <2>4. P \in CState /\ e.DataRefcount \in -1 .. 2
    BY <1>4, <1>10 DEF Sound, Counted
  <2>5. Cache_unref_data(P, u) = W
    <3>1. P.entry[u].DataRefcount - 1 = P.entry[u].DataRefcount + m
      <4>1. P.entry[u].DataRefcount \in Int
        BY <2>2 DEF Entries
      <4> QED BY <4>1 DEF m
    <3> QED BY <2>4, <3>1 DEF Cache_unref_data, Count, CState
  <2>6. P.entry[u].DataRefcount + m \in -1 .. 2
    BY <2>3, <2>4
  <2>7. /\ Sound(W, {u}) /\ (Fed(P, {u}) => Fed(W, {u}))
        /\ Counts(P, W, u) /\ W.entry[u] # NoEntry
        /\ W.entry[u].DataRefcount = P.entry[u].DataRefcount + m
    BY <1>2, <1>3, <1>10, <2>2, <2>6, CountSound
  <2> HIDE DEF W
  <2>8. /\ W.entry[u].InProgress = e.InProgress /\ W.entry[u].GotHeader = e.GotHeader
        /\ W.entry[u].DataRefcount = e.DataRefcount
        /\ W.entry[u].GotContentType = P.entry[u].GotContentType
        /\ W.conn = P.conn /\ W.queue = P.queue
    BY <2>2, <2>3, <2>7 DEF Counts
  <2>9. e.GotContentType => W.entry[u].GotContentType
    BY <1>11, <2>1, <2>8, Zenon
  <2>10. Paired(W.entry[u], W.conn[u])
    <3>1. Counted(W.entry[u])
      <4>1. e.DataRefcount \in 0 .. 1
        BY <1>4 DEF Counted
      <4>2. W.entry[u].InProgress => W.entry[u].DataRefcount = IF W.entry[u].GotHeader THEN 1 ELSE 0
        BY <1>4, <2>8 DEF Counted
      <4>3. ~W.entry[u].InProgress /\ W.entry[u].GotHeader => W.entry[u].GotContentType
        BY <1>4, <2>8, <2>9 DEF Counted
      <4> QED BY <2>8, <4>1, <4>2, <4>3 DEF Counted
    <3>2. W.conn[u] = S.conn[u]
      BY <2>1, <2>8
    <3> QED BY <1>4, <2>7, <2>8, <3>1, <3>2 DEF Paired
  <2>11. Sound(W, {})
    BY <1>3, <2>7, <2>10, Cool
  <2>12. /\ Sound(V, {})
         /\ Fed(W, {}) /\ (\A q \in ToSet(W.queue) : q.Url = u =>
              W.entry[u].InProgress) => Fed(V, {})
    BY <1>3, <2>11, UndelaySound
  <2> HIDE DEF V
  <2>13. ASSUME Fed(S, {}) PROVE Fed(V, {})
    <3>1. IF e.InProgress THEN S.conn[u] = "open" ELSE e.GotHeader
      BY <1>3, <1>4, <2>13 DEF Fed
    <3>2. ~e.InProgress => \A q \in ToSet(W.queue) : q.Url # u
      BY <1>11, <2>1, <2>8, <3>1 DEF TypeKnown
    <3>3. W.conn[u] = S.conn[u]
      BY <2>1, <2>8
    <3>4. Fed(W, {u})
      BY <1>5, <1>9, <1>10, <2>7, <2>13
    <3>5. IF W.entry[u].InProgress THEN W.conn[u] = "open"
          ELSE W.entry[u].GotHeader /\ \A q \in ToSet(W.queue) : q.Url # u
      BY <2>8, <3>1, <3>2, <3>3
    <3>6. Fed(W, {})
      BY <1>3, <2>7, <3>4, <3>5, CoolFed
    <3>7. \A q \in ToSet(W.queue) : q.Url = u => W.entry[u].InProgress
      BY <2>8, <3>2
    <3> QED BY <2>12, <3>6, <3>7
  <2>14. State' = V
    BY <1>7, <1>13, <2>5, <2>12, BecomeState DEF Sound, V
  <2> QED BY <2>12, <2>13, <2>14 DEF S
<1> QED BY <1>12, <1>13

\* (nothing changes)
LEMMA SameState ==
  ASSUME UNCHANGED <<CachedURLs, ClientQueue, DelayedQueue, timer, conn, level>>
  PROVE  State' = State
BY DEF State

\* and ends.
LEMMA DelayedEndStep ==
  ASSUME Sound(State, {}), DelayedEnd
  PROVE  Sound(State', {}) /\ (Fed(State, {}) => Fed(State', {}))
<1>1. State \in CState /\ ToSet(State.delayed) = {}
  <2>1. State \in CState
    BY DEF Sound
  <2>2. State.delayed = <<>>
    BY DEF DelayedEnd, State
  <2> QED BY <2>1, <2>2 DEF ToSet
<1>2. /\ State'.entry = State.entry /\ State'.queue = State.queue
      /\ State'.delayed = State.delayed /\ State'.conn = State.conn
      /\ State'.level = State.level /\ State'.timer \in BOOLEAN
  BY DEF DelayedEnd, State
<1>3. State' \in CState
  <2>1. State' = [entry |-> State'.entry, queue |-> State'.queue,
                  delayed |-> State'.delayed, timer |-> State'.timer,
                  conn |-> State'.conn, level |-> State'.level]
    BY DEF State
  <2> HIDE DEF State
  <2> QED BY <1>1, <1>2, <2>1 DEF CState
<1>4. Sound(State', {})
  BY <1>1, <1>2, <1>3 DEF Sound
<1>5. Fed(State, {}) => Fed(State', {})
  BY <1>2 DEF Fed
<1> QED BY <1>4, <1>5

(* Every step of the cache keeps the invariant, and without mishaps also   *)
(* what feeds the clients.                                                 *)
LEMMA Step ==
  ASSUME Inv, [Next]_vars
  PROVE  /\ Inv'
         /\ Mishaps = {} /\ Fed(State, {}) => Fed(State', {})
<1>0. Sound(State, {}) /\ at \in {"loop", "delayed"}
  BY DEF Inv
<1> SUFFICES /\ Sound(State', {}) /\ at' \in {"loop", "delayed"}
             /\ Mishaps = {} /\ Fed(State, {}) => Fed(State', {})
  BY DEF Inv
<1>1. ASSUME NEW c \in Clients, NEW u \in Urls, NEW e2e \in BOOLEAN, NEW starts \in BOOLEAN,
             Open(c, u, e2e, starts)
      PROVE  /\ Sound(State', {}) /\ at' \in {"loop", "delayed"}
             /\ Mishaps = {} /\ Fed(State, {}) => Fed(State', {})
  <2>1. at' = at
    BY <1>1 DEF Open
  <2> QED BY <2>1, <1>0, <1>1, OpenStep
<1>2. ASSUME NEW c \in Clients, NEW force \in BOOLEAN, Stop(c, force)
      PROVE  /\ Sound(State', {}) /\ at' \in {"loop", "delayed"}
             /\ Mishaps = {} /\ Fed(State, {}) => Fed(State', {})
  <2>1. at' = at
    BY <1>2 DEF Stop
  <2> QED BY <2>1, <1>0, <1>2, StopStep
<1>3. ASSUME NEW u \in Urls, ConnEvent(u)
      PROVE  /\ Sound(State', {}) /\ at' \in {"loop", "delayed"}
             /\ Mishaps = {} /\ Fed(State, {}) => Fed(State', {})
  <2>1. at' = at
    BY <1>3 DEF ConnEvent, Receive, Close, ConnFails, ReadError
  <2>2. CASE Receive(u)
    BY <2>1, <2>2, <1>0, ReceiveStep
  <2>3. CASE Close(u)
    BY <2>1, <2>3, <1>0, CloseStep
  <2>4. CASE ConnFails(u)
    BY <2>1, <2>4, <1>0, ConnFailsStep
  <2>5. CASE ReadError(u)
    BY <2>1, <2>5, <1>0, ReadErrorStep
  <2> QED BY <1>3, <2>2, <2>3, <2>4, <2>5 DEF ConnEvent
<1>4. CASE Delayed
  <2>1. CASE DelayedStart
    <3>1. State' = State /\ at' = "delayed"
      BY <2>1, SameState DEF DelayedStart
    <3> QED BY <3>1, <1>0
  <2>2. CASE DelayedTurn
    <3>1. at' = at
      BY <2>2 DEF DelayedTurn
    <3> QED BY <2>2, <3>1, <1>0, DelayedTurnStep
  <2>3. CASE DelayedEnd
    <3>1. at' = "loop"
      BY <2>3 DEF DelayedEnd
    <3> QED BY <2>3, <3>1, <1>0, DelayedEndStep
  <2> QED BY <1>4, <2>1, <2>2, <2>3 DEF Delayed
<1>5. CASE UNCHANGED vars
  <2>1. State' = State /\ at' = at
    BY <1>5, SameState DEF vars
  <2> QED BY <2>1, <1>0
<1> QED BY <1>1, <1>2, <1>3, <1>4, <1>5 DEF Next

\* The invariant holds at first.
LEMMA InitInv ==
  ASSUME Init
  PROVE  FInv
<1>1. State = [entry |-> [u \in Urls |-> NoEntry], queue |-> <<>>, delayed |-> <<>>,
               timer |-> FALSE, conn |-> [u \in Urls |-> "none"],
               level |-> [w \in Windows |-> 0]]
  BY DEF State, Init
<1>2. /\ \A u \in Urls : State.entry[u] = NoEntry /\ State.conn[u] = "none"
      /\ ToSet(State.queue) = {} /\ ToSet(State.delayed) = {}
  BY <1>1 DEF ToSet
<1>3. State \in CState
  <2>1. 0 \in 0 .. MaxRedirects
    BY BoundAssumption
  <2>2. <<>> \in Seq(Queued) /\ <<>> \in Seq(Urls)
    OBVIOUS
  <2> QED BY <1>1, <2>1, <2>2 DEF CState, ConnStates
<1>4. Sound(State, {})
  BY <1>2, <1>3 DEF Sound, Paired
<1>5. Fed(State, {})
  BY <1>2 DEF Fed
<1>6. at \in {"loop", "delayed"}
  BY DEF Init
<1> QED BY <1>4, <1>5, <1>6 DEF Inv, FInv

(* The invariant in the terms of the properties.                           *)
LEMMA InvImplies ==
  ASSUME Inv
  PROVE  TypeOK /\ QueuesSound /\ ConnFeedsItsEntry /\ DataHeld
<1> DEFINE S == State
<1>0. S \in CState /\ Sound(S, {})
  BY DEF Inv, Sound
<1>1. /\ S.entry = CachedURLs /\ S.queue = ClientQueue /\ S.delayed = DelayedQueue
      /\ S.timer = timer /\ S.conn = conn /\ S.level = level
  BY DEF State
<1>2. /\ S.entry \in [Urls -> Entries \cup {NoEntry}]
      /\ S.queue \in Seq(Queued) /\ S.delayed \in Seq(Urls)
      /\ S.timer \in BOOLEAN
      /\ S.conn \in [Urls -> ConnStates]
      /\ S.level \in [Windows -> 0 .. MaxRedirects]
      /\ \A q \in ToSet(S.queue) : q \in Queued /\ q.Url \in Urls
      /\ \A v \in ToSet(S.delayed) : v \in Urls
  BY <1>0, Fields
<1> HIDE DEF S
<1>3. \A u \in Urls : Paired(S.entry[u], S.conn[u])
  BY <1>0 DEF Sound
<1>4. TypeOK
  <2>1. S.conn \in [Urls -> {"none", "open"}]
    BY <1>2, <1>3 DEF ConnStates, Paired
  <2>2. at \in {"loop", "delayed"}
    BY DEF Inv
  <2> QED BY <1>1, <1>2, <2>1, <2>2 DEF TypeOK
<1>5. QueuesSound
  <2>1. \A i \in 1 .. Len(ClientQueue) : Cached(ClientQueue[i].Url)
    <3> TAKE i \in 1 .. Len(ClientQueue)
    <3>1. ClientQueue[i] \in ToSet(S.queue)
      BY <1>1, <1>2, ToSetIn
    <3> QED BY <1>0, <1>1, <3>1 DEF Sound, Cached
  <2>2. \A i \in 1 .. Len(DelayedQueue) : Cached(DelayedQueue[i])
    <3> TAKE i \in 1 .. Len(DelayedQueue)
    <3>1. DelayedQueue[i] \in ToSet(S.delayed)
      BY <1>1, <1>2, ToSetIn
    <3> QED BY <1>0, <1>1, <3>1 DEF Sound, Cached
  <2>3. DelayedQueue # <<>> => timer
    <3>1. DelayedQueue # <<>> => ToSet(S.delayed) # {}
      BY <1>1, <1>2, EmptyList
    <3> QED BY <1>0, <1>1, <3>1 DEF Sound
  <2> QED BY <2>1, <2>2, <2>3 DEF QueuesSound, NothingDangles, DelayedIsScheduled
<1>6. ConnFeedsItsEntry
  BY <1>1, <1>3 DEF ConnFeedsItsEntry, Cached, Paired
<1>7. DataHeld
  <2> SUFFICES ASSUME NEW u \in Urls, Cached(u)
               PROVE  /\ CachedURLs[u].DataRefcount >= 0
                      /\ CachedURLs[u].InProgress => CachedURLs[u].DataRefcount =
                           IF CachedURLs[u].GotHeader THEN 1 ELSE 0
    BY DEF DataHeld
  <2>1. Counted(CachedURLs[u])
    BY <1>1, <1>3 DEF Cached, Paired
  <2> QED BY <2>1 DEF Counted
<1> QED BY <1>4, <1>5, <1>6, <1>7

\* Without mishaps, what feeds the clients in the terms of ClientsFed.
LEMMA FedImplies ==
  ASSUME FInv
  PROVE  ClientsFed
<1> DEFINE S == State
<1>0. S \in CState /\ Sound(S, {}) /\ Fed(S, {})
  BY DEF Inv, FInv, Sound
<1>1. /\ S.entry = CachedURLs /\ S.queue = ClientQueue /\ S.delayed = DelayedQueue
      /\ S.conn = conn
  BY DEF State
<1>2. ASSUME NEW u \in Urls, NEW q \in Clients_(u)
      PROVE  q \in ToSet(S.queue) /\ q.Url = u
  <2>1. S.queue \in Seq(Queued)
    BY <1>0, Fields
  <2>2. PICK i \in Of(S, u) : q = ClientQueue[i]
    BY <1>2 DEF Clients_
  <2>3. i \in 1 .. Len(S.queue) /\ S.queue[i].Url = u
    BY <2>2 DEF Of
  <2> QED BY <1>1, <2>1, <2>2, <2>3, ToSetIn
<1> HIDE DEF S
<1>3. ASSUME NEW u \in Urls, Clients_(u) # {}, CachedURLs[u].InProgress
      PROVE  conn[u] = "open"
  <2>1. PICK q \in Clients_(u) : q \in ToSet(S.queue) /\ q.Url = u
    BY <1>2, <1>3
  <2>2. S.entry[u] # NoEntry
    BY <1>0, <2>1 DEF Sound
  <2> QED BY <1>0, <1>1, <1>3, <2>2 DEF Fed
<1>4. ASSUME NEW u \in Urls, Clients_(u) # {}, ~CachedURLs[u].InProgress
      PROVE  u \in ToSet(DelayedQueue)
  <2>1. PICK q \in Clients_(u) : q \in ToSet(S.queue) /\ q.Url = u
    BY <1>2, <1>4
  <2> QED BY <1>0, <1>1, <1>4, <2>1 DEF Fed
<1> QED BY <1>3, <1>4 DEF ClientsFed, InProgressIsFed, CompleteIsServed

-----------------------------------------------------------------------------
(***************************************************************************)
(* The theorems.                                                           *)
(***************************************************************************)
(* Whatever the servers answer and whatever mishaps are let in, the cache  *)
(* keeps its invariant.                                                    *)
THEOREM Invariance == Spec => []Inv
<1>1. Init => Inv
  BY InitInv DEF FInv
<1>2. Inv /\ [Next]_vars => Inv'
  BY Step
<1> QED BY <1>1, <1>2, PTL DEF Spec

(* The variables of cache.c and capi.c keep their types; no connection is  *)
(* left half closed after the handler that ends it.                        *)
THEOREM TypeCorrect == Spec => []TypeOK
<1>1. Inv => TypeOK
  BY InvImplies
<1> QED BY <1>1, Invariance, PTL

(* Cache_entry_remove takes the clients of the entry and its place in      *)
(* DelayedQueue along, and what waits there has its timeout set.           *)
THEOREM QueuesAreSound == Spec => []QueuesSound
<1>1. Inv => QueuesSound
  BY InvImplies
<1> QED BY <1>1, Invariance, PTL

(* a_Cache_process_dbuf looks the entry up by its url: an open connection  *)
(* always finds the one that waits for its data.                           *)
THEOREM ConnsFeedTheirEntry == Spec => []ConnFeedsItsEntry
<1>1. Inv => ConnFeedsItsEntry
  BY InvImplies
<1> QED BY <1>1, Invariance, PTL

(* Cache_ref_data and Cache_unref_data are balanced: one reference from    *)
(* the header to the end of the data, and none is given back twice.        *)
THEOREM DataIsHeld == Spec => []DataHeld
<1>1. Inv => DataHeld
  BY InvImplies
<1> QED BY <1>1, Invariance, PTL

(* Without mishaps, each of which refutes it, every client of the cache    *)
(* has something to wait for: an open connection that feeds its entry, or  *)
(* the delayed callback, which will serve it.                              *)
THEOREM ClientsAreFed ==
  ASSUME Mishaps = {}
  PROVE  Spec => []ClientsFed
<1>1. Init => FInv
  BY InitInv
<1>2. FInv /\ [Next]_vars => FInv'
  BY Step DEF FInv
<1>3. FInv => ClientsFed
  BY FedImplies
<1> QED BY <1>1, <1>2, <1>3, PTL DEF Spec
=============================================================================
