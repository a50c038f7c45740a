------------------------------ MODULE Dicache ------------------------------
(***************************************************************************)
(* The cache of decoded images (src/src/dicache.c) for one url, with its   *)
(* clients in the memory cache (src/src/cache.c) and the pictures on the   *)
(* pages (src/src/image.cc, the widgets of dw).                            *)
(*                                                                         *)
(* One handler runs at a time and is one action: a composition of          *)
(* operators on the record S of all the state, in the order of the calls.  *)
(* A client is a place for the image on some page.  Its DilloImage belongs *)
(* to the request (web->Image) and is freed with it; its widget stays on   *)
(* the page with a reference to the decoded buffer.                        *)
(*                                                                         *)
(* The data are the number of pieces received.  What the decoder makes of  *)
(* a piece is any outcome the formats allow: nothing, the dimensions, rows *)
(* of the current scan, new scans.  A row is written once in a scan.       *)
(* "content" is the scan a row was last written in; 0 is a blank row.      *)
(***************************************************************************)
EXTENDS Integers, Sequences, SequencesExt, FiniteSetsExt, Lists

CONSTANTS Clients,
          Freed,         \* a DilloImage that is gone
          NoImage,       \* the decoder has dropped its DilloImage
          Height,        \* rows of the image
          MaxScan,       \* bound on the scans of a multiple-scan image
          MaxData,       \* bound on the pieces of data
          MaxVersion,    \* bound on the versions of the image
          SurvPasses,    \* clean-up passes an unused entry survives (3)
          Mishaps        \* events let in: "outlived" (an older version
                         \* is still there when the last one is removed and
                         \* the image is asked for again), "attachment"

ASSUME ClientAssumption == IsFiniteSet(Clients)
ASSUME NullAssumption == Freed \notin Clients /\ NoImage \notin Clients
ASSUME BoundAssumption ==
  /\ Height \in Nat \ {0} /\ MaxScan \in Nat /\ MaxData \in Nat \ {0}
  /\ MaxVersion \in Nat \ {0} /\ SurvPasses \in Nat
ASSUME MishapAssumption == Mishaps \subseteq {"outlived", "attachment"}

VARIABLES
  CachedIMGs,    \* the decoded versions, sorted
  ClientQueue,   \* the cache clients that wait for the url
  entry,         \* its entry in the memory cache: "none", "loading", "complete"
  size,          \* pieces of data in that entry
  delayed,       \* the entry is in DelayedQueue
  page           \* client -> the version its page shows, and the scan each
                 \* row was last drawn from (until the client is stopped)

vars == <<CachedIMGs, ClientQueue, entry, size, delayed, page>>

Rows    == 0 .. Height - 1
Content == [Rows -> 0 .. MaxScan + 1]
Blank   == [r \in Rows |-> 0]

\* Dicache_entry_new
NewEntry == [version |-> 1, last |-> TRUE, valid |-> TRUE, RefCount |-> 1,
             State |-> "Empty", imgbuf |-> FALSE, ScanNumber |-> 0,
             BitVec |-> {}, content |-> Blank, DecodedSize |-> 0,
             SurvCleanup |-> 0, Image |-> NoImage]

\* Cache_client_enqueue, with the fields of the client's DilloImage
NewClient(c) == [key |-> c, Callback |-> FALSE, Version |-> 0, CbData |-> 0,
                 sized |-> FALSE, ScanNumber |-> 0, BitVec |-> {}]

NoPage == [at |-> "none", shows |-> 0, drawn |-> Blank]

State == [imgs |-> CachedIMGs, queue |-> ClientQueue, entry |-> entry,
          size |-> size, delayed |-> delayed, page |-> page,
          reused |-> FALSE]    \* of this handler: see Become

Distinct(L) == \A i, j \in DOMAIN L : L[i].version = L[j].version => i = j

(* A version number is given out again only if that is let in.             *)
Become(S) ==
  /\ S.reused => "outlived" \in Mishaps
  /\ CachedIMGs' = S.imgs /\ ClientQueue' = S.queue
  /\ entry' = S.entry /\ size' = S.size /\ delayed' = S.delayed
  /\ page' = S.page

Init == /\ CachedIMGs = <<>> /\ ClientQueue = <<>>
        /\ entry = "none" /\ size = 0 /\ delayed = FALSE
        /\ page = [c \in Clients |-> NoPage]

Of(Q, k) == SelectInSeq(Q, LAMBDA q : q.key = k)

(***************************************************************************)
(* The list of entries.                                                    *)
(***************************************************************************)
\* a_Dicache_get_entry: the index of the version DIC_Last, or of v; 0: none
Current(L) == SelectInSeq(L, LAMBDA e : e.last /\ e.valid)
At(L, v)   == SelectInSeq(L, LAMBDA e : e.version = v)

(* A new version; its decoder gets the DilloImage of the client.           *)
Dicache_add_entry(L, c) ==
  LET i == SelectInSeq(L, LAMBDA e : e.last)
  IN Append([j \in DOMAIN L |-> [L[j] EXCEPT !.last = FALSE]],
            [NewEntry EXCEPT !.version = IF i = 0 THEN 1 ELSE L[i].version + 1,
                             !.Image = c])

\* Mutant: an entry without a buffer is left to the clean-up.
a_Dicache_unref_keeps(L, v) ==
  LET i == At(L, v) IN
    IF i = 0 \/ L[i].RefCount = 0 THEN L ELSE [L EXCEPT ![i].RefCount = @ - 1]

a_Dicache_unref(L, v) ==
  LET i == At(L, v)
      n == IF L[i].RefCount > 0 THEN L[i].RefCount - 1 ELSE 0
  IN IF i = 0 THEN L
     ELSE IF n = 0 /\ ~L[i].imgbuf THEN RemoveAt(L, i)
     ELSE [L EXCEPT ![i].RefCount = n]

a_Dicache_invalidate_entry(L) ==
  LET i == Current(L) IN IF i = 0 THEN L ELSE [L EXCEPT ![i].valid = FALSE]

\* No client, and no widget shows the buffer (a_Imgbuf_last_reference).
Unused(S, e) ==
  /\ e.RefCount = 0
  /\ e.imgbuf => \A c \in Clients : S.page[c].shows # e.version

\* Mutant: an entry is freed one pass late.
a_Dicache_cleanup_late(S) ==
  LET aged == [i \in DOMAIN S.imgs |->
                 IF Unused(S, S.imgs[i])
                 THEN [S.imgs[i] EXCEPT !.SurvCleanup = @ - 1] ELSE S.imgs[i]]
  IN [S EXCEPT !.imgs = Keep(aged, {e \in ToSet(aged) : e.SurvCleanup >= -1})]

\* Mutant: the references of widgets are not looked at.
a_Dicache_cleanup_shown(S) ==
  LET aged == [i \in DOMAIN S.imgs |->
                 IF S.imgs[i].RefCount = 0
                 THEN [S.imgs[i] EXCEPT !.SurvCleanup = @ - 1] ELSE S.imgs[i]]
  IN [S EXCEPT !.imgs = Keep(aged, {e \in ToSet(aged) : e.SurvCleanup >= 0})]

a_Dicache_cleanup(S) ==
  LET aged == [i \in DOMAIN S.imgs |->
                 IF Unused(S, S.imgs[i])
                 THEN [S.imgs[i] EXCEPT !.SurvCleanup = @ - 1] ELSE S.imgs[i]]
  IN [S EXCEPT !.imgs = Keep(aged, {e \in ToSet(aged) : e.SurvCleanup >= 0})]

(***************************************************************************)
(* Clients.                                                                *)
(***************************************************************************)
(* Cache_client_dequeue and a_Web_free: the DilloImage goes with the       *)
(* request, also when a decoder still points to it.                        *)
Dequeue(S, k, how) ==
  [S EXCEPT !.queue = Keep(@, {q \in ToSet(@) : q.key # k}),
            !.imgs = [i \in DOMAIN @ |->
                        IF @[i].Image = k THEN [@[i] EXCEPT !.Image = Freed]
                        ELSE @[i]],
            !.page[k].at = how,
            !.page[k].drawn = IF how = "stopped" THEN Blank ELSE @]

a_Cache_stop_client(S, k) ==
  LET q == S.queue[Of(S.queue, k)]
  IN Dequeue([S EXCEPT !.imgs = a_Dicache_unref(@, q.Version),
                       !.delayed = FALSE], k, "stopped")

(* All clients are stopped, then the version is invalidated.               *)
Cache_entry_remove(S) ==
  IF S.entry = "none" THEN S
  ELSE [FoldLeft(LAMBDA T, q : a_Cache_stop_client(T, q.key), S, S.queue)
        EXCEPT !.imgs = a_Dicache_invalidate_entry(@),
               !.entry = "none", !.size = 0, !.delayed = FALSE]

(***************************************************************************)
(* Feeding a client.                                                       *)
(***************************************************************************)
\* Mutant: a client that joins a version takes no reference.
Dicache_image_unref(S, k) ==
  LET i == Current(S.imgs)
      L == IF i = 0 THEN Dicache_add_entry(S.imgs, k) ELSE S.imgs
      j == Current(L)
      q == Of(S.queue, k)
  IN [S EXCEPT !.imgs = [L EXCEPT ![j].SurvCleanup = SurvPasses],
               !.reused = @ \/ ~Distinct(L),
               !.queue = [@ EXCEPT ![q].Callback = TRUE,
                            ![q].CbData = IF L[j].State = "Close" THEN 0
                                          ELSE L[j].version]]

(* The client takes a reference to the last version, or creates it.  The   *)
(* decoder of a version is named by the version.                           *)
Dicache_image(S, k) ==
  LET i == Current(S.imgs)
      L == IF i = 0 THEN Dicache_add_entry(S.imgs, k)
           ELSE [S.imgs EXCEPT ![i].RefCount = @ + 1]
      j == Current(L)
      q == Of(S.queue, k)
  IN [S EXCEPT !.imgs = [L EXCEPT ![j].SurvCleanup = SurvPasses],
               !.reused = @ \/ ~Distinct(L),
               !.queue = [@ EXCEPT ![q].Callback = TRUE,
                            ![q].CbData = IF L[j].State = "Close" THEN 0
                                          ELSE L[j].version]]

(* What a decoder may make of new data: nothing, the dimensions, rows of   *)
(* the current scan, or of new scans ("early": of the last but one).       *)
Nothing  == [parms |-> FALSE, scans |-> 0, early |-> {}, rows |-> {}]
Outcomes ==
  {Nothing} \cup
  {d \in [parms : {TRUE}, scans : 0 .. MaxScan, early : SUBSET Rows, rows : SUBSET Rows] :
     d.early \cap d.rows = {} /\ (d.scans = 0 => d.early = {})}

(* There is something to choose only when a decoder will run.              *)
Decodable(S) ==
  LET i == Current(S.imgs)
  IN IF S.queue = <<>> THEN {Nothing}
     ELSE IF i # 0 /\ (S.imgs[i].State = "Close" \/ S.imgs[i].DecodedSize >= S.size)
     THEN {Nothing} ELSE Outcomes

(* The calls of the decoder: a_Dicache_set_parms, then a_Dicache_write and *)
(* a_Dicache_new_scan.  "early" are rows of the scan before the last.      *)
Decode(e, d, upto) ==
  LET n == IF e.ScanNumber + d.scans <= MaxScan THEN d.scans ELSE 0
      scan == e.ScanNumber + n
      early == IF n = 0 THEN {} ELSE d.early
      rows == IF n = 0 THEN d.rows \ e.BitVec ELSE d.rows
  IN IF ~e.imgbuf /\ ~d.parms THEN [e EXCEPT !.DecodedSize = upto]
     ELSE [e EXCEPT
             !.DecodedSize = upto, !.imgbuf = TRUE, !.Image = NoImage,
             !.ScanNumber = scan,
             !.BitVec = IF n = 0 THEN @ \cup rows ELSE rows,
             !.content = [r \in Rows |-> IF r \in rows THEN scan + 1
                                         ELSE IF r \in early THEN scan ELSE @[r]],
             !.State = IF rows \cup early # {} THEN "Write"
                       ELSE IF @ = "Empty" THEN "SetParms" ELSE @]

\* Mutant: a client that missed a whole scan redraws only the new rows.
Stale_missed(e, q) ==
  IF e.State # "Write" THEN {}
  ELSE IF e.ScanNumber = q.ScanNumber THEN e.BitVec \ q.BitVec
  ELSE {r \in Rows : r \in e.BitVec \/ r \notin q.BitVec}

(* The rows a_Dicache_callback has the widget draw again.                  *)
Stale(e, q) ==
  IF e.State # "Write" THEN {}
  ELSE IF e.ScanNumber = q.ScanNumber THEN e.BitVec \ q.BitVec
  ELSE {r \in Rows : \/ r \in e.BitVec \/ r \notin q.BitVec
                     \/ e.ScanNumber > q.ScanNumber + 1}

(* a_Dicache_callback, CA_Send: decode what no client has brought yet; a   *)
(* client without dimensions gets the buffer, and draws all of it.         *)
Send(S, k, d) ==
  LET i  == Current(S.imgs)
      qi == Of(S.queue, k)
      q  == S.queue[qi]
      e0 == S.imgs[i]
      e  == IF e0.State # "Close" /\ e0.DecodedSize < S.size
            THEN Decode(e0, d, S.size) ELSE e0
      seen  == [q EXCEPT !.Version = IF @ = 0 THEN e.version ELSE @]
      draws == Stale(e, q)
      drawn == IF q.sized THEN [r \in Rows |-> IF r \in draws THEN e.content[r]
                                               ELSE S.page[k].drawn[r]]
               ELSE e.content
      done  == IF e.State # "Write" THEN q.BitVec
               ELSE (q.BitVec \cup draws) \cap e.BitVec
  IN IF i = 0 THEN S
     ELSE IF ~e.imgbuf THEN [S EXCEPT !.imgs[i] = e, !.queue[qi] = seen]
     ELSE [S EXCEPT
             !.imgs[i] = e,
             !.queue[qi] = [seen EXCEPT !.sized = TRUE, !.BitVec = done,
                              !.ScanNumber = IF e.State = "Write" THEN e.ScanNumber
                                             ELSE @],
             !.page[k] = [S.page[k] EXCEPT
                            !.shows = IF q.sized THEN @ ELSE e.version,
                            !.drawn = drawn]]

(* a_Dicache_callback, CA_Close: the decoder ends with the first client    *)
(* that closes.  Then the client leaves the queue.                         *)
Close(S, k) ==
  LET i == Current(S.imgs)
      L == a_Dicache_unref([S.imgs EXCEPT ![i].State = "Close"], S.imgs[i].version)
  IN Dequeue(IF i = 0 THEN S ELSE [S EXCEPT !.imgs = L], k, "done")

(* One turn of the loop of Cache_process_queue.                            *)
Feed(S, k, d) ==
  LET D == IF S.queue[Of(S.queue, k)].Callback THEN S ELSE Dicache_image(S, k)
      F == IF S.size > 0 THEN Send(D, k, d) ELSE D
  IN IF S.entry = "complete" THEN Close(F, k) ELSE F

(* "Content-Disposition: attachment": each new client is dispatched and    *)
(* dequeued, and the entry is removed.                                     *)
Offer(S) ==
  Cache_entry_remove(
    FoldLeft(LAMBDA T, q : IF q.Callback THEN T
                           ELSE Dequeue(Dicache_image(T, q.key), q.key, "stopped"),
             S, S.queue))

(* Cache_process_queue, once the type is known; the last client that       *)
(* leaves triggers a clean-up pass.                                        *)
Cache_process_queue(S, d, attachment) ==
  LET P == IF attachment THEN Offer(S)
           ELSE FoldLeft(LAMBDA T, q : Feed(T, q.key, d), S, S.queue)
  IN IF S.size = 0 /\ S.entry = "loading" THEN S
     ELSE IF P.queue = <<>> THEN a_Dicache_cleanup(P) ELSE P

(***************************************************************************)
(* The handlers.                                                           *)
(***************************************************************************)
\* A version can still be followed by another within the bound.
MoreVersions == \A i \in DOMAIN CachedIMGs : CachedIMGs[i].version < MaxVersion

(* A page asks for the image; "reload" fetches it again.                   *)
Request(c, reload) ==
  /\ page[c].at = "none" /\ (reload => MoreVersions)
  /\ LET R == IF reload THEN Cache_entry_remove(State) ELSE State
         Q == [R EXCEPT !.queue = Append(@, NewClient(c)), !.page[c].at = "queued"]
     IN Become(IF R.entry = "none" THEN [Q EXCEPT !.entry = "loading"]
               ELSE [Q EXCEPT !.delayed = TRUE])

(* a_Capi_stop_client: the last client takes the connection along, and so  *)
(* the entry, when forced or when it got no data.                          *)
Stop(c, force) ==
  /\ page[c].at = "queued"
  /\ LET unique == Len(ClientQueue) = 1
         last   == unique /\ entry = "loading"
                   /\ (force \/ ~ClientQueue[1].Callback)
     IN /\ last => MoreVersions
        /\ Become(IF last THEN Cache_entry_remove(State)
                  ELSE a_Cache_stop_client(State, c))

(* The page of a client that is over gives way to another.                 *)
LeavePage(c) ==
  /\ page[c].at \in {"done", "stopped"}
  /\ Become([State EXCEPT !.page[c] = NoPage])

(* A piece of data.                                                        *)
Receive(attachment) ==
  LET R == [State EXCEPT !.size = @ + 1] IN
    /\ entry = "loading" /\ size < MaxData
    /\ attachment => size = 0 /\ "attachment" \in Mishaps
    /\ \E d \in Decodable(R) : Become(Cache_process_queue(R, d, attachment))

(* The end of the data.                                                    *)
Finish ==
  LET R == [State EXCEPT !.entry = "complete"] IN
    /\ entry = "loading"
    /\ \E d \in Decodable(R) : Become(Cache_process_queue(R, d, FALSE))

(* Cache_delayed_process_queue_callback                                    *)
Delayed ==
  /\ delayed
  /\ \E d \in Decodable(State) :
       Become([Cache_process_queue(State, d, FALSE) EXCEPT !.delayed = FALSE])

Next == \/ \E c \in Clients, reload \in BOOLEAN : Request(c, reload)
        \/ \E c \in Clients, force \in BOOLEAN : Stop(c, force)
        \/ \E c \in Clients : LeavePage(c)
        \/ \E attachment \in BOOLEAN : Receive(attachment)
        \/ Finish \/ Delayed

Spec == Init /\ [][Next]_vars
-----------------------------------------------------------------------------
(***************************************************************************)
(* Properties.                                                             *)
(***************************************************************************)
\* The clients that were given the version v.
Holders(v) == {i \in DOMAIN ClientQueue : ClientQueue[i].Version = v}

(* Type invariant: entries, clients and pages have their C types.          *)
TypeOK ==
  /\ CachedIMGs \in Seq([version : 1 .. MaxVersion, last : BOOLEAN,
       valid : BOOLEAN, RefCount : 0 .. Cardinality(Clients),
       State : {"Empty", "SetParms", "Write", "Close"}, imgbuf : BOOLEAN,
       ScanNumber : 0 .. MaxScan, BitVec : SUBSET Rows, content : Content,
       DecodedSize : 0 .. MaxData, SurvCleanup : 0 .. SurvPasses,
       Image : Clients \cup {Freed, NoImage}])
  /\ ClientQueue \in Seq([key : Clients, Callback : BOOLEAN,
       Version : 0 .. MaxVersion, CbData : 0 .. MaxVersion, sized : BOOLEAN,
       ScanNumber : 0 .. MaxScan, BitVec : SUBSET Rows])
  /\ entry \in {"none", "loading", "complete"} /\ size \in 0 .. MaxData
  /\ delayed \in BOOLEAN
  /\ page \in [Clients -> [at : {"none", "queued", "done", "stopped"},
                           shows : 0 .. MaxVersion, drawn : Content]]

(* "RefCount counts cache clients" of the version, over joins, closes,     *)
(* stops and reloads: one too few takes the entry from under a client, one *)
(* too many keeps it for ever.  An entry nobody waits for and without a    *)
(* buffer is gone.                                                         *)
RefCountExact ==
  \A i \in DOMAIN CachedIMGs :
    LET e == CachedIMGs[i] IN
      /\ e.RefCount = Cardinality(Holders(e.version))
      /\ e.RefCount > 0 \/ e.imgbuf

(* a_Dicache_callback looks up the last version each time, and hands the   *)
(* decoder the data it stored in the client: a client that was dispatched  *)
(* stays on the version it joined, and on its decoder while that lives.    *)
ClientsOnCurrent ==
  \A k \in DOMAIN ClientQueue :
    LET q == ClientQueue[k]
        i == Current(CachedIMGs)
    IN q.Callback =>
         /\ i # 0 /\ CachedIMGs[i].version = q.Version
         /\ CachedIMGs[i].State # "Close" => q.CbData = q.Version

(* A version some page shows stays in the cache, with its buffer.          *)
ShownIsKept ==
  \A c \in Clients : page[c].shows # 0 =>
    \E i \in DOMAIN CachedIMGs :
      CachedIMGs[i].version = page[c].shows /\ CachedIMGs[i].imgbuf

(* When a handler is over, the widget of every client that was not stopped *)
(* shows each row as it was last decoded, whatever client's turn decoded   *)
(* it, in however many scans, and whenever the client joined.              *)
NothingUndrawn ==
  \A c \in Clients : page[c].at \in {"queued", "done"} /\ page[c].shows # 0 =>
    page[c].drawn = CachedIMGs[At(CachedIMGs, page[c].shows)].content

(* "hereafter it may be freed by its owner": until the dimensions are      *)
(* known, the DilloImage the decoder points to is there.                   *)
DecoderImageAlive ==
  \A i \in DOMAIN CachedIMGs : CachedIMGs[i].Image # Freed
=============================================================================
