# Dillo: models and proofs

TLA+ models of the parts of dillo whose correctness depends on the order of
events: resolver threads, nested callbacks of the connection pool, the memory
cache that serves several windows from one connection, the cache of decoded
images, the navigation of a window, the daemon that starts plugins, and the tag
stack of the HTML parser. TLC checks the models on small instances; TLAPS proves
the invariants of all of them for every instance. Paths are relative to the
repository; browser sources are in `src/` of it (`src/dns.c`, `src/IO/http.c`,
...), the daemon's in `dpid/`.

## The system

Dillo is one process with one main loop. Almost all code runs on the main
thread, as handlers of the loop: a ready descriptor, a timeout, a user event.
Only `getaddrinfo` runs in threads of its own. Plugins (dpis) and the daemon
that starts them (dpid) are separate processes.

A request travels through five layers:

    nav.c -> capi.c -> cache.c          a window asks for a url
               |          ^
               v          | data, by url
             http.c --> IO.c            sockets, queues, TLS, descriptors
               |
               v
             dns.c                      host names

The layers above and below a connection talk through chains (`chain.c`): branch
1 carries the query and its failures, branch 2 the answer. An operation is
forward or backward, and `OpEnd`/`OpAbort` make a link inoperative.

| component | state | operations | what is hard | what makes it correct |
|---|---|---|---|---|
| DNS engine `dns.c` | channels, queue of waiting clients, cache, pipe | `a_Dns_resolve`, `Dns_server` (thread), `Dns_timeout_client` | threads share a channel with the main thread without a lock; the queue is edited while iterated; channels run out | every client is called once, with the address of its host; no lost wake-up; one lookup per host |
| connection pool `IO/http.c` | sockets by key, servers with a queue and a counter, `fd_map` | `Http_get`, connect and its retries, `a_Http_connect_done`, free, reuse | handlers nest: a free runs a queue, a queue run connects, a failed connect frees | exact counters, no use of freed sockets or servers, every request ends |
| TLS `IO/tls*.c` | certificate status per server, connections in handshake | `a_Tls_connect_ready`, connect, examine, close, reset | a dialog runs the main loop in the middle of a handler | one first connection per server; its outcome reaches the queue |
| IO engine `IO/IO.c`, `iowatch.cc` | IO structures, watched descriptors | `a_IO_ccc`, read and write callbacks | both branches of a request own the descriptor | each descriptor is closed once, by its owner |
| memory cache `cache.c` | entries by url, client queue, delayed queue and its timeout | `a_Cache_open_url`, `a_Cache_process_dbuf`, `Cache_process_queue`, stop, remove | handlers re-enter through `a_Nav_push`; clients point into entries | nothing dangles; every client is served or dropped; no data in the wrong entry |
| capi `capi.c` | connections | `a_Capi_open_url`, `a_Capi_stop_client`, abort by url, `a_Capi_ccc` | one branch may end before the other | an entry in progress has a connection |
| chains `chain.c`, keyed lists `klist.c` | links and flags; nodes and a counter | forward, backward and both callbacks; insert, remove | a callback ends the chain it travels; keys are reused after a wrap | nothing is delivered on a finished chain; a key names one object |
| navigation `nav.c`, history `history.c` | stack, pointer, expected url, META redirection | push, expect done, back, forward, reload, repush | timeouts between request and effect; windows close | the pointer stays in the stack and names the page shown |
| window `bw.c`, web `web.cc` | clients, documents, page urls; valid webs | add, close, stop, clean | clients end while others are stopped | every client of a window is in its lists |
| image cache `dicache.c`, `imgbuf.cc`, `image.cc` | versions of decoded images, reference counts, rows drawn | get, ref, unref, callback, clean-up | the same image on several pages at several stages, reloaded meanwhile | counts equal holders; what is shown is kept; no row is left undrawn |
| decoding `decode.c` | rest of a chunk header, decoder state | chunked, gzip, deflate, charset | the network splits the input anywhere | the result does not depend on the split |
| HSTS `hsts.c`, authentication `auth.c`, cookies `cookies.c`, `domain.c` | policies with expiry; hosts, realms, paths | set, look up, ask the user | expiry; a dialog in the middle | the right policy, realm and header for a url |
| dpi client `IO/dpi.c`, `dpip/` | connection, token buffer | start dpid, get a port, split the stream | blocking calls with time limits; partial tags | tags and data are told apart however the stream is cut |
| dpid `dpid/` | plugins with pid and socket, watched set | requests, start of a plugin, SIGCHLD, idle exit | plugins die at any time; fork fails; signals race with `select` | the socket of a plugin always has one that accepts; no exit is slept on |
| remote control `dilloc.c`, `IO/control.c` | a client, its wait | commands, wait with a time limit | the page may finish first | each command is answered once |
| html `html.cc`, forms `form.cc` | stack of open elements, flags, inputs | open and close of each element, implicit sections, end of the page | tags come in any order, badly nested | flags and stack agree; controls are not nested; the end of the page closes everything |
| css, dw, lout, ui, urls, dlib, plugins, image decoders | documents, widgets, text | parsing, layout, rendering | size of the data | sequential code over large data |

## Modules

| module | models | extends or uses |
|---|---|---|
| `Resolver` | what the resolver promises: each client is called once, with its host's address or a failure; a known host is never answered with a failure | |
| `Dns` | `src/dns.c` | instantiates `Resolver` |
| `DnsProofs` | theorems about the channels, the queue and the answers of `Dns`, and the simulation of `Resolver` | `Dns`, TLAPS |
| `Http` | `src/IO/http.c`, with its use of `IO/tls.c`, `IO/tls_openssl.c`, `IO/IO.c` | |
| `HttpProofs` | theorems about `Http` | `Http`, TLAPS |
| `Lists` | a loop over a list that takes elements out of it | |
| `ListProofs` | what such loops, and folds over lists, compute for lists of any length | `Lists`, TLAPS |
| `Cache` | `src/cache.c` with the http part of `src/capi.c` | `Lists` |
| `CacheProofs` | theorems about `Cache` | `Cache`, `ListProofs` |
| `Dicache` | `src/dicache.c` for one image, with its clients in `cache.c` and its widgets | `Lists` |
| `DicacheProofs` | theorems about `Dicache` | `Dicache`, `ListProofs` |
| `Nav` | `src/nav.c` for one window, with the parts of `bw.c`, `uicmd.cc`, `web.cc`, `cache.c` and `html.cc` that act on it | |
| `NavProofs` | theorems about `Nav` | `Nav`, TLAPS |
| `Dpid` | `dpid/main.c`, `dpid/dpid.c` | |
| `DpidProofs` | theorems about `Dpid` | `Dpid`, TLAPS |
| `Html` | the tag stack of `src/html.cc` with the flags and inputs of `src/form.cc` | |
| `HtmlProofs` | theorems about `Html` | `Html`, `ListProofs` |
| `MCDns`, `MCHttp`, `MCCache`, `MCDicache`, `MCNav`, `MCDpid`, `MCHtml` | instances for TLC (symmetry sets) | the module of the same name |

Definitions have the names of the C functions and fields they stand for.
Operators that say "Mutant" in their comment are altered copies of the
definition that follows them, for checking that each property can fail.

Three conventions keep the modules short. Where one handler of the main loop
runs to its end before the next (`Cache`, `Dicache`, `Nav`, `Html`) a handler is
one action, a composition of operators on the record of its state in the order
of the calls. Where handlers nest or another thread, process or signal comes in
between (`Dns`, `Http`, `Dpid`) they are cut exactly there. And where an event is
known to break a property, it is named in the constant `Mishaps`: the run that
checks the property leaves the event out, a configuration that lets it in shows
the counterexample, and the properties it does not touch are checked with it.

### Dns

The variables are the statics of `dns.c` (`dns_server`, `dns_queue`,
`dns_cache`, the bytes in `dns_notify_pipe`), the threads (`looking`: inside
`getaddrinfo`; `notifying`: stores done, `write` not yet), the place of the main
thread (`main`), and the view of the clients (`asked`, `answers`).
`a_Dns_resolve` is one action per branch: it reads only what the main thread
writes. `Dns_timeout_client` is split at every point where a thread can run
between two of its reads: drain, one channel, one queue entry, the end of a
channel, one channel of `Dns_assign_channels`.

`StoresInOrder` says whether the two stores that end `Dns_server` (`addr_list`,
`state`) reach the main thread in program order. Nothing in the code enforces
it; with `FALSE` a read of `addr_list` after `RESOLVED` may still return the
list the channel held before (`prev_list`).

### Http

The handlers of `http.c` call each other, so the model keeps the relevant part
of the C stack: `stack` is a sequence of frames, the top one takes the next
step, and an event is handled only when it is empty. In this way the run of a
queue that is interrupted by the end of a connection it started, which runs the
same queue again, is a behaviour of the model; so is a client that the resolver
serves before the next one of the same host (`Dns_serve_channel`). The kernel hands out any free
descriptor number. The dialogs about certificates run the main loop, so a
dialog that is open is a member of `popups` and other events go on.

`IoErrors` says which calls may fail, `WebsClose` whether a page that shares a
request with another can be closed.

### Cache

`a_Capi_open_url` calls `a_Capi_conn_abort_by_url`, which may call
`Cache_entry_remove`, and so on: each is an operator on the whole state. A
redirection opens the new url inside the processing of the old entry, as
`a_Nav_push` does. Only `Cache_delayed_process_queue_callback` is split, one turn
of its loop per step. Connections are `Http` seen from above: they deliver data,
close, or fail.

A client is a slot of the user interface: the page of a window, or a picture.
A response is its kind (`Kinds`): shown, redirected, temporarily redirected,
offered for download, or with a type its data contradict.

### Dicache

The versions of one image (`CachedIMGs`), the clients that wait for its url in
the memory cache (`ClientQueue`), the entry there, and for each place on a page
the version its widget shows with the scan each row was last drawn from. What a
decoder makes of a piece of data is any outcome the formats allow: nothing, the
dimensions, rows of the current scan, new scans. `NothingUndrawn` compares what
is drawn with what was decoded last, so an error in the merging of the bit
vectors of entry and client (`a_Dicache_callback`) shows as a stale row.

### Nav

One window: the stack and its pointer, the url it expects with the flags of the
request, the client of its page (waiting for an answer, being parsed, or with a
parser stopped by META), the pending redirection, the counter of style sheets
and the sheets really on their way, and the timeouts that wait to run. The
actions are the commands of the user, the timeouts, the answers of cache and
capi, and what the parser finds in the head of the page.

### Dpid

The main loop of the daemon is cut at the points where a signal or a client
comes in: "top" (SIGCHLD blocked), "select" (unblocked, not asleep yet),
"asleep", "work". A plugin is its index; its state is what the daemon records
(`pid`, the watched set `sock_set`, `numsocks`), what is true of its process
(`proc`), and the connections that wait at its socket (`backlog`). Processes that
no item of the list names are counted only: `waitpid(-1)`, which a server that
failed to start leads to, may return any of them.

### Html

The parser's stack of open elements with `InFlags`, the counts of html, head and
body, `ReqTagClose`, and the last input of the current form and of the page. A
tag is one action: implicit sections, clean-up of the stack, push, the open
function, what its attributes and style make of it, and the close functions of
all that is popped. At the end of the page each round of the loop of
`finishParsing` is a step. One tag stands for all those with the same flags, the
same handling of their end and no state of their own.

## What the runs check

| run | instance | shows |
|---|---|---|
| `dns` | 2 channels, 3 hosts, 3 clients | all invariants of `Dns` in every interleaving of main thread and threads; `Dns` implements `Resolver`, its liveness included: every client is answered |
| `http_safety` | 3 requests, a plain and a TLS server, 1 slot, 2 addresses, 2 descriptors | counters, queues, servers and descriptors stay exact |
| `http_live` | 3 requests, 1 plain server, 1 slot, 2 addresses | every request ends |
| `http_fd_reuse` | failing writes | **violated** (`FdMapUnique`): the assertion of `Http_fd_map_add_entry` |
| `cache_safety` | 2 windows, 1 picture, 2 urls, 2 clients waiting at a time | pointers, connections, data references and the delayed queue |
| `cache_live` | 1 window, 1 picture, 2 urls | every client has something to wait for, and leaves the queue |
| `dicache_safety` | 2 places, 2 pieces of data, 3 scans, 2 versions | counts equal holders, clients stay on the current version, what is shown is kept and drawn |
| `nav` | 3 urls, a stack of 3, every order of commands, answers and timeouts | the stack is sound, the past is kept, the page shown is the one named, expectations end |
| `nav_sheets` | a page with a style sheet | **violated** (`FormsWaitForSheets`): forms stay disabled though no sheet is loading |
| `dpid` | 3 plugins (a filter, a server, the downloads server), 2 connections at each | sockets are handed over and back, exits are noticed, connections are accepted |
| `html` | 14 tags, depth 5 | flags agree with the stack, controls are apart, inputs are current, the end of the page closes everything |
| `html_close` | 7 tags, depth 5 | **violated** (`BlockClosesInline`): the end tag of a block closes a table inside it |

Configurations without a run show the counterexamples described below:
`MCDnsRace`, `MCHttpTls`, `MCHttpForgotten`, `MCCacheEmpty`, `MCCacheReadError`,
`MCDicacheImage`, `MCDpidLost`, `MCHtmlRoot`, `MCHtmlHead`.

### The bounds

* `Dns`: more hosts than channels, so that clients wait and a channel that
  becomes idle has a choice; two clients for one host, so that a request joins a
  lookup and an entry in the middle of the queue is removed. The proofs cover
  any number of channels, hosts and clients.
* `Http`: three requests on one slot give a queue of two, the shortest in which
  order matters and in which the entry after a removed one can be missed; two
  addresses let the first fail and the second succeed; two descriptors are
  reused at once. `NumAddrs` bounds the retries, `Socks` the requests. What the
  safety run checks of servers, queues and counters is proved for any bounds.
* `Cache`: two urls are the shortest circle of redirections; a window is
  redirected once (`MaxRedirects` stands for the 5 of `Cache_redirect`) and a
  loop is declared at the second redirection, which closes the circle; `MaxData`
  of 1 tells an empty body from one with data. Of two windows and a picture any
  two wait at a time (`MaxClients`): all the pairs that can share an entry or
  hold one each. What the safety run checks is proved for any bounds, `ClientsFed`
  as well. The safety run also passes with `MaxClients = 3` and without
  "mismatch", in four minutes and 814 397 states.
* `Dicache`: two clients, the least with a first and a repeated image; two
  pieces of data and three scans let a client miss a scan entirely; two versions
  are a reload under a page that shows the old one; one clean-up pass less than
  its survival separates "late" from "early". Two rows also pass (`Height = 2`,
  `MaxScan = 2`, 1 193 829 states).
* `Nav`: three urls on a stack of three give a past, a present and a future, and
  a push that cuts the future off; two timeouts that wait can be in either
  order. The stack properties are proved for any bounds.
* `Dpid`: one plugin of each kind; two connections wait at a socket, so that one
  is left when a server dies; three processes no item names. The socket
  properties are proved for any number of plugins.
* `Html`: fourteen tags hold every element that has flags or inputs of its own,
  a block, a verbatim element and the sections; five levels below the root let
  two controls and a form nest in a body in any order. What the run checks is
  proved for all of the tags and any depth of pages without a title, and up to
  a depth of 19 with titles.

### Fairness

`Dns`: the main loop serves a readable pipe and its handler does not block;
threads are scheduled, and `getaddrinfo` returns (it has time limits of its
own). Nothing obliges a client to ask. `Http`: handlers run to their end; the
resolver answers, which is what `Dns` shows; a pending `connect` is decided by
the kernel; a server that was sent a query answers, closes or fails. Users and
failures are under no obligation. `Cache`: timeouts and connections are served,
and a connection makes progress, which is what `Http` shows of a request. `Nav`:
only the answer to a request comes (weak fairness), which is what `Cache` shows;
the user may go on for ever. `Dpid`: the loop goes on, and a server that is
started again and again accepts at last (strong fairness; `dpid/main.c:225`
names the endless loop there would be otherwise). `Dicache` and `Html` have
safety properties only; that the loop at the end of a page ends is the
invariant `EofCloses`, by the depth of the stack.

## What the violated runs say of the code

* `http_fd_reuse` (`src/IO/IO.c:410`): after a failed write the descriptor is
  closed, the queue runs and may be given the same number for another socket,
  and the number is closed again. The comment at `src/IO/IO.c:121` foresees it.
* `nav_sheets` (`src/html.cc:3253`): the counter that disables the forms while
  style sheets are loading (`ChangeLog:568`) is counted down only by a sheet
  that arrives. A sheet that is stopped, redirected or answered with 404 leaves
  it above zero, and the forms of the page stay disabled.
* `html_close` (`src/html.cc:3834`): "Let a block container close inline
  elements left open inside it" looks at `Tags[stack_idx]`, the index of the
  open element in the stack, not in the table. For nearly every depth the entry
  found there is inline, so `</div>` in `<div><table></div>` closes the table.
  With the intended index the property holds.

## What mishaps break

Left out of the passing runs, each with the property it refutes. These too are
what the code does.

* `Dns`, `StoresInOrder = FALSE` (`src/dns.c:319`, `MCDnsRace`): two threads, no
  lock and no barrier. Where the stores are reordered (a weakly ordered
  processor, or the compiler), a host receives another host's addresses, and
  keeps them in the cache (`AnswersTheHostAsked`).
* `Http`, pages that close (`WebsClose`): at `src/IO/http.c:270` the server is
  marked as receiving its certificate before the socket is found to have no
  page; the socket is dropped and all later requests to the server wait
  (`MCHttpTls`, `SingleInitialConnection`). At `src/IO/http.c:272` dropping a
  queued request does not abort its chain; a second page that waits for the same
  url waits for ever (`MCHttpForgotten`, `EveryRequestEnds`).
* `Cache`: "empty_reply" (`src/cache.c:1335`, `MCCacheEmpty`) and "read_error"
  (`src/capi.c:816`, `MCCacheReadError`) leave an entry in a state in which it is
  taken for cached and is never completed; "shared_stop" (`src/cache.c:1589`):
  stopping one client of an entry takes the entry out of `DelayedQueue` although
  other clients may wait for its turn (`ClientsFed`).
* `Dicache`: "outlived" (`src/dicache.c:129-148`): when the last version was
  removed while an older one is still shown, the next version is given the
  number of the removed one again, and `RefCountExact` fails. "attachment"
  (`src/cache.c:1418-1430`): an image offered for download dequeues its clients
  without giving their references back. `MCDicacheImage` (`src/dicache.c:445`):
  the decoder keeps the `DilloImage` of the first client when that client is
  stopped and another goes on (`DecoderImageAlive`).
* `Nav`: "edge" (back or forward at the end of the stack, `src/nav.c:439-475`),
  "same_page" (`src/nav.c:222-228`) and "declined" (`src/nav.c:515-523`) cancel
  an expectation and leave its client, whose answer is then shown under the name
  of another page (`DeliveredIsNamed`); "same_page", "refused", "loop"
  (`src/cache.c:1152-1159`) and "elsewhere" (`src/cache.c:361-378`,
  `src/capi.c:720`) leave an expectation without a client, so that it never ends
  (`ExpectationEnds`). `StackSound`, `SheetsCounted` and `PastKept` hold under
  all of them, which is proved.
* `Dpid`: "window" (`dpid/main.c:307`): SIGCHLD is unblocked before `select`
  sleeps; an exit in between is not noticed until the next request
  (`MCDpidLost`, `ExitNoticed`). "fork" (`dpid/main.c:410`): the pid of a plugin
  that could not be forked is -1, `waitpid(-1)` takes the exit of any child for
  its own, and the plugin that did exit is watched by nobody (`HandedOver`).
* `Html` (`MCHtmlHead`, `src/html.cc:3834`): the index of `html_close` again. The
  20th entry of `Tags[]` is neither inline nor a container of inline elements, so
  the search for the head that the first element of the body ends stops at the
  20th position: with eighteen titles nested in the head, it stays open under the
  body (`SectionsMatch`).
* `Html` (`MCHtmlRoot`): `<html></html>` pops the html element before the end of
  the page, though `src/html.cc:3744` says "only pop {BODY,HTML} upon EOF or
  redundancy" (`RootKept`).

Seen while modelling, not expressible in a module of this size: the `wait` of
`dilloc` is not answered when a load fails or is stopped (`src/IO/control.c:228`);
going back twice before the first page is there saves the scroll position to the
wrong item (`src/nav.c:206-216`); timeouts of a window outlive it
(`src/nav.c:398`); the close of an inner form, video or map clears the flag of
the outer one; `<select><ins><form>` clears `IN_SELECT`, and the options of the
select are never added; `register_all` never closes the old sockets of dpid.

## Proofs

TLAPS checks every theorem below from nothing. The run named with a property
shows it on a small instance; the theorem holds for every value of the constants
that its hypotheses allow.

### The DNS engine

`DnsProofs`, for any non-zero number of channels and any sets of hosts and
clients (`NumServersAssumption`, `NullAssumption`), and for both values of
`StoresInOrder`:

    TypeCorrect           Spec => []TypeOK
    WakeupsReachTheScan   Spec => []NoLostWakeup
    QueueIsServable       Spec => []QueueServable
    LookupsAreDistinct    Spec => []OneLookupPerHost
    NobodyLeftBehind      Spec => []NoIdleChannelWhileWaiting

all from `Invariance`, `Spec => []IInv`. The properties are not inductive one by
one. `IInv` joins them with four facts that tie the place of the main thread to
the channels and the queue:

* `LookingProcesses`: exactly the `PROCESSING` channels have a thread. A thread
  that stores its result therefore owns a busy channel with a host name.
* `ServedPrefix`: inside `Dns_serve_channel` no entry before the index belongs
  to the channel. At the end of the queue none is left, so that making the
  channel idle leaves no client behind (`QueueServable`).
* `BusyHasClient`: a busy channel has a client in the queue, unless it is the one
  being served. A host that is not found in the queue is thus looked up by no
  channel, which is why `a_Dns_resolve` may start a lookup (`OneLookupPerHost`).
* `AssignedPrefix`: `Dns_assign_channels` has left no idle channel behind it if
  somebody still waits; at its end this is `NoIdleChannelWhileWaiting`.

For stores that stay in order (`StoresInOrder = TRUE`; without it
the first theorem is false, see `MCDnsRace`):

    ClientsAreAnswered    Spec => []AnswersSound
    StepsAsResolver       Spec => Simulates

`AnswersSound` joins `OneAnswerEach`, `AnswersTheHostAsked` and `CachedOnce`.
`Simulates` is the safety half of `ImplementsResolver`: `Dns` starts as
`Resolver` does, and each of its steps is a step of `Resolver` or changes nothing
`Resolver` sees. Its liveness half stays with TLC. Both follow from `AInv`
(`AnswersInvariance`), which says where each request is (`QueuedOnce`,
`Accounted`, `Answered`), that a cached host and a finished lookup have the
host's own addresses (`CacheSound`, `ResultsOwn`), and that a host is in the cache
or being looked up, not both (`Unknown`), but for the moment between
`Dns_cache_add` and the last client's call (`ServedKnown`). The last two are what
the simulation rests on: a client is told of a failure only if its host is not
known, and a host is learnt once, while somebody waits for it.

### The connection pool

`HttpProofs`, for any number of sockets, servers, connections, descriptors and
addresses, whichever calls fail (`IoErrors`) and whether or not pages close
(`WebsClose`):

    TypeCorrect           Spec => []TypeOK
    ConnsAreExact         Spec => []ActiveConnsExact
    ServersAreSound       Spec => []ServersSound
    DescriptorsAreSound   Spec => []FdsSound,  if "write" \notin IoErrors

the first three from `Invariance`, `Spec => []IInv`. What makes them hard is that a run of a
queue can be interrupted by another run of the same queue, to any depth. `IInv`
describes the stack of handlers first, then what it has to do with the tables:

* `Frames`: below the top of the stack there are only runs of queues, runs of
  `Dns_serve_channel` and closes of descriptors. `Ready` says what the handler
  at the top relies on, and is established by the one that calls it.
* `Counted`: `running_the_queue` is the number of runs of that queue on the
  stack and `active_conns` the number of its connected sockets; a server with
  either is not freed. `TypeOK` needs it: no counter falls below zero.
* `QueuesAgree`: a socket is flagged as queued exactly if it is in a queue, and
  is in one place of one queue; it is not freed and not connected. `SocketsAgree`,
  `WaitersAgree` and `Unused` say the same of the descriptors, of the resolver's
  clients and of the keys that are not in use.
* `SlotsUsed`: if a server has a free slot and a socket that may use it, the run
  that was started last is at or before the first such socket. When no run is on the
  stack that is `NoIdleSlot`. The run that was interrupted may have an index that
  the inner one has made wrong; it does not matter, since the inner one ends only
  when there is no slot or nobody to use it, and whoever gives a slot back or
  queues a socket starts a run at the head.

The descriptors need an invariant of their own, `FInv`, proved on top of `IInv`.
It is about what happens *within* an event, where `FdsSound` says nothing:

* `Placed`: a socket with a descriptor is valid, connected and in `fd_map`, and
  its descriptor is in one place: connect() is pending (`Watching`), the TLS
  handshake is going on (`Shaking`), the IO engine has it (`Streams`), or the
  handler at the top of the stack has it (`Handling`; or `Freeing`, which a pending
  one can be too). A socket without
  one is in none of them. `FdsApart`: no two sockets have the same descriptor.
* `OpenAgrees`: an open descriptor has an owner, or an `IO_close_fd` at the bottom of
  the stack will close it; the owner of such a one is being freed right now, before
  any other handler can run. So the kernel cannot hand out that number while a queue
  run that is started by the free connects the next socket.
* `FdReady`: when `Http_socket_free` runs, its test (`IOWATCH_ACTIVE`, or a
  handshake) says exactly whether nobody else closes the descriptor.

Each action moves at most two sockets from one place to another; `PlacedKept` does
the others. The assumption is needed: after a failed write the descriptor is
closed before the socket is freed and once more at the end, `OpenAgrees` fails in
between, and `http_fd_reuse` shows what becomes of it. A failing `socket()`, read or
connect() is allowed.

The place at which an image is queued is the least of a set of positions, which
exists since `Nat` is well-founded.

### The memory cache

`CacheProofs`, for any number of urls, windows and images, any bounds and kinds of
response:

    TypeCorrect           Spec => []TypeOK
    QueuesAreSound        Spec => []QueuesSound
    ConnsFeedTheirEntry   Spec => []ConnFeedsItsEntry
    DataIsHeld            Spec => []DataHeld
    ClientsAreFed         Mishaps = {}: Spec => []ClientsFed

The first four hold whatever `Mishaps` is and follow from `Inv` (`Invariance`). A
handler is a composition of operators on states, so the invariant is a predicate
of states, `Sound(S, X)`, with one lemma for each operator; `X` is the set of the
urls whose answer is being handled, `{}` between handlers. It says that

* who waits in either queue has an entry, and that the timeout is set when an
  entry is delayed (`QueuesSound`);
* a url outside `X` is `Paired`: no connection is half closed, an open one has an
  entry in progress, and the data references of an entry are `Counted`: one from
  the header to the end. A complete entry with a header knows its type, so that
  the processing of a delayed entry cannot find a mismatch and abort what has no
  connection;
* an entry is `Targeted`: it has a location exactly if it is a redirection, so
  that `Cache_redirect` always has a url to open. What it opens may be the url in
  hand: the redirections of all windows leave the header, the type and the
  references of the old entry as they were, though not its clients.

`ClientsAreFed` adds `Fed(S, X)`: an entry has an open connection exactly while it
is in progress, it has no data before its header, a client that was called knows
the type, and the clients of a complete entry are in `DelayedQueue`. Each mishap
refutes one of these.

`Cache_process_queue` loops over the clients, and a loop over a list is a
recursive function or a fold. `ListProofs` says what those compute for lists of any
length. The induction theorems of the library take an operator as a parameter,
which the provers cannot instantiate; `NatInd` takes a set of numbers instead,
`FoldKeeps` a set of states that each turn of the loop maps into itself.

### The decoded image cache

`DicacheProofs`, for any number of clients, rows, scans, pieces of data and
versions, and any outcome of decoding, without mishaps (each of the two refutes
`RefCountExact`):

    TypeCorrect           Mishaps = {}: Spec => []TypeOK
    RefCountIsExact       Mishaps = {}: Spec => []RefCountExact
    ClientsStayOnCurrent  Mishaps = {}: Spec => []ClientsOnCurrent
    ShownIsInCache        Mishaps = {}: Spec => []ShownIsKept
    NothingIsUndrawn      Mishaps = {}: Spec => []NothingUndrawn

all from `IInv` (`Invariance`). The lists have no duplicates, so the invariant
speaks of the sets of entries, clients and pages (`Good`); one lemma says what
each change does to the sets, and one for each operator brings it back to the
lists. `Good` says that

* only the last version is valid, one that is not has no clients, and one that
  has none has a buffer (`EntryOK`); the clients of the valid version are exactly
  those that were dispatched. So `RefCount` can be counted, and the current
  version is the one every client joined;
* `content` is in the current scan at the rows of `BitVec`, and blank before
  the first row (`WellDecoded`);
* between handlers a client is `Synced` with its version: its page is drawn and
  its bit vector and scan number are those of the entry. Inside the loop over the
  queue the first client may decode, and the others, whose turn is still to come
  (`Todo`), are only `Lagging`: whatever their pages lack is in `Stale`.
  `DecodeDraws` proves the step from the one to the other for a decoder that
  writes any rows of any number of new scans. It is why `a_Dicache_callback` has
  to look at the scan numbers as well as at the bit vectors;
* a page whose client is done shows all of a version that decodes no more, and
  a page that shows a version keeps its buffer (`PageOK`). The clean-up may free
  the other entries only (`AlikeEntries`).

A number that was given out twice ends the handler only if that is let in
(`Reused`): the lemmas carry that case along to the end of the loop.

### Navigation

`NavProofs`, for any urls, any bound on the stack and on the timeouts:

    TypeCorrect           Spec => []TypeOK
    StackIsSound          Spec => []StackSound
    SheetsAreCounted      Spec => []SheetsCounted
    PastIsKept            Spec => PastKept
    DeliveredNamed        Mishaps = {}: Spec => DeliveredIsNamed

The first four hold whatever `Mishaps` is: no event that cancels or forgets an
expectation can harm the stack. They follow from `SoundInv` (`Invariance`), with
one lemma for each operator of `Nav` on windows, in the order the handlers
compose them. `DeliveredNamed` needs a second invariant, `Pending`: a client that
waits has the url the window expects or, when none is expected, the url at the
pointer; and nothing is expected without a client that waits for it.

### The daemon

`DpidProofs`, for any number of plugins of each kind and any backlog:

    TypeCorrect           fork does not fail: Spec => []TypeOK
    SocketsHandedOver     fork does not fail: Spec => []HandedOver
    SocketsAreCounted     fork does not fail: Spec => []SocketsCounted
    ExitsAreNoticed       no exit in the window before select: Spec => []ExitNoticed

The invariant adds to the properties what ties the record of the daemon to the
processes: `ChildKnown` (an item has a pid exactly while it has a process, dead or
alive), `FiltersIdle` (a filter never has one), `WatchedIdle` (the sockets watched
are those of items without a pid), `DeadFlagged` (a dead server has raised
`caught_sigchld`) and `SelectedReady` (what `select` returned still holds when it
is worked on). With a failed `fork` the first is false, and `HandedOver` with it.
`ExitsAreNoticed` does not need the invariant, and allows `fork` to fail.

### The HTML parser

`HtmlProofs`, for pages of any length with any of the tags, in any order and
however badly nested, shown or hidden. `HeadEnds` is the one hypothesis: no page
is deeper than the 19 elements for which the end of the head is always found, or
no title occurs in it. Without it `SectionsMatch` is false (`MCHtmlHead`).

    TypeCorrect           HeadEnds: Spec => []TypeOK
    SectionsAreMatched    HeadEnds: Spec => []SectionsMatch
    ControlsAreApart      HeadEnds: Spec => []ControlsApart
    InputsAreCurrent      HeadEnds: Spec => []InputIsCurrent
    EofClosesAll          HeadEnds: Spec => []EofCloses

all from `IInv` (`Invariance`). A tag is a composition of operators on the
record `H` of the parser, so the invariant is a predicate of such records,
`Sound(H)`, with lemmas for each operator: pop, clean-up, push, each open
function, each section. Besides the properties it says that

* before there is a body only html, head, title and script are on the stack
  (`Sections`), and that the counters of html and body tell whether one was
  opened (`Begun`). So a section that is opened a second time is the one the
  request to close is for: it is at the top and goes at once (`EndTop`), with the
  flags as they were. Without titles the stack is then no deeper than three, since
  a script is at the top (`Shallow`);
* `IN_FORM` and `IN_PRE` are up only while such an element is on the stack, which
  is what lets the end of the page lower them (`Apart`);
* an option is at the top, an optgroup there or below an option (`Options`):
  every element that stays open closes them both, but for an option, which
  leaves the optgroup. So no option is open when a form, a control
  or an input is opened, and the current input stays the select that holds them;
* only the top takes its text as it is, and each script does (`Verbatim`).

The clean-ups differ in what they search for; all they do is to cut the stack at a
position (`CutTo`): the elements above it go, their flags with them, unless a body
is among them and the page has not ended. What was cut is then `Place`: the
element may be pushed. `EnterPlain`, `EnterForm`, `EnterControl` and `EnterOption`
prove the rest of the invariant for what the open functions do.

### Only model-checked

* Liveness under fairness: the liveness half of `ImplementsResolver`, and the
  temporal properties of `http_live`, `cache_live`, `nav` and `dpid`. The prover
  does not do it.
* `EveryClientServed` of `Cache`: liveness, over circles of redirections.

## Not modelled

* `a_Dns_freeall`, `a_Cache_freeall` and other code that runs at exit.
* The failure of `pthread_create`: its result is ignored at `src/dns.c:351`, and
  the clients of that channel then wait for ever.
* Proxies, request and header text, authentication in the cache, internal pages,
  the mbedTLS and BearSSL back ends, dpi connections of `capi.c`.
* Colour maps of images (`DIC_SetCmap`); within one scan a row is written once.
* Scroll positions, the text and saving of the history, and the closing of a
  window.
* Text, attributes, style sheets and widgets of the parser, and the shortcut for
  META in a page without a head.
* The start of dpid, its list of services and the text of its requests.
* Chains and keyed lists on their own: what they do to their callers is part of
  `Http` and `Cache`.
* Decoding, HSTS, authentication, cookies, the dpi client, dpip, the plugins and
  remote control: text and protocols of one sequential process each, where the
  order of events decides little. `PROJECT.json` gives the reason for each.
* Memory contents: a use after free is visible in the models only where the
  model keeps the freed object in a set or its users in a queue.
* Parsing of css, layout, rendering, fonts and dates: sequential code over large
  data, where a state space says little. This is most of the repository.
