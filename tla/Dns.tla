-------------------------------- MODULE Dns --------------------------------
(***************************************************************************)
(* The DNS engine of dillo (src/src/dns.c).                                *)
(*                                                                         *)
(* The main thread runs a_Dns_resolve and, when the notification pipe is   *)
(* readable, Dns_timeout_client.  Each busy channel has a detached thread  *)
(* running Dns_server, which shares dns_server[channel] with the main      *)
(* thread without a lock.  Dns_timeout_client is split where a server      *)
(* thread can run between two of its reads; a_Dns_resolve reads only what  *)
(* the main thread writes and is one step.                                 *)
(*                                                                         *)
(* Data: a host name stands for all its spellings (dStrAsciiCasecmp), the  *)
(* address list of host h is h itself, NoAddr is the NULL list, status is  *)
(* 0 or 1 (any getaddrinfo error).  pthread_create is taken to succeed.    *)
(***************************************************************************)
EXTENDS Integers, Sequences, FiniteSets

CONSTANTS Hosts, Clients, NoHost, NoAddr,
          NumServers,      \* D_DNS_MAX_SERVERS
          StoresInOrder    \* do the stores of Dns_server become visible in
                           \* program order (no lock or barrier forces it)?

ASSUME NumServersAssumption == NumServers \in Nat \ {0}
ASSUME StoresAssumption == StoresInOrder \in BOOLEAN
ASSUME NullAssumption == NoHost \notin Hosts /\ NoAddr \notin Hosts

VARIABLES
  dns_server,   \* channel -> [state, hostname, status, addr_list, prev_list]
  dns_queue,    \* sequence of [channel, hostname, cb_data]
  dns_cache,    \* sequence of [hostname, addr_list]
  pipe,         \* bytes in dns_notify_pipe
  looking,      \* channels whose thread is in getaddrinfo
  notifying,    \* number of threads between their last store and write()
  main,         \* where the main thread is: [at, ch, i]
  asked,        \* client -> the host it asked for
  answers       \* client -> the calls made to its callback

vars == <<dns_server, dns_queue, dns_cache, pipe, looking, notifying, main,
          asked, answers>>

Channels == 0 .. NumServers - 1
Waiting  == -2            \* GDnsQueue.channel of a client without a channel

IDLE       == "DNS_SERVER_IDLE"
PROCESSING == "DNS_SERVER_PROCESSING"
RESOLVED   == "DNS_SERVER_RESOLVED"

AddrLists == Hosts \cup {NoAddr}
QueueEntry == [channel : Channels \cup {Waiting}, hostname : Hosts,
               cb_data : Clients]
Answers == [status : {0, 1}, addr : AddrLists]

(***************************************************************************)
(* Queue and cache helpers.                                                *)
(***************************************************************************)
Dns_queue_add(ch, h, c) ==
  dns_queue' = Append(dns_queue, [channel |-> ch, hostname |-> h, cb_data |-> c])

\* Mutant: misses the hosts that already have a channel.
Dns_queue_find_waiting(h) ==
  {i \in 1 .. Len(dns_queue) : /\ dns_queue[i].hostname = h
                               /\ dns_queue[i].channel = Waiting}

Dns_queue_find(h) == {i \in 1 .. Len(dns_queue) : dns_queue[i].hostname = h}

Dns_queue_remove(i) ==
  dns_queue' = [j \in 1 .. Len(dns_queue) - 1 |->
                  IF j < i THEN dns_queue[j] ELSE dns_queue[j + 1]]

Cached(h) == {i \in 1 .. Len(dns_cache) : dns_cache[i].hostname = h}

Dns_cache_add(h, list) ==
  dns_cache' = Append(dns_cache, [hostname |-> h, addr_list |-> list])

IdleChannels == {ch \in Channels : dns_server[ch].state = IDLE}
FirstWaiting(i) == /\ dns_queue[i].channel = Waiting
                   /\ \A j \in 1 .. i - 1 : dns_queue[j].channel # Waiting
SomeoneWaits == \E i \in 1 .. Len(dns_queue) : dns_queue[i].channel = Waiting

Loop == [at |-> "loop", ch |-> 0, i |-> 0]
At(where, ch, i) == [at |-> where, ch |-> ch, i |-> i]

Call(c, status, addr) ==
  answers' = [answers EXCEPT ![c] = Append(@, [status |-> status, addr |-> addr])]

Init ==
  /\ dns_server = [ch \in Channels |->
                     [state |-> IDLE, hostname |-> NoHost, status |-> 0,
                      addr_list |-> NoAddr, prev_list |-> NoAddr]]
  /\ dns_queue = <<>>
  /\ dns_cache = <<>>
  /\ pipe = 0
  /\ looking = {}
  /\ notifying = 0
  /\ main = Loop
  /\ asked = [c \in Clients |-> NoHost]
  /\ answers = [c \in Clients |-> <<>>]

\* Mutant: the channel is taken but not told its host.
Dns_server_req_no_host(ch, h) ==
  /\ dns_server' = [dns_server EXCEPT ![ch].state = PROCESSING]
  /\ looking' = looking \cup {ch}

(* Dns_server_req: take the channel and spawn its thread. *)
Dns_server_req(ch, h) ==
  /\ dns_server' = [dns_server EXCEPT ![ch].state = PROCESSING,
                                      ![ch].hostname = h]
  /\ looking' = looking \cup {ch}

(***************************************************************************)
(* a_Dns_resolve, one action per branch.                                   *)
(***************************************************************************)
Asks(c, h) == /\ main.at = "loop"
              /\ asked[c] = NoHost
              /\ asked' = [asked EXCEPT ![c] = h]

ResolveCached(c, h) ==
  /\ Asks(c, h)
  /\ \E i \in Cached(h) :
       /\ \A j \in Cached(h) : i <= j
       /\ Call(c, 0, dns_cache[i].addr_list)
  /\ UNCHANGED <<dns_server, dns_queue, dns_cache, pipe, looking, notifying, main>>

ResolveQueued(c, h) ==
  /\ Asks(c, h)
  /\ Cached(h) = {}
  /\ \E i \in Dns_queue_find(h) :
       /\ \A j \in Dns_queue_find(h) : i <= j
       /\ Dns_queue_add(dns_queue[i].channel, h, c)
  /\ UNCHANGED <<dns_server, dns_cache, pipe, looking, notifying, main, answers>>

ResolveNew(c, h) ==
  /\ Asks(c, h)
  /\ Cached(h) = {} /\ Dns_queue_find(h) = {}
  /\ \E ch \in IdleChannels :
       /\ \A k \in IdleChannels : ch <= k
       /\ Dns_queue_add(ch, h, c)
       /\ Dns_server_req(ch, h)
  /\ UNCHANGED <<dns_cache, pipe, notifying, main, answers>>

ResolveLater(c, h) ==
  /\ Asks(c, h)
  /\ Cached(h) = {} /\ Dns_queue_find(h) = {} /\ IdleChannels = {}
  /\ Dns_queue_add(Waiting, h, c)
  /\ UNCHANGED <<dns_server, dns_cache, pipe, looking, notifying, main, answers>>

a_Dns_resolve(c, h) == \/ ResolveCached(c, h) \/ ResolveQueued(c, h)
                       \/ ResolveNew(c, h)    \/ ResolveLater(c, h)

(***************************************************************************)
(* The server threads.                                                     *)
(***************************************************************************)
(* getaddrinfo returns; the results are stored and the state set last.     *)
(* Success leaves status 0; an answer with no usable address family leaves *)
(* status 0 and a NULL list.                                               *)
Dns_server(ch) ==
  /\ ch \in looking
  /\ looking' = looking \ {ch}
  /\ \E r \in {[status |-> 0, addr |-> dns_server[ch].hostname],
               [status |-> 0, addr |-> NoAddr],
               [status |-> 1, addr |-> NoAddr]} :
       dns_server' = [dns_server EXCEPT ![ch].status = r.status,
                                        ![ch].addr_list = r.addr,
                                        ![ch].prev_list = dns_server[ch].addr_list,
                                        ![ch].state = RESOLVED]
  /\ notifying' = notifying + 1
  /\ UNCHANGED <<dns_queue, dns_cache, pipe, main, asked, answers>>

(* write(dns_notify_pipe[1], ".", 1), the last thing the thread does. *)
Dns_server_notify ==
  /\ notifying > 0
  /\ notifying' = notifying - 1
  /\ pipe' = pipe + 1
  /\ UNCHANGED <<dns_server, dns_queue, dns_cache, looking, main, asked, answers>>

(***************************************************************************)
(* Dns_timeout_client, called by the main loop when the pipe is readable.  *)
(***************************************************************************)
Dns_timeout_client ==
  /\ main.at = "loop" /\ pipe > 0
  /\ pipe' = 0
  /\ main' = At("scan", 0, 0)
  /\ UNCHANGED <<dns_server, dns_queue, dns_cache, looking, notifying, asked, answers>>

(* What the main thread may read in addr_list once it has read RESOLVED:   *)
(* the two stores are adjacent and nothing orders them, so unless the      *)
(* build keeps them in order the previous list can still be there.  Once   *)
(* the new list was read the old one is gone (prev_list follows).          *)
VisibleLists(ch) == IF StoresInOrder THEN {dns_server[ch].addr_list}
                    ELSE {dns_server[ch].addr_list, dns_server[ch].prev_list}

ScanChannel ==
  /\ main.at = "scan" /\ main.ch \in Channels
  /\ IF dns_server[main.ch].state = RESOLVED
     THEN \E list \in VisibleLists(main.ch) :
            /\ IF list # NoAddr THEN Dns_cache_add(dns_server[main.ch].hostname, list)
               ELSE UNCHANGED dns_cache
            /\ dns_server' = [dns_server EXCEPT ![main.ch].prev_list = list]
            /\ main' = At("serve", main.ch, 1)
     ELSE /\ main' = At("scan", main.ch + 1, 0)
          /\ UNCHANGED <<dns_cache, dns_server>>
  /\ UNCHANGED <<dns_queue, pipe, looking, notifying, asked, answers>>

\* Mutant: the index advances past the entry that moved into its place.
Dns_serve_channel_skips ==
  /\ main.at = "serve" /\ main.i <= Len(dns_queue)
  /\ main' = [main EXCEPT !.i = @ + 1]
  /\ LET e == dns_queue[main.i] IN
       IF e.channel = main.ch
       THEN /\ Call(e.cb_data, dns_server[main.ch].status,
                    dns_server[main.ch].addr_list)
            /\ Dns_queue_remove(main.i)
       ELSE UNCHANGED <<answers, dns_queue>>
  /\ UNCHANGED <<dns_server, dns_cache, pipe, looking, notifying, asked>>

\* Mutant: answers every entry of the queue, whatever its channel.
Dns_serve_channel_all ==
  /\ main.at = "serve" /\ main.i <= Len(dns_queue)
  /\ Call(dns_queue[main.i].cb_data, dns_server[main.ch].status,
          dns_server[main.ch].addr_list)
  /\ Dns_queue_remove(main.i)
  /\ UNCHANGED <<dns_server, main, dns_cache, pipe, looking, notifying, asked>>

(* One turn of the loop of Dns_serve_channel: an entry of this channel is  *)
(* answered and removed, so the index stays; any other entry is skipped.   *)
Dns_serve_channel ==
  /\ main.at = "serve" /\ main.i <= Len(dns_queue)
  /\ LET e == dns_queue[main.i] IN
       IF e.channel = main.ch
       THEN /\ \E list \in VisibleLists(main.ch) :
                 /\ Call(e.cb_data, dns_server[main.ch].status, list)
                 /\ dns_server' = [dns_server EXCEPT ![main.ch].prev_list = list]
            /\ Dns_queue_remove(main.i)
            /\ UNCHANGED main
       ELSE /\ main' = [main EXCEPT !.i = @ + 1]
            /\ UNCHANGED <<answers, dns_queue, dns_server>>
  /\ UNCHANGED <<dns_cache, pipe, looking, notifying, asked>>

(* The queue is exhausted: the channel becomes idle, the scan goes on. *)
ChannelServed ==
  /\ main.at = "serve" /\ main.i > Len(dns_queue)
  /\ dns_server' = [dns_server EXCEPT ![main.ch].state = IDLE]
  /\ main' = At("scan", main.ch + 1, 0)
  /\ UNCHANGED <<dns_queue, dns_cache, pipe, looking, notifying, asked, answers>>

\* Mutant: returns without Dns_assign_channels.
ScanDone_no_assign ==
  /\ main.at = "scan" /\ main.ch = NumServers
  /\ main' = Loop
  /\ UNCHANGED <<dns_server, dns_queue, dns_cache, pipe, looking, notifying,
                 asked, answers>>

ScanDone ==
  /\ main.at = "scan" /\ main.ch = NumServers
  /\ main' = At("assign", 0, 0)
  /\ UNCHANGED <<dns_server, dns_queue, dns_cache, pipe, looking, notifying,
                 asked, answers>>

\* Mutant: the channel is told the host of the first entry of the queue.
AssignTo_head(i, chosen) ==
  /\ FirstWaiting(i)
  /\ dns_queue' = [j \in 1 .. Len(dns_queue) |->
                     IF j \in chosen THEN [dns_queue[j] EXCEPT !.channel = main.ch]
                     ELSE dns_queue[j]]
  /\ Dns_server_req(main.ch, dns_queue[1].hostname)

AssignTo(i, chosen) ==
  /\ FirstWaiting(i)
  /\ dns_queue' = [j \in 1 .. Len(dns_queue) |->
                     IF j \in chosen THEN [dns_queue[j] EXCEPT !.channel = main.ch]
                     ELSE dns_queue[j]]
  /\ Dns_server_req(main.ch, dns_queue[i].hostname)

SameHostWaiting(i) ==
  {j \in i .. Len(dns_queue) : /\ dns_queue[j].channel = Waiting
                               /\ dns_queue[j].hostname = dns_queue[i].hostname}

(* One turn of the loop of Dns_assign_channels: an idle channel takes the  *)
(* oldest waiting host, for all the clients that wait for it.              *)
Dns_assign_channels ==
  /\ main.at = "assign" /\ main.ch \in Channels
  /\ IF dns_server[main.ch].state = IDLE /\ SomeoneWaits
     THEN \E i \in 1 .. Len(dns_queue) : AssignTo(i, SameHostWaiting(i))
     ELSE UNCHANGED <<dns_queue, dns_server, looking>>
  /\ main' = At("assign", main.ch + 1, 0)
  /\ UNCHANGED <<dns_cache, pipe, notifying, asked, answers>>

\* Mutant: the pipe is drained after the scan instead of before it.
AssignDone_drains ==
  /\ main.at = "assign" /\ main.ch = NumServers
  /\ main' = Loop
  /\ pipe' = 0
  /\ UNCHANGED <<dns_server, dns_queue, dns_cache, looking, notifying, asked, answers>>

AssignDone ==
  /\ main.at = "assign" /\ main.ch = NumServers
  /\ main' = Loop
  /\ UNCHANGED <<dns_server, dns_queue, dns_cache, pipe, looking, notifying,
                 asked, answers>>

Main == \/ Dns_timeout_client \/ ScanChannel \/ Dns_serve_channel
        \/ ChannelServed \/ ScanDone \/ Dns_assign_channels \/ AssignDone

Next == \/ \E c \in Clients, h \in Hosts : a_Dns_resolve(c, h)
        \/ \E ch \in Channels : Dns_server(ch)
        \/ Dns_server_notify
        \/ Main

(* The main loop serves a readable pipe and runs its handler to the end;   *)
(* every thread is scheduled, and getaddrinfo has timeouts of its own.     *)
(* Nothing makes clients ask.                                              *)
Fairness == /\ WF_vars(Main)
            /\ WF_vars(Dns_server_notify)
            /\ \A ch \in Channels : WF_vars(Dns_server(ch))

Spec == Init /\ [][Next]_vars /\ Fairness
-----------------------------------------------------------------------------
(***************************************************************************)
(* Properties.                                                             *)
(***************************************************************************)
Busy(ch) == dns_server[ch].state # IDLE

(* Type invariant: every variable of dns.c holds a value of its C type,    *)
(* and a channel whose thread runs has a host name to look up.             *)
TypeOK ==
  /\ dns_server \in [Channels ->
       [state : {IDLE, PROCESSING, RESOLVED}, hostname : Hosts \cup {NoHost},
        status : {0, 1}, addr_list : AddrLists, prev_list : AddrLists]]
  /\ dns_queue \in Seq(QueueEntry)
  /\ dns_cache \in Seq([hostname : Hosts, addr_list : AddrLists])
  /\ pipe \in Nat /\ notifying \in Nat
  /\ looking \in SUBSET Channels
  /\ main \in [at : {"loop", "scan", "serve", "assign"}, ch : 0 .. NumServers,
               i : Nat]
  /\ asked \in [Clients -> Hosts \cup {NoHost}]
  /\ answers \in [Clients -> Seq(Answers)]
  /\ \A ch \in Channels : Busy(ch) => dns_server[ch].hostname \in Hosts

(* Two busy channels never look up the same host: a_Dns_resolve joins a    *)
(* lookup in progress, and Dns_assign_channels gives a host one channel.   *)
OneLookupPerHost ==
  \A a, b \in Channels :
    /\ Busy(a) /\ Busy(b) /\ dns_server[a].hostname = dns_server[b].hostname
    => a = b

(* Every queued client can be served: with a channel, the channel is busy  *)
(* with the host the client asked for; without one, no channel works on    *)
(* that host (the client would be passed over by Dns_serve_channel).       *)
QueueServable ==
  \A i \in 1 .. Len(dns_queue) :
    LET e == dns_queue[i] IN
      /\ e.hostname = asked[e.cb_data]
      /\ e.channel # Waiting =>
           Busy(e.channel) /\ dns_server[e.channel].hostname = e.hostname
      /\ e.channel = Waiting =>
           \A ch \in Channels : Busy(ch) => dns_server[ch].hostname # e.hostname

(* Between two calls into dns.c nobody waits while a channel is idle: only *)
(* the end of a lookup calls Dns_assign_channels, so a client left behind  *)
(* with all channels idle would wait for ever.                             *)
NoIdleChannelWhileWaiting ==
  main.at = "loop" /\ SomeoneWaits => IdleChannels = {}

(* No lost wake-up: while a resolved channel has not been collected, a     *)
(* byte is in the pipe, or a thread is about to write one, or the handler  *)
(* is running and has not passed that channel yet.                         *)
NoLostWakeup ==
  \A ch \in Channels :
    dns_server[ch].state = RESOLVED =>
      \/ pipe > 0 \/ notifying > 0
      \/ main.at \in {"scan", "serve"} /\ main.ch <= ch

(* A request is in exactly one place: queued once, or answered once.       *)
OneAnswerEach ==
  \A c \in Clients :
    LET places == {i \in 1 .. Len(dns_queue) : dns_queue[i].cb_data = c} IN
      /\ \A i, j \in places : i = j
      /\ places # {} => answers[c] = <<>>
      /\ Len(answers[c]) <= 1
      /\ asked[c] # NoHost <=> places # {} \/ answers[c] # <<>>

(* "Return the IP for the given hostname using a callback": the list given *)
(* to a client, and the list the cache keeps for a host, is that host's.   *)
AnswersTheHostAsked ==
  /\ \A c \in Clients : \A i \in 1 .. Len(answers[c]) :
       answers[c][i].addr \in {asked[c], NoAddr}
  /\ \A i \in 1 .. Len(dns_cache) :
       dns_cache[i].addr_list = dns_cache[i].hostname

(* A host enters the cache once, and is never looked up again.             *)
CachedOnce ==
  /\ \A i, j \in 1 .. Len(dns_cache) :
       dns_cache[i].hostname = dns_cache[j].hostname => i = j
  /\ \A ch \in looking : Cached(dns_server[ch].hostname) = {}

(* A request ends in one answer, the answer of the host it asked for, and  *)
(* no host is looked up again once the cache has it.                       *)
AnswersSound == OneAnswerEach /\ AnswersTheHostAsked /\ CachedOnce

(* The engine implements the promise of Resolver: a host is known when it  *)
(* is in the cache, and the threads, channels and the pipe stutter.  The   *)
(* fairness of Resolver is part of it: every client that asks is answered. *)
R == INSTANCE Resolver WITH known <- {h \in Hosts : Cached(h) # {}}
ImplementsResolver == R!Spec
=============================================================================
