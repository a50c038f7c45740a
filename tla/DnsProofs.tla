----------------------------- MODULE DnsProofs -----------------------------
(***************************************************************************)
(* Proofs about the DNS engine (Dns.tla) for any number of channels,       *)
(* hosts and clients.                                                      *)
(*                                                                         *)
(* The properties the runs check are not inductive one by one.  The        *)
(* invariant they follow from adds what links the main thread's place in   *)
(* the handler to the channels and the queue:                              *)
(*   LookingProcesses  a thread runs for exactly the PROCESSING channels   *)
(*   ServedPrefix      what Dns_serve_channel has passed it need not see   *)
(*                     again                                               *)
(*   BusyHasClient     a busy channel works for somebody, so that the      *)
(*                     search of the queue finds every lookup in progress  *)
(*   AssignedPrefix    Dns_assign_channels leaves no idle channel behind   *)
(***************************************************************************)
EXTENDS Dns, TLAPS, SequenceTheorems

LookingProcesses == looking = {ch \in Channels : dns_server[ch].state = PROCESSING}

ServedPrefix ==
  main.at = "serve" =>
    /\ main.ch \in Channels
    /\ dns_server[main.ch].state = RESOLVED
    /\ main.i > 0
    /\ \A j \in 1 .. Len(dns_queue) : j < main.i => dns_queue[j].channel # main.ch

BusyHasClient ==
  \A ch \in Channels :
    Busy(ch) /\ ~(main.at = "serve" /\ main.ch = ch) =>
      \E i \in 1 .. Len(dns_queue) : dns_queue[i].channel = ch

AssignedPrefix ==
  main.at = "assign" /\ SomeoneWaits => \A ch \in Channels : ch < main.ch => Busy(ch)

IInv == /\ TypeOK
        /\ LookingProcesses
        /\ NoLostWakeup
        /\ ServedPrefix
        /\ QueueServable
        /\ BusyHasClient
        /\ OneLookupPerHost
        /\ AssignedPrefix
        /\ NoIdleChannelWhileWaiting
-----------------------------------------------------------------------------
(***************************************************************************)
(* Sequences.                                                              *)
(***************************************************************************)
(* Removing the entry at an index, as Dns_queue_remove does.               *)
LEMMA RemoveAt ==
  ASSUME NEW S, NEW s \in Seq(S), NEW i \in 1 .. Len(s), NEW r,
         r = [j \in 1 .. Len(s) - 1 |-> IF j < i THEN s[j] ELSE s[j + 1]]
  PROVE  /\ r \in Seq(S)
         /\ Len(r) = Len(s) - 1
         /\ \A j \in 1 .. Len(s) - 1 : r[j] = IF j < i THEN s[j] ELSE s[j + 1]
<1>1. Len(s) \in Nat /\ Len(s) - 1 \in Nat /\ \A j \in 1 .. Len(s) : s[j] \in S
  BY LenProperties, ElementOfSeq
<1>2. r \in [1 .. Len(s) - 1 -> S]
  BY <1>1
<1>3. r \in Seq(S)
  BY <1>1, <1>2, SeqDef
<1> QED BY <1>1, <1>2, <1>3, LenProperties

(* Appending an entry, as Dns_queue_add and Dns_cache_add do.              *)
LEMMA AppendAt ==
  ASSUME NEW S, NEW s \in Seq(S), NEW e \in S
  PROVE  /\ Append(s, e) \in Seq(S)
         /\ Len(Append(s, e)) = Len(s) + 1
         /\ \A j \in 1 .. Len(s) : Append(s, e)[j] = s[j]
         /\ Append(s, e)[Len(s) + 1] = e
  BY LenProperties

(* Overwriting entries in place, as Dns_assign_channels does.              *)
LEMMA MapAt ==
  ASSUME NEW S, NEW s \in Seq(S), NEW r,
         r \in [1 .. Len(s) -> S]
  PROVE  r \in Seq(S) /\ Len(r) = Len(s)
<1>1. Len(s) \in Nat
  BY LenProperties
<1>2. r \in Seq(S)
  BY <1>1, SeqDef
<1> QED BY <1>1, <1>2, LenProperties
-----------------------------------------------------------------------------
(***************************************************************************)
(* Type correctness.                                                       *)
(***************************************************************************)
Server == [state : {IDLE, PROCESSING, RESOLVED}, hostname : Hosts \cup {NoHost},
           status : {0, 1}, addr_list : AddrLists, prev_list : AddrLists]
Servers == [Channels -> Server]
Places == [at : {"loop", "scan", "serve", "assign"}, ch : 0 .. NumServers, i : Nat]

LEMMA TypeInit == Init => TypeOK
<1> SUFFICES ASSUME Init PROVE TypeOK OBVIOUS
<1> USE NumServersAssumption
<1>1. dns_server \in Servers /\ \A ch \in Channels : ~Busy(ch)
  BY DEF Init, Servers, Server, Busy, IDLE, PROCESSING, RESOLVED, AddrLists
<1>2. dns_queue \in Seq(QueueEntry)
  BY DEF Init
<1>3. dns_cache \in Seq([hostname : Hosts, addr_list : AddrLists])
  BY DEF Init
<1>4. main \in Places /\ pipe \in Nat /\ notifying \in Nat /\ looking \in SUBSET Channels
  BY DEF Init, Loop, Places
<1>5. asked \in [Clients -> Hosts \cup {NoHost}] /\ answers \in [Clients -> Seq(Answers)]
  BY DEF Init
<1> QED BY <1>1, <1>2, <1>3, <1>4, <1>5 DEF TypeOK, Servers, Server, Places

(* What the helpers do to the types of the variables they change.          *)
LEMMA QueueAddType ==
  ASSUME TypeOK, NEW ch \in Channels \cup {Waiting}, NEW h \in Hosts, NEW c \in Clients,
         Dns_queue_add(ch, h, c)
  PROVE  /\ dns_queue' \in Seq(QueueEntry)
         /\ Len(dns_queue') = Len(dns_queue) + 1 /\ Len(dns_queue) \in Nat
         /\ \A i \in 1 .. Len(dns_queue) : dns_queue'[i] = dns_queue[i]
         /\ dns_queue'[Len(dns_queue) + 1] = [channel |-> ch, hostname |-> h, cb_data |-> c]
<1> DEFINE e == [channel |-> ch, hostname |-> h, cb_data |-> c]
<1>1. e \in QueueEntry
  BY DEF QueueEntry
<1>2. dns_queue \in Seq(QueueEntry) /\ dns_queue' = Append(dns_queue, e)
  BY DEF TypeOK, Dns_queue_add
<1> HIDE DEF e
<1>3. dns_queue' \in Seq(QueueEntry) /\ Len(dns_queue') = Len(dns_queue) + 1
      /\ (\A i \in 1 .. Len(dns_queue) : dns_queue'[i] = dns_queue[i])
      /\ dns_queue'[Len(dns_queue) + 1] = e
  BY <1>1, <1>2, AppendAt
<1>4. Len(dns_queue) \in Nat
  BY <1>2, LenProperties
<1> QED BY <1>3, <1>4 DEF e

LEMMA QueueRemoveType ==
  ASSUME TypeOK, NEW i \in 1 .. Len(dns_queue), Dns_queue_remove(i)
  PROVE  /\ dns_queue' \in Seq(QueueEntry)
         /\ Len(dns_queue') = Len(dns_queue) - 1 /\ Len(dns_queue) \in Nat
         /\ \A j \in 1 .. Len(dns_queue) - 1 :
              dns_queue'[j] = IF j < i THEN dns_queue[j] ELSE dns_queue[j + 1]
<1>1. dns_queue \in Seq(QueueEntry) /\ Len(dns_queue) \in Nat
  BY LenProperties DEF TypeOK
<1> QED BY <1>1, RemoveAt DEF Dns_queue_remove

LEMMA CallType ==
  ASSUME TypeOK, NEW c \in Clients, NEW st \in {0, 1}, NEW addr \in AddrLists,
         Call(c, st, addr)
  PROVE  answers' \in [Clients -> Seq(Answers)]
<1> DEFINE a == [status |-> st, addr |-> addr]
<1>1. a \in Answers
  BY DEF Answers
<1>2. answers \in [Clients -> Seq(Answers)] /\ answers' = [answers EXCEPT ![c] = Append(@, a)]
  BY DEF TypeOK, Call
<1> HIDE DEF a
<1>3. Append(answers[c], a) \in Seq(Answers)
  BY <1>1, <1>2, AppendAt
<1> QED BY <1>2, <1>3

(* A channel that is taken is busy with the host it was given.             *)
LEMMA ServerReqType ==
  ASSUME TypeOK, NEW ch \in Channels, NEW h \in Hosts, Dns_server_req(ch, h)
  PROVE  /\ dns_server' \in Servers
         /\ looking' \in SUBSET Channels
         /\ Busy(ch)' /\ dns_server'[ch].hostname = h /\ dns_server'[ch].state = PROCESSING
         /\ \A k \in Channels : k # ch => dns_server'[k] = dns_server[k]
         /\ \A k \in Channels : Busy(k)' => dns_server'[k].hostname \in Hosts
<1>1. dns_server \in Servers /\ looking \in SUBSET Channels
  BY DEF TypeOK, Servers, Server
<1>2. dns_server' \in Servers /\ looking' \in SUBSET Channels
  BY <1>1 DEF Dns_server_req, Servers, Server
<1>3. dns_server'[ch].hostname = h /\ dns_server'[ch].state = PROCESSING
  BY <1>1 DEF Dns_server_req, Servers, Server
<1>4. \A k \in Channels : k # ch => dns_server'[k] = dns_server[k]
  BY <1>1 DEF Dns_server_req, Servers, Server
<1>5. Busy(ch)'
  BY <1>3 DEF Busy, IDLE, PROCESSING
<1> QED BY <1>2, <1>3, <1>4, <1>5 DEF TypeOK, Busy

LEMMA TypeNext == TypeOK /\ LookingProcesses /\ ServedPrefix /\ [Next]_vars => TypeOK'
<1> SUFFICES ASSUME TypeOK, LookingProcesses, ServedPrefix, [Next]_vars PROVE TypeOK'
  OBVIOUS
<1> USE NumServersAssumption
<1> DEFINE NamesOK == \A ch \in Channels : Busy(ch) => dns_server[ch].hostname \in Hosts
<1>t. /\ dns_server \in Servers /\ NamesOK
      /\ dns_queue \in Seq(QueueEntry) /\ Len(dns_queue) \in Nat
      /\ dns_cache \in Seq([hostname : Hosts, addr_list : AddrLists])
      /\ pipe \in Nat /\ notifying \in Nat /\ looking \in SUBSET Channels
      /\ main \in Places /\ asked \in [Clients -> Hosts \cup {NoHost}]
      /\ answers \in [Clients -> Seq(Answers)]
  BY LenProperties DEF TypeOK, Servers, Server, Places
<1>u. \A i \in 1 .. Len(dns_queue) :
        /\ dns_queue[i].channel \in Channels \cup {Waiting}
        /\ dns_queue[i].hostname \in Hosts /\ dns_queue[i].cb_data \in Clients
  <2>1. \A i \in 1 .. Len(dns_queue) : dns_queue[i] \in QueueEntry
    BY <1>t, ElementOfSeq
  <2> QED BY <2>1 DEF QueueEntry
<1>q. ASSUME dns_server' \in Servers, NamesOK',
             dns_queue' \in Seq(QueueEntry),
             dns_cache' \in Seq([hostname : Hosts, addr_list : AddrLists]),
             pipe' \in Nat, notifying' \in Nat, looking' \in SUBSET Channels,
             main' \in Places, asked' \in [Clients -> Hosts \cup {NoHost}],
             answers' \in [Clients -> Seq(Answers)]
      PROVE  TypeOK'
  BY <1>q DEF TypeOK, Servers, Server, Places
<1>n. UNCHANGED dns_server => dns_server' \in Servers /\ NamesOK'
  BY <1>t DEF Busy
<1> HIDE DEF NamesOK
<1>1. ASSUME NEW c \in Clients, NEW h \in Hosts, a_Dns_resolve(c, h) PROVE TypeOK'
  <2>a. asked' \in [Clients -> Hosts \cup {NoHost}]
    BY <1>1, <1>t DEF a_Dns_resolve, ResolveCached, ResolveQueued, ResolveNew, ResolveLater, Asks
  <2>1. CASE ResolveCached(c, h)
    <3>1. PICK i \in 1 .. Len(dns_cache) : Call(c, 0, dns_cache[i].addr_list)
      BY <2>1 DEF ResolveCached, Cached
    <3>2. dns_cache[i] \in [hostname : Hosts, addr_list : AddrLists]
      BY <1>t, ElementOfSeq
    <3>3. answers' \in [Clients -> Seq(Answers)]
      BY <3>1, <3>2, CallType
    <3> QED BY <2>1, <2>a, <1>t, <1>n, <1>q, <3>3 DEF ResolveCached
  <2>2. CASE ResolveQueued(c, h)
    <3>1. PICK i \in 1 .. Len(dns_queue) : Dns_queue_add(dns_queue[i].channel, h, c)
      BY <2>2 DEF ResolveQueued, Dns_queue_find
    <3>2. dns_queue' \in Seq(QueueEntry)
      BY <3>1, <1>u, QueueAddType
    <3> QED BY <2>2, <2>a, <1>t, <1>n, <1>q, <3>2 DEF ResolveQueued
  <2>3. CASE ResolveNew(c, h)
    <3>1. PICK ch \in Channels : Dns_queue_add(ch, h, c) /\ Dns_server_req(ch, h)
      BY <2>3 DEF ResolveNew, IdleChannels
    <3>2. dns_queue' \in Seq(QueueEntry)
      BY <3>1, QueueAddType
    <3>3. dns_server' \in Servers /\ looking' \in SUBSET Channels /\ NamesOK'
      BY <3>1, ServerReqType DEF NamesOK
    <3> QED BY <2>3, <2>a, <1>t, <1>q, <3>2, <3>3 DEF ResolveNew
  <2>4. CASE ResolveLater(c, h)
    <3>1. dns_queue' \in Seq(QueueEntry)
      BY <2>4, QueueAddType DEF ResolveLater
    <3> QED BY <2>4, <2>a, <1>t, <1>n, <1>q, <3>1 DEF ResolveLater
  <2> QED BY <1>1, <2>1, <2>2, <2>3, <2>4 DEF a_Dns_resolve
<1>2. ASSUME NEW ch \in Channels, Dns_server(ch) PROVE TypeOK'
  <2>0. dns_server[ch].state = PROCESSING
    BY <1>2 DEF Dns_server, LookingProcesses
  <2>1. dns_server[ch].hostname \in Hosts
    BY <2>0, <1>t DEF NamesOK, Busy, PROCESSING, IDLE
  <2>2. \E st \in {0, 1}, addr \in AddrLists :
          dns_server' = [dns_server EXCEPT ![ch].status = st,
                                           ![ch].addr_list = addr,
                                           ![ch].prev_list = dns_server[ch].addr_list,
                                           ![ch].state = RESOLVED]
    <3>1. PICK r \in {[status |-> 0, addr |-> dns_server[ch].hostname],
                      [status |-> 0, addr |-> NoAddr],
                      [status |-> 1, addr |-> NoAddr]} :
            dns_server' = [dns_server EXCEPT ![ch].status = r.status,
                                             ![ch].addr_list = r.addr,
                                             ![ch].prev_list = dns_server[ch].addr_list,
                                             ![ch].state = RESOLVED]
      BY <1>2 DEF Dns_server
    <3>2. r.status \in {0, 1} /\ r.addr \in AddrLists
      BY <2>1 DEF AddrLists
    <3> QED BY <3>1, <3>2
  <2>q. PICK st \in {0, 1}, addr \in AddrLists :
          dns_server' = [dns_server EXCEPT ![ch].status = st,
                                           ![ch].addr_list = addr,
                                           ![ch].prev_list = dns_server[ch].addr_list,
                                           ![ch].state = RESOLVED]
    BY <2>2
  <2>3. /\ dns_server' \in Servers
        /\ \A k \in Channels : dns_server'[k].hostname = dns_server[k].hostname
        /\ \A k \in Channels : k # ch => dns_server'[k].state = dns_server[k].state
    <3>1. dns_server' \in Servers
      <4> DEFINE r == [dns_server[ch] EXCEPT !.status = st, !.addr_list = addr,
                         !.prev_list = dns_server[ch].addr_list, !.state = RESOLVED]
      <4>0. dns_server[ch] \in Server
        BY <1>t DEF Servers
      <4>1. r \in Server
        BY <4>0, <2>q DEF Server
      <4>2. dns_server' = [dns_server EXCEPT ![ch] = r]
        BY <2>q, <1>t DEF Servers, Server
      <4> HIDE DEF r
      <4> QED BY <4>1, <4>2, <1>t DEF Servers
    <3>2. \A k \in Channels : dns_server'[k].hostname = dns_server[k].hostname
      BY <2>q, <1>t DEF Servers, Server
    <3>3. \A k \in Channels : k # ch => dns_server'[k].state = dns_server[k].state
      BY <2>q, <1>t DEF Servers, Server
    <3> QED BY <3>1, <3>2, <3>3
  <2>4. NamesOK'
    BY <2>1, <2>3, <1>t DEF NamesOK, Busy
  <2> QED BY <1>2, <2>3, <2>4, <1>t, <1>q DEF Dns_server
<1>3. CASE Dns_server_notify
  BY <1>3, <1>t, <1>n, <1>q DEF Dns_server_notify
<1>4. CASE Dns_timeout_client
  BY <1>4, <1>t, <1>n, <1>q DEF Dns_timeout_client, At, Places
<1>v. \A ch \in Channels : VisibleLists(ch) \subseteq AddrLists
  BY <1>t DEF VisibleLists, Servers, Server
<1>5. CASE ScanChannel
  <2>m. main' \in Places /\ main.ch \in Channels
    BY <1>5, <1>t DEF ScanChannel, Channels, At, Places
  <2>1. CASE dns_server[main.ch].state = RESOLVED
    <3>1. PICK list \in VisibleLists(main.ch) :
            /\ IF list # NoAddr THEN Dns_cache_add(dns_server[main.ch].hostname, list)
               ELSE UNCHANGED dns_cache
            /\ dns_server' = [dns_server EXCEPT ![main.ch].prev_list = list]
      BY <1>5, <2>1 DEF ScanChannel
    <3>2. list \in AddrLists /\ dns_server[main.ch].hostname \in Hosts
      BY <2>1, <2>m, <1>v, <1>t DEF NamesOK, Busy, IDLE, RESOLVED
    <3>3. /\ dns_server' \in Servers
          /\ \A k \in Channels : /\ dns_server'[k].hostname = dns_server[k].hostname
                                  /\ dns_server'[k].state = dns_server[k].state
      BY <3>1, <3>2, <1>t, <2>m, ZenonT(40) DEF Servers, Server
    <3>4. NamesOK'
      BY <3>3, <1>t DEF NamesOK, Busy
    <3>5. dns_cache' \in Seq([hostname : Hosts, addr_list : AddrLists])
      <4> DEFINE e == [hostname |-> dns_server[main.ch].hostname, addr_list |-> list]
      <4>1. e \in [hostname : Hosts, addr_list : AddrLists]
        BY <3>2
      <4>2. dns_cache' = Append(dns_cache, e) \/ dns_cache' = dns_cache
        BY <3>1 DEF Dns_cache_add
      <4>3. \A f \in [hostname : Hosts, addr_list : AddrLists] :
              Append(dns_cache, f) \in Seq([hostname : Hosts, addr_list : AddrLists])
        BY <1>t, AppendAt
      <4> HIDE DEF e
      <4> QED BY <4>1, <4>2, <4>3, <1>t
    <3> QED BY <1>5, <2>m, <3>3, <3>4, <3>5, <1>t, <1>q DEF ScanChannel
  <2>2. CASE dns_server[main.ch].state # RESOLVED
    BY <1>5, <2>2, <2>m, <1>t, <1>n, <1>q DEF ScanChannel
  <2> QED BY <2>1, <2>2
<1>6. CASE Dns_serve_channel
  <2>m. main.at = "serve" /\ main.ch \in Channels /\ main.i \in Nat /\ main.i <= Len(dns_queue)
    BY <1>6, <1>t DEF Dns_serve_channel, ServedPrefix, Places
  <2>1. CASE dns_queue[main.i].channel = main.ch
    <3>1. PICK list \in VisibleLists(main.ch) :
            /\ Call(dns_queue[main.i].cb_data, dns_server[main.ch].status, list)
            /\ dns_server' = [dns_server EXCEPT ![main.ch].prev_list = list]
      BY <1>6, <2>1 DEF Dns_serve_channel
    <3>2. /\ main.i \in 1 .. Len(dns_queue) /\ Dns_queue_remove(main.i)
          /\ list \in AddrLists /\ dns_server[main.ch].status \in {0, 1}
      BY <1>6, <2>1, <2>m, <1>t, <1>v DEF Dns_serve_channel, ServedPrefix, Servers, Server
    <3>3. dns_queue' \in Seq(QueueEntry) /\ answers' \in [Clients -> Seq(Answers)]
      BY <3>1, <3>2, <1>u, QueueRemoveType, CallType
    <3>4. /\ dns_server' \in Servers
          /\ \A k \in Channels : /\ dns_server'[k].hostname = dns_server[k].hostname
                                  /\ dns_server'[k].state = dns_server[k].state
      BY <3>1, <3>2, <1>t, <2>m, ZenonT(40) DEF Servers, Server
    <3>5. NamesOK'
      BY <3>4, <1>t DEF NamesOK, Busy
    <3> QED BY <1>6, <2>1, <3>3, <3>4, <3>5, <1>t, <1>q DEF Dns_serve_channel
  <2>2. CASE dns_queue[main.i].channel # main.ch
    BY <1>6, <2>2, <2>m, <1>t, <1>n, <1>q, SMTT(30) DEF Dns_serve_channel, Places
  <2> QED BY <2>1, <2>2
<1>7. CASE ChannelServed
  <2>1. main.ch \in Channels
    BY <1>7 DEF ChannelServed, ServedPrefix
  <2>2. /\ dns_server' \in Servers
        /\ \A k \in Channels : dns_server'[k].hostname = dns_server[k].hostname
        /\ \A k \in Channels : k # main.ch => dns_server'[k].state = dns_server[k].state
        /\ dns_server'[main.ch].state = IDLE
    BY <1>7, <2>1, <1>t, ZenonT(40) DEF ChannelServed, Servers, Server
  <2>3. NamesOK'
    BY <2>2, <1>t DEF NamesOK, Busy
  <2>4. main' \in Places
    BY <1>7, <2>1, <1>t DEF ChannelServed, At, Places, Channels
  <2> QED BY <1>7, <2>2, <2>3, <2>4, <1>t, <1>q DEF ChannelServed
<1>8. CASE ScanDone
  <2>1. main' \in Places
    BY <1>8 DEF ScanDone, At, Places
  <2> QED BY <1>8, <2>1, <1>t, <1>n, <1>q DEF ScanDone
<1>9. CASE Dns_assign_channels
  <2>1. main.ch \in Channels /\ main' \in Places
    BY <1>9, <1>t DEF Dns_assign_channels, At, Places, Channels
  <2>2. CASE dns_server[main.ch].state = IDLE /\ SomeoneWaits
    <3>1. PICK i \in 1 .. Len(dns_queue) : AssignTo(i, SameHostWaiting(i))
      BY <1>9, <2>2 DEF Dns_assign_channels
    <3>2. Dns_server_req(main.ch, dns_queue[i].hostname)
      BY <3>1 DEF AssignTo
    <3>3. dns_server' \in Servers /\ looking' \in SUBSET Channels /\ NamesOK'
      BY <3>2, <1>u, <2>1, ServerReqType DEF NamesOK
    <3>4. dns_queue' \in [1 .. Len(dns_queue) -> QueueEntry]
      <4> DEFINE f == [j \in 1 .. Len(dns_queue) |->
                     IF j \in SameHostWaiting(i)
                     THEN [dns_queue[j] EXCEPT !.channel = main.ch] ELSE dns_queue[j]]
      <4>1. dns_queue' = f
        BY <3>1 DEF AssignTo
      <4>2. \A j \in 1 .. Len(dns_queue) : dns_queue[j] \in QueueEntry
        BY <1>t, ElementOfSeq
      <4>3. \A j \in 1 .. Len(dns_queue) :
              [dns_queue[j] EXCEPT !.channel = main.ch] \in QueueEntry
        BY <4>2, <2>1 DEF QueueEntry
      <4>4. f \in [1 .. Len(dns_queue) -> QueueEntry]
        BY <4>2, <4>3
      <4> QED BY <4>1, <4>4
    <3>5. dns_queue' \in Seq(QueueEntry)
      BY <3>4, <1>t, MapAt
    <3> QED BY <1>9, <2>1, <3>3, <3>5, <1>t, <1>q DEF Dns_assign_channels
  <2>3. CASE ~(dns_server[main.ch].state = IDLE /\ SomeoneWaits)
    <3>1. UNCHANGED <<dns_queue, dns_server, looking>>
      BY <1>9, <2>3 DEF Dns_assign_channels
    <3> QED BY <1>9, <2>1, <3>1, <1>t, <1>n, <1>q DEF Dns_assign_channels
  <2> QED BY <2>2, <2>3
<1>10. CASE AssignDone
  <2>1. main' \in Places
    BY <1>10 DEF AssignDone, Loop, Places
  <2> QED BY <1>10, <2>1, <1>t, <1>n, <1>q DEF AssignDone
<1>11. CASE UNCHANGED vars
  BY <1>11, <1>t, <1>n, <1>q DEF vars
<1> QED BY <1>1, <1>2, <1>3, <1>4, <1>5, <1>6, <1>7, <1>8, <1>9, <1>10, <1>11 DEF Next, Main
-----------------------------------------------------------------------------
(***************************************************************************)
(* The inductive invariant.                                                *)
(***************************************************************************)
LEMMA InitIInv == Init => IInv
<1> SUFFICES ASSUME Init PROVE IInv OBVIOUS
<1>1. TypeOK
  BY TypeInit
<1>2. dns_queue = <<>> /\ Len(dns_queue) = 0 /\ main.at = "loop" /\ looking = {}
  BY DEF Init, Loop
<1>3. \A ch \in Channels : dns_server[ch].state = IDLE
  BY DEF Init
<1>4. LookingProcesses
  BY <1>2, <1>3 DEF LookingProcesses, IDLE, PROCESSING
<1>5. NoLostWakeup
  BY <1>3 DEF NoLostWakeup, IDLE, RESOLVED
<1>6. ServedPrefix /\ AssignedPrefix
  BY <1>2 DEF ServedPrefix, AssignedPrefix
<1>7. QueueServable
  BY <1>2 DEF QueueServable
<1>8. BusyHasClient /\ OneLookupPerHost
  BY <1>3 DEF BusyHasClient, OneLookupPerHost, Busy
<1>9. NoIdleChannelWhileWaiting
  BY <1>2 DEF NoIdleChannelWhileWaiting, SomeoneWaits
<1> QED BY <1>1, <1>4, <1>5, <1>6, <1>7, <1>8, <1>9 DEF IInv

(* What TypeOK says of the elements of the variables.                      *)
LEMMA Types ==
  ASSUME TypeOK
  PROVE  /\ dns_server \in Servers /\ dns_queue \in Seq(QueueEntry) /\ Len(dns_queue) \in Nat
         /\ main \in Places /\ pipe \in Nat /\ notifying \in Nat
         /\ asked \in [Clients -> Hosts \cup {NoHost}]
         /\ \A i \in 1 .. Len(dns_queue) :
              /\ dns_queue[i].channel \in Channels \cup {Waiting}
              /\ dns_queue[i].hostname \in Hosts /\ dns_queue[i].cb_data \in Clients
<1>1. dns_queue \in Seq(QueueEntry) /\ Len(dns_queue) \in Nat
  BY LenProperties DEF TypeOK
<1>2. \A i \in 1 .. Len(dns_queue) : dns_queue[i] \in QueueEntry
  BY <1>1, ElementOfSeq
<1>3. dns_server \in Servers /\ main \in Places
  BY DEF TypeOK, Servers, Server, Places
<1> QED BY <1>1, <1>2, <1>3 DEF TypeOK, QueueEntry

LEMMA WaitingIsNoChannel == Waiting \notin Channels
BY NumServersAssumption DEF Waiting, Channels

(* A step that changes neither the queue nor which channels are busy with  *)
(* which host.                                                             *)
LEMMA Frame ==
  ASSUME TypeOK, QueueServable, OneLookupPerHost,
         UNCHANGED <<dns_queue, asked>>,
         \A k \in Channels : /\ Busy(k)' <=> Busy(k)
                             /\ dns_server'[k].hostname = dns_server[k].hostname
  PROVE  /\ QueueServable' /\ OneLookupPerHost'
         /\ SomeoneWaits' <=> SomeoneWaits
         /\ IdleChannels' = IdleChannels
<1>1. QueueServable'
  BY Types DEF QueueServable
<1>2. OneLookupPerHost'
  BY DEF OneLookupPerHost
<1>3. SomeoneWaits' <=> SomeoneWaits
  BY DEF SomeoneWaits
<1>4. IdleChannels' = IdleChannels
  BY DEF IdleChannels, Busy
<1> QED BY <1>1, <1>2, <1>3, <1>4

(* a_Dns_resolve.  A host that is not in the queue has no busy channel     *)
(* (BusyHasClient, QueueServable), so a new lookup never doubles one.      *)
LEMMA ResolveStep ==
  ASSUME IInv, NEW c \in Clients, NEW h \in Hosts, a_Dns_resolve(c, h), TypeOK'
  PROVE  IInv'
<1>t. /\ TypeOK /\ LookingProcesses /\ NoLostWakeup /\ ServedPrefix /\ QueueServable
      /\ BusyHasClient /\ OneLookupPerHost /\ AssignedPrefix /\ NoIdleChannelWhileWaiting
  BY DEF IInv
<1>a. /\ main.at = "loop" /\ main' = main /\ pipe' = pipe /\ notifying' = notifying
      /\ asked[c] = NoHost /\ asked' = [asked EXCEPT ![c] = h]
  BY DEF a_Dns_resolve, ResolveCached, ResolveQueued, ResolveNew, ResolveLater, Asks
<1>b. ServedPrefix' /\ AssignedPrefix'
  BY <1>a DEF ServedPrefix, AssignedPrefix
<1>c. \A i \in 1 .. Len(dns_queue) : asked'[dns_queue[i].cb_data] = asked[dns_queue[i].cb_data]
  BY <1>a, <1>t, Types, NullAssumption DEF QueueServable
<1>d. asked'[c] = h
  BY <1>a, <1>t, Types
<1>e. \A ch \in Channels : Busy(ch) => \E i \in 1 .. Len(dns_queue) : dns_queue[i].channel = ch
  BY <1>a, <1>t DEF BusyHasClient
<1>1. ASSUME UNCHANGED <<dns_server, looking>>
      PROVE  LookingProcesses' /\ NoLostWakeup' /\ OneLookupPerHost'
  BY <1>1, <1>a, <1>t DEF LookingProcesses, NoLostWakeup, OneLookupPerHost, Busy
<1>2. CASE ResolveCached(c, h)
  <2>1. UNCHANGED <<dns_server, dns_queue, looking>>
    BY <1>2 DEF ResolveCached
  <2>2. QueueServable'
    BY <2>1, <1>c, <1>t DEF QueueServable, Busy
  <2>3. BusyHasClient' /\ NoIdleChannelWhileWaiting'
    BY <2>1, <1>a, <1>t DEF BusyHasClient, NoIdleChannelWhileWaiting, SomeoneWaits, IdleChannels, Busy
  <2> QED BY <2>1, <2>2, <2>3, <1>1, <1>b DEF IInv
<1>3. ASSUME NEW ch \in Channels \cup {Waiting}, Dns_queue_add(ch, h, c)
      PROVE  /\ Len(dns_queue) \in Nat /\ Len(dns_queue') = Len(dns_queue) + 1
             /\ \A i \in 1 .. Len(dns_queue) : dns_queue'[i] = dns_queue[i]
             /\ dns_queue'[Len(dns_queue) + 1].channel = ch
             /\ dns_queue'[Len(dns_queue) + 1].hostname = h
             /\ dns_queue'[Len(dns_queue) + 1].cb_data = c
  <2>1. /\ Len(dns_queue) \in Nat /\ Len(dns_queue') = Len(dns_queue) + 1
        /\ \A i \in 1 .. Len(dns_queue) : dns_queue'[i] = dns_queue[i]
        /\ dns_queue'[Len(dns_queue) + 1] = [channel |-> ch, hostname |-> h, cb_data |-> c]
    BY <1>3, <1>t, QueueAddType
  <2> QED BY <2>1
<1>4. CASE ResolveQueued(c, h)
  <2>1. UNCHANGED <<dns_server, looking>>
    BY <1>4 DEF ResolveQueued
  <2>2. PICK k \in 1 .. Len(dns_queue) :
          dns_queue[k].hostname = h /\ Dns_queue_add(dns_queue[k].channel, h, c)
    BY <1>4 DEF ResolveQueued, Dns_queue_find
  <2>3. /\ Len(dns_queue) \in Nat /\ Len(dns_queue') = Len(dns_queue) + 1
        /\ \A i \in 1 .. Len(dns_queue) : dns_queue'[i] = dns_queue[i]
        /\ dns_queue'[Len(dns_queue) + 1].channel = dns_queue[k].channel
        /\ dns_queue'[Len(dns_queue) + 1].hostname = h
        /\ dns_queue'[Len(dns_queue) + 1].cb_data = c
    BY <2>2, <1>3, <1>t, Types
  <2>4. QueueServable'
    <3>1. \A i \in 1 .. Len(dns_queue) :
            /\ dns_queue[i].hostname = asked'[dns_queue[i].cb_data]
            /\ dns_queue[i].channel # Waiting =>
                 /\ dns_server'[dns_queue[i].channel].state # IDLE
                 /\ dns_server'[dns_queue[i].channel].hostname = dns_queue[i].hostname
            /\ dns_queue[i].channel = Waiting =>
                 \A ch \in Channels : Busy(ch)' => dns_server'[ch].hostname # dns_queue[i].hostname
      BY <2>1, <1>c, <1>t DEF QueueServable, Busy
    <3> QED BY <3>1, <2>2, <2>3, <1>d DEF QueueServable, Busy
  <2>5. BusyHasClient'
    BY <2>1, <2>3, <1>e DEF BusyHasClient, Busy
  <2>6. NoIdleChannelWhileWaiting'
    BY <2>1, <2>2, <2>3, <1>a, <1>t DEF NoIdleChannelWhileWaiting, SomeoneWaits, IdleChannels
  <2> QED BY <2>1, <2>4, <2>5, <2>6, <1>1, <1>b DEF IInv
<1>f. ASSUME Dns_queue_find(h) = {}
      PROVE  \A ch \in Channels : Busy(ch) => dns_server[ch].hostname # h
  BY <1>f, <1>e, <1>t, WaitingIsNoChannel DEF Dns_queue_find, QueueServable
<1>5. CASE ResolveNew(c, h)
  <2>1. PICK ch \in IdleChannels : Dns_queue_add(ch, h, c) /\ Dns_server_req(ch, h)
    BY <1>5 DEF ResolveNew
  <2>2. ch \in Channels /\ ~Busy(ch) /\ dns_server[ch].state = IDLE
    BY <2>1 DEF IdleChannels, Busy
  <2>3. /\ Len(dns_queue) \in Nat /\ Len(dns_queue') = Len(dns_queue) + 1
        /\ \A i \in 1 .. Len(dns_queue) : dns_queue'[i] = dns_queue[i]
        /\ dns_queue'[Len(dns_queue) + 1].channel = ch
        /\ dns_queue'[Len(dns_queue) + 1].hostname = h
        /\ dns_queue'[Len(dns_queue) + 1].cb_data = c
    BY <2>1, <2>2, <1>3
  <2>4. /\ Busy(ch)' /\ dns_server'[ch].hostname = h /\ dns_server'[ch].state = PROCESSING
        /\ \A k \in Channels : k # ch => dns_server'[k] = dns_server[k]
        /\ looking' = looking \cup {ch}
    BY <2>1, <2>2, <1>t, ServerReqType DEF Dns_server_req
  <2>5. \A k \in Channels : k # ch => (Busy(k)' <=> Busy(k))
    BY <2>4 DEF Busy
  <2>6. ~SomeoneWaits
    BY <2>1, <1>a, <1>t DEF NoIdleChannelWhileWaiting
  <2>7. \A k \in Channels : Busy(k) => dns_server[k].hostname # h
    BY <1>5, <1>f DEF ResolveNew
  <2>8. LookingProcesses'
    BY <2>2, <2>4, <1>t DEF LookingProcesses
  <2>9. NoLostWakeup'
    BY <2>4, <1>a, <1>t DEF NoLostWakeup, PROCESSING, RESOLVED
  <2>10. QueueServable'
    <3>1. \A i \in 1 .. Len(dns_queue) : /\ dns_queue[i].channel \in Channels
                                         /\ dns_queue[i].channel # ch
      BY <2>2, <2>6, <1>t, Types DEF QueueServable, SomeoneWaits
    <3>4. \A i \in 1 .. Len(dns_queue) :
            /\ dns_queue[i].channel # Waiting
            /\ dns_queue[i].hostname = asked'[dns_queue[i].cb_data]
            /\ Busy(dns_queue[i].channel)
            /\ dns_server[dns_queue[i].channel].hostname = dns_queue[i].hostname
      BY <3>1, <1>c, <1>t, WaitingIsNoChannel DEF QueueServable
    <3>2. \A i \in 1 .. Len(dns_queue) :
            /\ dns_queue[i].channel # Waiting
            /\ dns_queue[i].hostname = asked'[dns_queue[i].cb_data]
            /\ dns_server'[dns_queue[i].channel].state # IDLE
            /\ dns_server'[dns_queue[i].channel].hostname = dns_queue[i].hostname
      BY <3>1, <3>4, <2>4 DEF Busy
    <3>3. ch # Waiting
      BY <2>2, WaitingIsNoChannel
    <3> QED BY <3>2, <3>3, <2>3, <2>4, <1>d DEF QueueServable, Busy
  <2>11. BusyHasClient'
    BY <2>3, <2>5, <1>e DEF BusyHasClient
  <2>12. OneLookupPerHost'
    BY <2>4, <2>5, <2>7, <1>t DEF OneLookupPerHost
  <2>13. NoIdleChannelWhileWaiting'
    <3>1. ~SomeoneWaits'
      BY <2>2, <2>3, <2>6, WaitingIsNoChannel DEF SomeoneWaits
    <3> QED BY <3>1 DEF NoIdleChannelWhileWaiting
  <2> QED BY <2>8, <2>9, <2>10, <2>11, <2>12, <2>13, <1>b DEF IInv
<1>6. CASE ResolveLater(c, h)
  <2>1. UNCHANGED <<dns_server, looking>> /\ IdleChannels = {} /\ Dns_queue_find(h) = {}
    BY <1>6 DEF ResolveLater
  <2>2. /\ Len(dns_queue) \in Nat /\ Len(dns_queue') = Len(dns_queue) + 1
        /\ \A i \in 1 .. Len(dns_queue) : dns_queue'[i] = dns_queue[i]
        /\ dns_queue'[Len(dns_queue) + 1].channel = Waiting
        /\ dns_queue'[Len(dns_queue) + 1].hostname = h
        /\ dns_queue'[Len(dns_queue) + 1].cb_data = c
    BY <1>6, <1>3 DEF ResolveLater
  <2>3. QueueServable'
    BY <2>1, <2>2, <1>c, <1>d, <1>f, <1>t DEF QueueServable, Busy
  <2>4. BusyHasClient'
    BY <2>1, <2>2, <1>e DEF BusyHasClient, Busy
  <2>5. NoIdleChannelWhileWaiting'
    BY <2>1 DEF NoIdleChannelWhileWaiting, IdleChannels
  <2> QED BY <2>1, <2>3, <2>4, <2>5, <1>1, <1>b DEF IInv
<1> QED BY <1>2, <1>4, <1>5, <1>6 DEF a_Dns_resolve

(* The server threads: storing the results leaves the channel busy with    *)
(* its host and the thread about to write to the pipe.                     *)
LEMMA ThreadStep ==
  ASSUME IInv, (\E ch \in Channels : Dns_server(ch)) \/ Dns_server_notify, TypeOK'
  PROVE  IInv'
<1>t. /\ TypeOK /\ LookingProcesses /\ NoLostWakeup /\ ServedPrefix /\ QueueServable
      /\ BusyHasClient /\ OneLookupPerHost /\ AssignedPrefix /\ NoIdleChannelWhileWaiting
  BY DEF IInv
<1>u. dns_server \in Servers /\ notifying \in Nat /\ pipe \in Nat
  BY <1>t, Types
<1>1. ASSUME NEW ch \in Channels, Dns_server(ch) PROVE IInv'
  <2>0. /\ UNCHANGED <<dns_queue, asked, main, pipe>>
        /\ notifying' = notifying + 1 /\ looking' = looking \ {ch} /\ ch \in looking
    BY <1>1 DEF Dns_server
  <2>1. /\ dns_server[ch].state = PROCESSING
        /\ UNCHANGED <<dns_queue, asked, main, pipe>>
        /\ notifying' > 0 /\ looking' = looking \ {ch}
    BY <2>0, <1>t, <1>u DEF LookingProcesses
  <2>2. PICK r \in {[status |-> 0, addr |-> dns_server[ch].hostname],
                    [status |-> 0, addr |-> NoAddr], [status |-> 1, addr |-> NoAddr]} :
          dns_server' = [dns_server EXCEPT ![ch].status = r.status,
                                           ![ch].addr_list = r.addr,
                                           ![ch].prev_list = dns_server[ch].addr_list,
                                           ![ch].state = RESOLVED]
    BY <1>1 DEF Dns_server
  <2>3. /\ dns_server'[ch].state = RESOLVED
        /\ \A k \in Channels : k # ch => dns_server'[k] = dns_server[k]
    BY <2>2, <1>u DEF Servers, Server
  <2>4. \A k \in Channels : dns_server'[k].hostname = dns_server[k].hostname
    BY <2>2, <1>u DEF Servers, Server
  <2>5. \A k \in Channels : Busy(k)' <=> Busy(k)
    BY <2>1, <2>3 DEF Busy, IDLE, PROCESSING, RESOLVED
  <2>6. /\ QueueServable' /\ OneLookupPerHost'
        /\ (SomeoneWaits' <=> SomeoneWaits) /\ IdleChannels' = IdleChannels
    BY <2>1, <2>4, <2>5, <1>t, Frame
  <2>7. LookingProcesses'
    BY <2>1, <2>3, <1>t DEF LookingProcesses, PROCESSING, RESOLVED
  <2>8. NoLostWakeup'
    BY <2>1 DEF NoLostWakeup
  <2>9. ServedPrefix'
    BY <2>1, <2>3, <1>t DEF ServedPrefix
  <2>10. BusyHasClient' /\ AssignedPrefix' /\ NoIdleChannelWhileWaiting'
    BY <2>1, <2>5, <2>6, <1>t DEF BusyHasClient, AssignedPrefix, NoIdleChannelWhileWaiting
  <2> QED BY <2>6, <2>7, <2>8, <2>9, <2>10 DEF IInv
<1>2. CASE Dns_server_notify
  <2>1. UNCHANGED <<dns_queue, dns_server, looking, asked, main>> /\ pipe' > 0
    BY <1>2, <1>u DEF Dns_server_notify
  <2>2. \A k \in Channels : Busy(k)' <=> Busy(k)
    BY <2>1 DEF Busy
  <2>3. /\ QueueServable' /\ OneLookupPerHost'
        /\ (SomeoneWaits' <=> SomeoneWaits) /\ IdleChannels' = IdleChannels
    BY <2>1, <2>2, <1>t, Frame
  <2>4. LookingProcesses' /\ NoLostWakeup' /\ ServedPrefix'
    BY <2>1, <1>t DEF LookingProcesses, NoLostWakeup, ServedPrefix
  <2>5. BusyHasClient' /\ AssignedPrefix' /\ NoIdleChannelWhileWaiting'
    BY <2>1, <2>2, <2>3, <1>t DEF BusyHasClient, AssignedPrefix, NoIdleChannelWhileWaiting
  <2> QED BY <2>3, <2>4, <2>5 DEF IInv
<1> QED BY <1>1, <1>2

(* The steps of the main thread that only move it through its handler:     *)
(* draining the pipe, collecting a channel, and the ends of the two loops. *)
LEMMA MoveStep ==
  ASSUME IInv, Dns_timeout_client \/ ScanChannel \/ ScanDone \/ AssignDone, TypeOK'
  PROVE  IInv'
<1>t. /\ TypeOK /\ LookingProcesses /\ NoLostWakeup /\ ServedPrefix /\ QueueServable
      /\ BusyHasClient /\ OneLookupPerHost /\ AssignedPrefix /\ NoIdleChannelWhileWaiting
  BY DEF IInv
<1>u. dns_server \in Servers /\ main \in Places /\ Len(dns_queue) \in Nat
  BY <1>t, Types
<1>v. UNCHANGED <<dns_queue, looking, notifying, asked>>
  BY DEF Dns_timeout_client, ScanChannel, ScanDone, AssignDone
<1>w. \A k \in Channels : /\ dns_server'[k].state = dns_server[k].state
                          /\ dns_server'[k].hostname = dns_server[k].hostname
  <2>1. CASE UNCHANGED dns_server
    BY <2>1
  <2>2. CASE ScanChannel /\ dns_server[main.ch].state = RESOLVED
    <3>1. PICK list \in VisibleLists(main.ch) :
            dns_server' = [dns_server EXCEPT ![main.ch].prev_list = list]
      BY <2>2 DEF ScanChannel
    <3> QED BY <3>1, <1>u DEF Servers, Server
  <2> QED BY <2>1, <2>2 DEF Dns_timeout_client, ScanChannel, ScanDone, AssignDone
<1>x. \A k \in Channels : Busy(k)' <=> Busy(k)
  BY <1>w DEF Busy
<1>1. /\ QueueServable' /\ OneLookupPerHost'
      /\ (SomeoneWaits' <=> SomeoneWaits) /\ IdleChannels' = IdleChannels
  BY <1>v, <1>w, <1>x, <1>t, Frame
<1>2. LookingProcesses'
  BY <1>v, <1>w, <1>t DEF LookingProcesses
<1>3. CASE Dns_timeout_client
  <2>1. main'.at = "scan" /\ main'.ch = 0 /\ main.at = "loop"
    BY <1>3 DEF Dns_timeout_client, At
  <2>2. NoLostWakeup'
    BY <2>1, NumServersAssumption DEF NoLostWakeup, Channels
  <2>3. ServedPrefix' /\ BusyHasClient' /\ AssignedPrefix' /\ NoIdleChannelWhileWaiting'
    BY <2>1, <1>v, <1>x, <1>t
       DEF ServedPrefix, BusyHasClient, AssignedPrefix, NoIdleChannelWhileWaiting
  <2> QED BY <1>1, <1>2, <2>2, <2>3 DEF IInv
<1>4. CASE ScanChannel
  <2>1. main.at = "scan" /\ main.ch \in Channels /\ pipe' = pipe
    BY <1>4 DEF ScanChannel
  <2>2. CASE dns_server[main.ch].state = RESOLVED
    <3>0. main' = At("serve", main.ch, 1)
      BY <1>4, <2>2 DEF ScanChannel
    <3>1. main'.at = "serve" /\ main'.ch = main.ch /\ main'.i = 1
      BY <3>0 DEF At
    <3>2. NoLostWakeup'
      BY <3>1, <2>1, <1>v, <1>w, <1>t DEF NoLostWakeup
    <3>3. ServedPrefix'
      BY <3>1, <2>1, <2>2, <1>w DEF ServedPrefix
    <3>4. BusyHasClient' /\ AssignedPrefix' /\ NoIdleChannelWhileWaiting'
      BY <3>1, <2>1, <1>v, <1>x, <1>t DEF BusyHasClient, AssignedPrefix, NoIdleChannelWhileWaiting
    <3> QED BY <1>1, <1>2, <3>2, <3>3, <3>4 DEF IInv
  <2>3. CASE dns_server[main.ch].state # RESOLVED
    <3>1. main'.at = "scan" /\ main'.ch = main.ch + 1
      BY <1>4, <2>3 DEF ScanChannel, At
    <3>2. NoLostWakeup'
      BY <3>1, <2>1, <2>3, <1>v, <1>w, <1>t, NumServersAssumption DEF NoLostWakeup, Channels
    <3>3. ServedPrefix' /\ BusyHasClient' /\ AssignedPrefix' /\ NoIdleChannelWhileWaiting'
      BY <3>1, <2>1, <1>v, <1>x, <1>t
         DEF ServedPrefix, BusyHasClient, AssignedPrefix, NoIdleChannelWhileWaiting
    <3> QED BY <1>1, <1>2, <3>2, <3>3 DEF IInv
  <2> QED BY <2>2, <2>3
<1>5. CASE ScanDone
  <2>1. /\ main.at = "scan" /\ main.ch = NumServers /\ pipe' = pipe
        /\ main'.at = "assign" /\ main'.ch = 0
    BY <1>5 DEF ScanDone, At
  <2>2. NoLostWakeup'
    BY <2>1, <1>v, <1>w, <1>t, NumServersAssumption DEF NoLostWakeup, Channels
  <2>3. AssignedPrefix'
    BY <2>1, NumServersAssumption DEF AssignedPrefix, Channels
  <2>4. ServedPrefix' /\ BusyHasClient' /\ NoIdleChannelWhileWaiting'
    BY <2>1, <1>v, <1>x, <1>t DEF ServedPrefix, BusyHasClient, NoIdleChannelWhileWaiting
  <2> QED BY <1>1, <1>2, <2>2, <2>3, <2>4 DEF IInv
<1>6. CASE AssignDone
  <2>1. /\ main.at = "assign" /\ main.ch = NumServers /\ pipe' = pipe /\ main'.at = "loop"
    BY <1>6 DEF AssignDone, Loop
  <2>2. NoLostWakeup'
    BY <2>1, <1>v, <1>w, <1>t DEF NoLostWakeup
  <2>3. NoIdleChannelWhileWaiting'
    <3>1. SomeoneWaits => \A k \in Channels : Busy(k)
      BY <2>1, <1>t, NumServersAssumption DEF AssignedPrefix, Channels
    <3> QED BY <3>1, <1>1 DEF NoIdleChannelWhileWaiting, IdleChannels, Busy
  <2>4. ServedPrefix' /\ BusyHasClient' /\ AssignedPrefix'
    BY <2>1, <1>v, <1>x, <1>t DEF ServedPrefix, BusyHasClient, AssignedPrefix
  <2> QED BY <1>1, <1>2, <2>2, <2>3, <2>4 DEF IInv
<1> QED BY <1>3, <1>4, <1>5, <1>6

(* Dns_serve_channel: an entry is answered and removed, or passed over; at *)
(* the end of the queue no entry of the channel is left and it is idle.    *)
LEMMA ServeStep ==
  ASSUME IInv, Dns_serve_channel \/ ChannelServed, TypeOK'
  PROVE  IInv'
<1>t. /\ TypeOK /\ LookingProcesses /\ NoLostWakeup /\ ServedPrefix /\ QueueServable
      /\ BusyHasClient /\ OneLookupPerHost /\ AssignedPrefix /\ NoIdleChannelWhileWaiting
  BY DEF IInv
<1>u. dns_server \in Servers /\ Len(dns_queue) \in Nat
  BY <1>t, Types
<1>s. /\ main.at = "serve" /\ main.ch \in Channels /\ main.i \in Nat /\ main.i > 0
      /\ dns_server[main.ch].state = RESOLVED
      /\ \A j \in 1 .. Len(dns_queue) : j < main.i => dns_queue[j].channel # main.ch
  BY <1>t, Types DEF Dns_serve_channel, ChannelServed, ServedPrefix, Places
<1>1. CASE Dns_serve_channel /\ dns_queue[main.i].channel = main.ch
  <2>1. /\ main.i \in 1 .. Len(dns_queue) /\ Dns_queue_remove(main.i)
        /\ UNCHANGED <<main, pipe, looking, notifying, asked>>
    BY <1>1, <1>s, <1>u DEF Dns_serve_channel
  <2>2. PICK list \in VisibleLists(main.ch) :
          dns_server' = [dns_server EXCEPT ![main.ch].prev_list = list]
    BY <1>1 DEF Dns_serve_channel
  <2>3. \A k \in Channels : /\ dns_server'[k].state = dns_server[k].state
                            /\ dns_server'[k].hostname = dns_server[k].hostname
    BY <2>2, <1>u DEF Servers, Server
  <2>4. /\ Len(dns_queue') = Len(dns_queue) - 1
        /\ \A j \in 1 .. Len(dns_queue) - 1 :
             dns_queue'[j] = IF j < main.i THEN dns_queue[j] ELSE dns_queue[j + 1]
    BY <2>1, <1>t, QueueRemoveType
  <2>5. \A j \in 1 .. Len(dns_queue') : \E k \in 1 .. Len(dns_queue) : dns_queue'[j] = dns_queue[k]
    BY <2>4, <1>u
  <2>6. LookingProcesses' /\ NoLostWakeup' /\ OneLookupPerHost'
    BY <2>1, <2>3, <1>t DEF LookingProcesses, NoLostWakeup, OneLookupPerHost, Busy
  <2>7. ServedPrefix'
    BY <2>1, <2>3, <2>4, <1>s, <1>u DEF ServedPrefix
  <2>8. QueueServable'
    <3> SUFFICES ASSUME NEW j \in 1 .. Len(dns_queue')
                 PROVE  /\ dns_queue'[j].hostname = asked'[dns_queue'[j].cb_data]
                        /\ dns_queue'[j].channel # Waiting =>
                             /\ dns_server'[dns_queue'[j].channel].state # IDLE
                             /\ dns_server'[dns_queue'[j].channel].hostname = dns_queue'[j].hostname
                        /\ dns_queue'[j].channel = Waiting =>
                             \A ch \in Channels : dns_server'[ch].state # IDLE =>
                               dns_server'[ch].hostname # dns_queue'[j].hostname
      BY DEF QueueServable, Busy
    <3>1. PICK k \in 1 .. Len(dns_queue) : dns_queue'[j] = dns_queue[k]
      BY <2>5
    <3>2. dns_queue[k].channel \in Channels \cup {Waiting}
      BY <1>t, Types
    <3> QED BY <3>1, <3>2, <2>1, <2>3, <1>t DEF QueueServable, Busy
  <2>9. BusyHasClient'
    <3> SUFFICES ASSUME NEW k \in Channels, Busy(k), k # main.ch
                 PROVE  \E j \in 1 .. Len(dns_queue') : dns_queue'[j].channel = k
      BY <2>1, <2>3, <1>s DEF BusyHasClient, Busy
    <3>1. PICK i \in 1 .. Len(dns_queue) : dns_queue[i].channel = k
      BY <1>t DEF BusyHasClient
    <3>2. CASE i < main.i
      BY <3>1, <3>2, <2>1, <2>4, <1>u
    <3>3. CASE i > main.i
      <4>1. i - 1 \in 1 .. Len(dns_queue) - 1 /\ ~(i - 1 < main.i) /\ (i - 1) + 1 = i
        BY <3>3, <2>1, <1>u
      <4>2. dns_queue'[i - 1] = dns_queue[i]
        BY <4>1, <2>4
      <4> QED BY <4>1, <4>2, <3>1, <2>4
    <3>4. i # main.i
      BY <3>1, <1>1
    <3> QED BY <3>2, <3>3, <3>4, <2>1, <1>u
  <2>10. AssignedPrefix' /\ NoIdleChannelWhileWaiting'
    BY <2>1, <1>s DEF AssignedPrefix, NoIdleChannelWhileWaiting
  <2> QED BY <2>6, <2>7, <2>8, <2>9, <2>10 DEF IInv
<1>2. CASE Dns_serve_channel /\ dns_queue[main.i].channel # main.ch
  <2>1. /\ UNCHANGED <<dns_server, dns_queue, pipe, looking, notifying, asked>>
        /\ main' = [main EXCEPT !.i = @ + 1]
    BY <1>2 DEF Dns_serve_channel
  <2>2. main'.at = "serve" /\ main'.ch = main.ch /\ main'.i = main.i + 1
    BY <2>1, <1>s, <1>t, Types DEF Places
  <2>3. \A k \in Channels : Busy(k)' <=> Busy(k)
    BY <2>1 DEF Busy
  <2>4. QueueServable' /\ OneLookupPerHost'
    BY <2>1, <2>3, <1>t, Frame
  <2>5. LookingProcesses' /\ NoLostWakeup'
    BY <2>1, <2>2, <1>s, <1>t DEF LookingProcesses, NoLostWakeup
  <2>6. ServedPrefix'
    BY <2>1, <2>2, <1>2, <1>s, <1>u DEF ServedPrefix
  <2>7. BusyHasClient' /\ AssignedPrefix' /\ NoIdleChannelWhileWaiting'
    BY <2>1, <2>2, <2>3, <1>s, <1>t DEF BusyHasClient, AssignedPrefix, NoIdleChannelWhileWaiting
  <2> QED BY <2>4, <2>5, <2>6, <2>7 DEF IInv
<1>3. CASE ChannelServed
  <2>1. /\ main.i > Len(dns_queue)
        /\ UNCHANGED <<dns_queue, pipe, looking, notifying, asked>>
        /\ main'.at = "scan" /\ main'.ch = main.ch + 1
    BY <1>3 DEF ChannelServed, At
  <2>2. /\ dns_server'[main.ch].state = IDLE
        /\ \A k \in Channels : k # main.ch => dns_server'[k] = dns_server[k]
    BY <1>3, <1>s, <1>u DEF ChannelServed, Servers, Server
  <2>3. \A j \in 1 .. Len(dns_queue) : dns_queue[j].channel # main.ch
    BY <2>1, <1>s, <1>u
  <2>4. LookingProcesses'
    BY <2>1, <2>2, <1>s, <1>t DEF LookingProcesses, IDLE, PROCESSING, RESOLVED
  <2>5. NoLostWakeup'
    BY <2>1, <2>2, <1>s, <1>t, NumServersAssumption DEF NoLostWakeup, IDLE, RESOLVED, Channels
  <2>6. QueueServable'
    <3> SUFFICES ASSUME NEW j \in 1 .. Len(dns_queue)
                 PROVE  /\ dns_queue[j].hostname = asked[dns_queue[j].cb_data]
                        /\ dns_queue[j].channel # Waiting =>
                             /\ dns_server'[dns_queue[j].channel].state # IDLE
                             /\ dns_server'[dns_queue[j].channel].hostname = dns_queue[j].hostname
                        /\ dns_queue[j].channel = Waiting =>
                             \A ch \in Channels : dns_server'[ch].state # IDLE =>
                               dns_server'[ch].hostname # dns_queue[j].hostname
      BY <2>1 DEF QueueServable, Busy
    <3>1. dns_queue[j].channel \in Channels \cup {Waiting} /\ dns_queue[j].channel # main.ch
      BY <2>3, <1>t, Types
    <3> QED BY <3>1, <2>2, <1>t DEF QueueServable, Busy
  <2>7. BusyHasClient'
    BY <2>1, <2>2, <1>s, <1>t DEF BusyHasClient, Busy
  <2>8. OneLookupPerHost'
    BY <2>2, <1>s, <1>t DEF OneLookupPerHost, Busy
  <2>9. ServedPrefix' /\ AssignedPrefix' /\ NoIdleChannelWhileWaiting'
    BY <2>1 DEF ServedPrefix, AssignedPrefix, NoIdleChannelWhileWaiting
  <2> QED BY <2>4, <2>5, <2>6, <2>7, <2>8, <2>9 DEF IInv
<1> QED BY <1>1, <1>2, <1>3

(* Dns_assign_channels: an idle channel takes the host of the oldest       *)
(* waiting client, which no busy channel works on (QueueServable), and     *)
(* every client waiting for that host with it.                             *)
LEMMA AssignStep ==
  ASSUME IInv, Dns_assign_channels, TypeOK'
  PROVE  IInv'
<1>t. /\ TypeOK /\ LookingProcesses /\ NoLostWakeup /\ ServedPrefix /\ QueueServable
      /\ BusyHasClient /\ OneLookupPerHost /\ AssignedPrefix /\ NoIdleChannelWhileWaiting
  BY DEF IInv
<1>u. dns_server \in Servers /\ Len(dns_queue) \in Nat
  BY <1>t, Types
<1>v. /\ main.at = "assign" /\ main.ch \in Channels
      /\ main'.at = "assign" /\ main'.ch = main.ch + 1
      /\ UNCHANGED <<pipe, notifying, asked>>
  BY DEF Dns_assign_channels, At
<1>w. ServedPrefix' /\ NoIdleChannelWhileWaiting'
  BY <1>v DEF ServedPrefix, NoIdleChannelWhileWaiting
<1>1. CASE dns_server[main.ch].state = IDLE /\ SomeoneWaits
  <2>1. PICK i \in 1 .. Len(dns_queue) : AssignTo(i, SameHostWaiting(i))
    BY <1>1 DEF Dns_assign_channels
  <2> DEFINE h == dns_queue[i].hostname
  <2>2. /\ dns_queue[i].channel = Waiting /\ h \in Hosts
        /\ \A j \in 1 .. i - 1 : dns_queue[j].channel # Waiting
        /\ Dns_server_req(main.ch, h)
    BY <2>1, <1>t, Types DEF AssignTo, FirstWaiting
  <2>3. /\ dns_server'[main.ch].state = PROCESSING /\ dns_server'[main.ch].hostname = h
        /\ \A k \in Channels : k # main.ch => dns_server'[k] = dns_server[k]
        /\ looking' = looking \cup {main.ch}
    BY <2>2, <1>v, <1>t, ServerReqType DEF Dns_server_req
  <2>4. /\ Len(dns_queue') = Len(dns_queue)
        /\ \A j \in 1 .. Len(dns_queue) :
             /\ dns_queue'[j].hostname = dns_queue[j].hostname
             /\ dns_queue'[j].cb_data = dns_queue[j].cb_data
             /\ dns_queue'[j].channel =
                  IF dns_queue[j].channel = Waiting /\ dns_queue[j].hostname = h
                  THEN main.ch ELSE dns_queue[j].channel
    <3>1. dns_queue' = [j \in 1 .. Len(dns_queue) |->
                          IF j \in SameHostWaiting(i)
                          THEN [dns_queue[j] EXCEPT !.channel = main.ch] ELSE dns_queue[j]]
      BY <2>1 DEF AssignTo
    <3>2. \A j \in 1 .. Len(dns_queue) :
            j \in SameHostWaiting(i) <=> dns_queue[j].channel = Waiting /\ dns_queue[j].hostname = h
      BY <2>2, <1>u DEF SameHostWaiting
    <3>3. \A j \in 1 .. Len(dns_queue) : dns_queue[j] \in QueueEntry
      BY <1>t, Types, ElementOfSeq
    <3>4. Len(dns_queue') = Len(dns_queue)
      BY <3>1, <1>u, LenProperties DEF TypeOK
    <3>5. ASSUME NEW j \in 1 .. Len(dns_queue)
          PROVE  /\ dns_queue'[j].hostname = dns_queue[j].hostname
                 /\ dns_queue'[j].cb_data = dns_queue[j].cb_data
                 /\ dns_queue'[j].channel =
                      IF dns_queue[j].channel = Waiting /\ dns_queue[j].hostname = h
                      THEN main.ch ELSE dns_queue[j].channel
      <4>1. CASE j \in SameHostWaiting(i)
        <5>1. dns_queue'[j] = [dns_queue[j] EXCEPT !.channel = main.ch]
          BY <3>1, <4>1
        <5> QED BY <5>1, <4>1, <3>2, <3>3 DEF QueueEntry
      <4>2. CASE j \notin SameHostWaiting(i)
        BY <4>2, <3>1, <3>2
      <4> QED BY <4>1, <4>2
    <3> QED BY <3>4, <3>5
  <2> HIDE DEF h
  <2>5. \A k \in Channels : k # main.ch => (Busy(k)' <=> Busy(k))
    BY <2>3 DEF Busy
  <2>6. \A k \in Channels : dns_server[k].state # IDLE => dns_server[k].hostname # h
    BY <2>2, <1>t DEF QueueServable, Busy, h
  <2>7. LookingProcesses'
    BY <2>3, <1>v, <1>t DEF LookingProcesses
  <2>8. NoLostWakeup'
    BY <2>3, <1>v, <1>t DEF NoLostWakeup, PROCESSING, RESOLVED
  <2>9. QueueServable'
    <3> SUFFICES ASSUME NEW j \in 1 .. Len(dns_queue)
                 PROVE  /\ dns_queue'[j].hostname = asked'[dns_queue'[j].cb_data]
                        /\ dns_queue'[j].channel # Waiting =>
                             /\ dns_server'[dns_queue'[j].channel].state # IDLE
                             /\ dns_server'[dns_queue'[j].channel].hostname = dns_queue'[j].hostname
                        /\ dns_queue'[j].channel = Waiting =>
                             \A ch \in Channels : dns_server'[ch].state # IDLE =>
                               dns_server'[ch].hostname # dns_queue'[j].hostname
      BY <2>4 DEF QueueServable, Busy
    <3>1. dns_queue[j].channel \in Channels \cup {Waiting} /\ main.ch # Waiting
      BY <1>t, <1>v, Types, WaitingIsNoChannel
    <3>2. dns_queue'[j].hostname = asked'[dns_queue'[j].cb_data]
      BY <2>4, <1>v, <1>t DEF QueueServable
    <3>3. CASE dns_queue[j].channel = Waiting /\ dns_queue[j].hostname = h
      BY <3>1, <3>2, <3>3, <2>3, <2>4 DEF IDLE, PROCESSING
    <3>4. CASE dns_queue[j].channel = Waiting /\ dns_queue[j].hostname # h
      BY <3>2, <3>4, <2>3, <2>4, <1>t DEF QueueServable, Busy
    <3>5. CASE dns_queue[j].channel # Waiting
      <4>1. /\ dns_server[dns_queue[j].channel].state # IDLE
            /\ dns_server[dns_queue[j].channel].hostname = dns_queue[j].hostname
        BY <3>5, <1>t DEF QueueServable, Busy
      <4> QED BY <4>1, <3>1, <3>2, <3>5, <2>3, <2>4, <1>1
    <3> QED BY <3>3, <3>4, <3>5
  <2>10. BusyHasClient'
    <3> SUFFICES ASSUME NEW k \in Channels, k # main.ch => Busy(k)
                 PROVE  \E j \in 1 .. Len(dns_queue') : dns_queue'[j].channel = k
      BY <2>5 DEF BusyHasClient
    <3>1. CASE k = main.ch
      BY <3>1, <2>2, <2>4 DEF h
    <3>2. CASE k # main.ch
      BY <3>2, <2>4, <1>v, <1>t, WaitingIsNoChannel DEF BusyHasClient
    <3> QED BY <3>1, <3>2
  <2>11. OneLookupPerHost'
    BY <2>3, <2>6, <1>t DEF OneLookupPerHost, Busy
  <2>12. AssignedPrefix'
    <3>1. \A ch \in Channels : ch < main.ch => Busy(ch)
      BY <1>1, <1>v, <1>t DEF AssignedPrefix
    <3>2. dns_server'[main.ch].state # IDLE
      BY <2>3 DEF IDLE, PROCESSING
    <3>3. \A ch \in Channels : ch < main.ch + 1 => dns_server'[ch].state # IDLE
      BY <3>1, <3>2, <2>3, <1>v, NumServersAssumption DEF Channels, Busy
    <3> QED BY <3>3, <1>v DEF AssignedPrefix, Busy
  <2> QED BY <2>7, <2>8, <2>9, <2>10, <2>11, <2>12, <1>w DEF IInv
<1>2. CASE ~(dns_server[main.ch].state = IDLE /\ SomeoneWaits)
  <2>1. UNCHANGED <<dns_server, dns_queue, looking>>
    BY <1>2 DEF Dns_assign_channels
  <2>2. \A k \in Channels : Busy(k)' <=> Busy(k)
    BY <2>1 DEF Busy
  <2>3. QueueServable' /\ OneLookupPerHost' /\ (SomeoneWaits' <=> SomeoneWaits)
    BY <2>1, <2>2, <1>v, <1>t, Frame
  <2>4. LookingProcesses' /\ NoLostWakeup' /\ BusyHasClient'
    BY <2>1, <2>2, <1>v, <1>t DEF LookingProcesses, NoLostWakeup, BusyHasClient
  <2>5. AssignedPrefix'
    BY <2>2, <2>3, <1>2, <1>v, <1>t, NumServersAssumption DEF AssignedPrefix, Busy, Channels
  <2> QED BY <2>3, <2>4, <2>5, <1>w DEF IInv
<1> QED BY <1>1, <1>2
-----------------------------------------------------------------------------
(***************************************************************************)
(* The theorems.                                                           *)
(***************************************************************************)
(* The conjunction of the parts above holds in every state of dns.c.       *)
THEOREM Invariance == Spec => []IInv
<1>1. Init => IInv
  BY InitIInv
<1>2. IInv /\ [Next]_vars => IInv'
  <2> SUFFICES ASSUME IInv, [Next]_vars PROVE IInv'
    OBVIOUS
  <2>1. TypeOK'
    BY TypeNext DEF IInv
  <2>2. ASSUME NEW c \in Clients, NEW h \in Hosts, a_Dns_resolve(c, h) PROVE IInv'
    BY <2>1, <2>2, ResolveStep
  <2>3. CASE (\E ch \in Channels : Dns_server(ch)) \/ Dns_server_notify
    BY <2>1, <2>3, ThreadStep
  <2>4. CASE Dns_timeout_client \/ ScanChannel \/ ScanDone \/ AssignDone
    BY <2>1, <2>4, MoveStep
  <2>5. CASE Dns_serve_channel \/ ChannelServed
    BY <2>1, <2>5, ServeStep
  <2>6. CASE Dns_assign_channels
    BY <2>1, <2>6, AssignStep
  <2>7. CASE UNCHANGED vars
    <3>1. UNCHANGED <<dns_server, dns_queue, pipe, looking, notifying, main, asked>>
      BY <2>7 DEF vars
    <3> QED BY <2>1, <3>1 DEF IInv, LookingProcesses, NoLostWakeup, ServedPrefix, QueueServable,
              BusyHasClient, OneLookupPerHost, AssignedPrefix, NoIdleChannelWhileWaiting,
              Busy, SomeoneWaits, IdleChannels
  <2> QED BY <2>2, <2>3, <2>4, <2>5, <2>6, <2>7 DEF Next, Main
<1> QED BY <1>1, <1>2, PTL DEF Spec

(* Every variable keeps its C type, and a busy channel has a host name.    *)
THEOREM TypeCorrect == Spec => []TypeOK
<1>1. IInv => TypeOK
  BY DEF IInv
<1> QED BY <1>1, Invariance, PTL

(* The result of a lookup is always followed by a run of                   *)
(* Dns_timeout_client that collects it: the pipe is drained before the     *)
(* channels are scanned and the byte written after the state is set.       *)
THEOREM WakeupsReachTheScan == Spec => []NoLostWakeup
<1>1. IInv => NoLostWakeup
  BY DEF IInv
<1> QED BY <1>1, Invariance, PTL

(* No queued client is passed over: it names a busy channel that looks up  *)
(* its host, or no busy channel looks up its host.                         *)
THEOREM QueueIsServable == Spec => []QueueServable
<1>1. IInv => QueueServable
  BY DEF IInv
<1> QED BY <1>1, Invariance, PTL

(* Whatever the number of channels, a host is looked up by one at a time.  *)
THEOREM LookupsAreDistinct == Spec => []OneLookupPerHost
<1>1. IInv => OneLookupPerHost
  BY DEF IInv
<1> QED BY <1>1, Invariance, PTL

(* dns.c never returns to the main loop leaving a client without a channel *)
(* while a channel is idle.                                                *)
THEOREM NobodyLeftBehind == Spec => []NoIdleChannelWhileWaiting
<1>1. IInv => NoIdleChannelWhileWaiting
  BY DEF IInv
<1> QED BY <1>1, Invariance, PTL

-----------------------------------------------------------------------------
(***************************************************************************)
(* What the clients of the DNS engine are told, for any number of          *)
(* channels, hosts and clients: the answers are sound, and every step of   *)
(* Dns is a step of Resolver or a stutter.  Both need the stores of        *)
(* Dns_server to stay in order.                                            *)
(*                                                                         *)
(* The invariant adds to IInv what relates the requests, the cache and the *)
(* lookups:                                                                *)
(*   QueuedOnce, Accounted, Answered   where the request of a client is    *)
(*   CacheSound     a host has one entry, with its own addresses           *)
(*   ResultsOwn     a lookup that is over has the addresses of its host    *)
(*   Unknown        hosts that are looked up, or wait for a channel, are   *)
(*                  not in the cache ...                                   *)
(*   ServedKnown    ... unless their clients are being answered            *)
(***************************************************************************)

QueuedOnce ==
  \A i, j \in 1 .. Len(dns_queue) :
    dns_queue[i].cb_data = dns_queue[j].cb_data => i = j

Queued(c) == \E i \in 1 .. Len(dns_queue) : dns_queue[i].cb_data = c

Accounted ==
  \A c \in Clients :
    IF asked[c] = NoHost THEN ~Queued(c) /\ answers[c] = <<>>
    ELSE Queued(c) <=> answers[c] = <<>>

Answered ==
  \A c \in Clients :
    \/ answers[c] = <<>>
    \/ \E a \in Answers : a.addr \in {asked[c], NoAddr} /\ answers[c] = <<a>>

CacheSound ==
  /\ \A i \in 1 .. Len(dns_cache) : dns_cache[i].addr_list = dns_cache[i].hostname
  /\ \A i, j \in 1 .. Len(dns_cache) :
       dns_cache[i].hostname = dns_cache[j].hostname => i = j

ResultsOwn ==
  \A ch \in Channels :
    LET s == dns_server[ch] IN
      s.state = RESOLVED => \/ s.status = 0 /\ s.addr_list = s.hostname
                            \/ s.addr_list = NoAddr

Serving(ch) == main.at = "serve" /\ main.ch = ch

Unknown ==
  /\ \A ch \in Channels :
       Busy(ch) /\ ~Serving(ch) => Cached(dns_server[ch].hostname) = {}
  /\ \A i \in 1 .. Len(dns_queue) :
       dns_queue[i].channel = Waiting => Cached(dns_queue[i].hostname) = {}

ServedKnown ==
  main.at = "serve" =>
    LET s == dns_server[main.ch] IN s.addr_list = NoAddr <=> Cached(s.hostname) = {}

AInv == /\ QueuedOnce
        /\ Accounted
        /\ Answered
        /\ CacheSound
        /\ ResultsOwn
        /\ Unknown
        /\ ServedKnown

(* The safety half of the refinement: initial states and steps.            *)
Simulates == R!Init /\ [][R!Next]_(R!vars)
-----------------------------------------------------------------------------
(***************************************************************************)
(* The cache.                                                              *)
(***************************************************************************)
LEMMA CacheType ==
  ASSUME TypeOK
  PROVE  /\ Len(dns_cache) \in Nat /\ answers \in [Clients -> Seq(Answers)]
         /\ \A i \in 1 .. Len(dns_cache) : /\ dns_cache[i].hostname \in Hosts
                                           /\ dns_cache[i].addr_list \in AddrLists
<1>1. dns_cache \in Seq([hostname : Hosts, addr_list : AddrLists])
  BY DEF TypeOK
<1>2. \A i \in 1 .. Len(dns_cache) : dns_cache[i] \in [hostname : Hosts, addr_list : AddrLists]
  BY <1>1, ElementOfSeq
<1> QED BY <1>1, <1>2, LenProperties DEF TypeOK

(* Dns_cache_add makes one host known, and keeps what was there.           *)
LEMMA CacheAdd ==
  ASSUME TypeOK, NEW h \in Hosts, NEW list \in AddrLists, Dns_cache_add(h, list)
  PROVE  /\ Len(dns_cache) \in Nat /\ Len(dns_cache') = Len(dns_cache) + 1
         /\ \A i \in 1 .. Len(dns_cache) : dns_cache'[i] = dns_cache[i]
         /\ dns_cache'[Len(dns_cache) + 1].hostname = h
         /\ dns_cache'[Len(dns_cache) + 1].addr_list = list
         /\ \A g : Cached(g)' = {} <=> Cached(g) = {} /\ g # h
<1> DEFINE e == [hostname |-> h, addr_list |-> list]
<1>1. e \in [hostname : Hosts, addr_list : AddrLists] /\ e.hostname = h /\ e.addr_list = list
  OBVIOUS
<1>2. /\ dns_cache \in Seq([hostname : Hosts, addr_list : AddrLists])
      /\ dns_cache' = Append(dns_cache, e) /\ Len(dns_cache) \in Nat
  BY CacheType DEF TypeOK, Dns_cache_add
<1> HIDE DEF e
<1>3. /\ Len(dns_cache') = Len(dns_cache) + 1
      /\ \A i \in 1 .. Len(dns_cache) : dns_cache'[i] = dns_cache[i]
      /\ dns_cache'[Len(dns_cache) + 1] = e
  BY <1>1, <1>2, AppendAt
<1>4. ASSUME NEW g PROVE Cached(g)' = {} <=> Cached(g) = {} /\ g # h
  BY <1>1, <1>2, <1>3 DEF Cached
<1> QED BY <1>1, <1>2, <1>3, <1>4

-----------------------------------------------------------------------------
(***************************************************************************)
(* Where the requests are.                                                 *)
(***************************************************************************)
Requests == QueuedOnce /\ Accounted /\ Answered

LEMMA RequestsKept ==
  ASSUME Requests, UNCHANGED <<dns_queue, asked, answers>>
  PROVE  Requests'
BY DEF Requests, QueuedOnce, Accounted, Answered, Queued

(* A client joins the queue.                                               *)
LEMMA RequestQueued ==
  ASSUME TypeOK, Requests, NEW c \in Clients, NEW h \in Hosts,
         NEW ch \in Channels \cup {Waiting},
         Asks(c, h), Dns_queue_add(ch, h, c), UNCHANGED answers
  PROVE  Requests'
<1>1. /\ Len(dns_queue') = Len(dns_queue) + 1 /\ Len(dns_queue) \in Nat
      /\ \A i \in 1 .. Len(dns_queue) : dns_queue'[i] = dns_queue[i]
      /\ dns_queue'[Len(dns_queue) + 1].cb_data = c
  <2>1. dns_queue'[Len(dns_queue) + 1] = [channel |-> ch, hostname |-> h, cb_data |-> c]
    BY QueueAddType
  <2> QED BY <2>1, QueueAddType
<1>2. /\ asked \in [Clients -> Hosts \cup {NoHost}] /\ asked[c] = NoHost
      /\ asked' = [asked EXCEPT ![c] = h] /\ h # NoHost
  BY Types, NullAssumption DEF Asks
<1>3. ~Queued(c) /\ answers[c] = <<>>
  BY <1>2 DEF Requests, Accounted
<1>4. \A d \in Clients : d # c => (Queued(d)' <=> Queued(d))
  BY <1>1 DEF Queued
<1>5. Queued(c)'
  BY <1>1 DEF Queued
<1>6. QueuedOnce'
  BY <1>1, <1>3 DEF Requests, QueuedOnce, Queued
<1>7. Accounted'
  BY <1>2, <1>3, <1>4, <1>5 DEF Requests, Accounted
<1>8. Answered'
  BY <1>2, <1>3 DEF Requests, Answered
<1> QED BY <1>6, <1>7, <1>8 DEF Requests

(* A call makes the one answer of a client that had none.                  *)
LEMMA OneCall ==
  ASSUME TypeOK, NEW c \in Clients, NEW status \in {0, 1}, NEW addr \in AddrLists,
         Call(c, status, addr), answers[c] = <<>>
  PROVE  /\ [status |-> status, addr |-> addr] \in Answers
         /\ answers' = [answers EXCEPT ![c] = <<[status |-> status, addr |-> addr]>>]
         /\ answers'[c] = <<[status |-> status, addr |-> addr]>>
         /\ answers'[c] # <<>>
         /\ \A d \in Clients : d # c => answers'[d] = answers[d]
<1> DEFINE a == [status |-> status, addr |-> addr]
<1>1. a \in Answers
  BY DEF Answers
<1>2. answers \in [Clients -> Seq(Answers)] /\ answers' = [answers EXCEPT ![c] = Append(@, a)]
  BY CacheType DEF Call
<1> HIDE DEF a
<1>3. Append(answers[c], a) = <<a>> /\ <<a>> # <<>>
  BY <1>1
<1> QED BY <1>1, <1>2, <1>3 DEF a

(* A client is answered from the cache.                                    *)
LEMMA RequestCached ==
  ASSUME TypeOK, Requests, NEW c \in Clients, NEW h \in Hosts,
         Asks(c, h), Call(c, 0, h), UNCHANGED dns_queue
  PROVE  Requests'
<1>2. /\ asked \in [Clients -> Hosts \cup {NoHost}] /\ asked[c] = NoHost
      /\ asked' = [asked EXCEPT ![c] = h] /\ h # NoHost
  BY Types, NullAssumption DEF Asks
<1>3. ~Queued(c) /\ answers[c] = <<>>
  BY <1>2 DEF Requests, Accounted
<1>4. /\ [status |-> 0, addr |-> h] \in Answers
      /\ answers'[c] = <<[status |-> 0, addr |-> h]>> /\ answers'[c] # <<>>
      /\ \A d \in Clients : d # c => answers'[d] = answers[d]
  BY <1>3, OneCall DEF AddrLists
<1>5. \A d \in Clients : Queued(d)' <=> Queued(d)
  BY DEF Queued
<1>6. QueuedOnce' /\ Accounted'
  BY <1>2, <1>3, <1>4, <1>5 DEF Requests, QueuedOnce, Accounted
<1>7. Answered'
  <2> SUFFICES ASSUME NEW d \in Clients
               PROVE  \/ answers'[d] = <<>>
                      \/ \E a \in Answers : a.addr \in {asked'[d], NoAddr} /\ answers'[d] = <<a>>
    BY DEF Answered
  <2>1. CASE d = c
    BY <2>1, <1>2, <1>4
  <2>2. CASE d # c
    BY <2>2, <1>2, <1>4 DEF Requests, Answered
  <2> QED BY <2>1, <2>2
<1> QED BY <1>6, <1>7 DEF Requests

(* A queued client is answered and leaves the queue.                       *)
LEMMA RequestServed ==
  ASSUME TypeOK, Requests, QueueServable, UNCHANGED asked,
         NEW i \in 1 .. Len(dns_queue), NEW status \in {0, 1}, NEW addr \in AddrLists,
         addr \in {dns_queue[i].hostname, NoAddr},
         Call(dns_queue[i].cb_data, status, addr), Dns_queue_remove(i)
  PROVE  Requests'
<1>0. PICK c \in Clients : c = dns_queue[i].cb_data
  BY Types
<1>1. /\ Call(c, status, addr) /\ asked[c] = dns_queue[i].hostname /\ asked[c] # NoHost
      /\ Queued(c) /\ answers[c] = <<>>
  BY <1>0, Types, NullAssumption DEF QueueServable, Queued, Requests, Accounted
<1>2. /\ [status |-> status, addr |-> addr] \in Answers
      /\ answers'[c] = <<[status |-> status, addr |-> addr]>> /\ answers'[c] # <<>>
      /\ \A d \in Clients : d # c => answers'[d] = answers[d]
  BY <1>1, OneCall
<1>3. /\ Len(dns_queue') = Len(dns_queue) - 1 /\ Len(dns_queue) \in Nat
      /\ \A j \in 1 .. Len(dns_queue) - 1 :
           dns_queue'[j] = IF j < i THEN dns_queue[j] ELSE dns_queue[j + 1]
  BY QueueRemoveType
<1>4. ~Queued(c)'
  <2> SUFFICES ASSUME NEW j \in 1 .. Len(dns_queue) - 1, dns_queue'[j].cb_data = c
               PROVE  FALSE
    BY <1>3 DEF Queued
  <2>1. PICK k \in 1 .. Len(dns_queue) : k # i /\ dns_queue'[j] = dns_queue[k]
    BY <1>3
  <2> QED BY <2>1, <1>0 DEF Requests, QueuedOnce
<1>5. ASSUME NEW d \in Clients, d # c PROVE Queued(d)' <=> Queued(d)
  <2>1. ASSUME NEW j \in 1 .. Len(dns_queue), dns_queue[j].cb_data = d
        PROVE  \E k \in 1 .. Len(dns_queue') : dns_queue'[k].cb_data = d
    <3>1. j # i
      BY <2>1, <1>0, <1>5
    <3>2. CASE j < i
      BY <2>1, <3>2, <1>3
    <3>3. CASE j > i
      <4>1. j - 1 \in 1 .. Len(dns_queue) - 1 /\ ~(j - 1 < i) /\ (j - 1) + 1 = j
        BY <3>3, <1>3
      <4> QED BY <4>1, <2>1, <1>3
    <3> QED BY <3>1, <3>2, <3>3, <1>3
  <2>2. ASSUME NEW j \in 1 .. Len(dns_queue'), dns_queue'[j].cb_data = d
        PROVE  \E k \in 1 .. Len(dns_queue) : dns_queue[k].cb_data = d
    BY <2>2, <1>3, SMTT(30)
  <2> QED BY <2>1, <2>2 DEF Queued
<1>6. QueuedOnce'
  <2> SUFFICES ASSUME NEW j \in 1 .. Len(dns_queue) - 1, NEW k \in 1 .. Len(dns_queue) - 1,
                      dns_queue'[j].cb_data = dns_queue'[k].cb_data
               PROVE  j = k
    BY <1>3 DEF QueuedOnce
  <2>1. PICK m \in 1 .. Len(dns_queue) :
          dns_queue'[j] = dns_queue[m] /\ m = IF j < i THEN j ELSE j + 1
    BY <1>3
  <2>2. PICK n \in 1 .. Len(dns_queue) :
          dns_queue'[k] = dns_queue[n] /\ n = IF k < i THEN k ELSE k + 1
    BY <1>3
  <2>3. m = n
    BY <2>1, <2>2 DEF Requests, QueuedOnce
  <2> QED BY <2>1, <2>2, <2>3, <1>3
<1>7. Accounted'
  BY <1>1, <1>2, <1>4, <1>5 DEF Requests, Accounted
<1>8. Answered'
  <2> SUFFICES ASSUME NEW d \in Clients
               PROVE  \/ answers'[d] = <<>>
                      \/ \E a \in Answers : a.addr \in {asked[d], NoAddr} /\ answers'[d] = <<a>>
    BY DEF Answered
  <2>1. CASE d = c
    BY <2>1, <1>1, <1>2
  <2>2. CASE d # c
    BY <2>2, <1>2 DEF Requests, Answered
  <2> QED BY <2>1, <2>2
<1> QED BY <1>6, <1>7, <1>8 DEF Requests

(* Dns_assign_channels changes the channels of entries only.               *)
LEMMA RequestsAssigned ==
  ASSUME Requests, UNCHANGED <<asked, answers>>, Len(dns_queue') = Len(dns_queue),
         \A j \in 1 .. Len(dns_queue) : dns_queue'[j].cb_data = dns_queue[j].cb_data
  PROVE  Requests'
<1>1. QueuedOnce'
  BY DEF Requests, QueuedOnce
<1>2. \A c \in Clients : Queued(c)' <=> Queued(c)
  BY DEF Queued
<1> QED BY <1>1, <1>2 DEF Requests, Accounted, Answered
-----------------------------------------------------------------------------
(***************************************************************************)
(* Lookups and steps.                                                      *)
(***************************************************************************)
Lookups == CacheSound /\ ResultsOwn /\ Unknown /\ ServedKnown

LEMMA Parts == AInv <=> Requests /\ Lookups
BY DEF AInv, Requests, Lookups

(* A step that leaves the cache, the main thread and the results alone,    *)
(* and queues nobody for a channel whose host is known.                    *)
LEMMA LookupsKept ==
  ASSUME Lookups, ServedPrefix, UNCHANGED <<dns_cache, main>>,
         \A k \in Channels : /\ dns_server'[k].state = dns_server[k].state
                             /\ dns_server'[k].hostname = dns_server[k].hostname
                             /\ dns_server'[k].status = dns_server[k].status
                             /\ dns_server'[k].addr_list = dns_server[k].addr_list,
         \A j \in 1 .. Len(dns_queue') :
           dns_queue'[j].channel = Waiting => Cached(dns_queue'[j].hostname) = {}
  PROVE  Lookups'
<1>1. CacheSound'
  BY DEF Lookups, CacheSound
<1>2. ResultsOwn'
  BY DEF Lookups, ResultsOwn
<1>3. Unknown'
  BY DEF Lookups, Unknown, Busy, Serving, Cached
<1>4. ServedKnown'
  BY DEF Lookups, ServedKnown, ServedPrefix, Cached
<1> QED BY <1>1, <1>2, <1>3, <1>4 DEF Lookups

LEMMA Stutter ==
  ASSUME UNCHANGED <<asked, answers, dns_cache>>
  PROVE  [R!Next]_(R!vars)
BY DEF R!vars, Cached

(* A request of a host that is not known is asked, and not answered yet.   *)
LEMMA AskLater ==
  ASSUME NEW c \in Clients, NEW h \in Hosts, Asks(c, h), Cached(h) = {},
         UNCHANGED <<answers, dns_cache>>
  PROVE  [R!Next]_(R!vars)
<1>1. R!Ask(c, h)
  BY DEF R!Ask, Asks, Cached
<1> QED BY <1>1 DEF R!Next

LEMMA ResolveAnswers ==
  ASSUME IInv, AInv, NEW c \in Clients, NEW h \in Hosts, a_Dns_resolve(c, h)
  PROVE  AInv' /\ [R!Next]_(R!vars)
<1>t. /\ TypeOK /\ ServedPrefix /\ QueueServable /\ Requests /\ Lookups
      /\ Len(dns_queue) \in Nat
  BY Parts, Types DEF IInv
<1>w. \A j \in 1 .. Len(dns_queue) :
        dns_queue[j].channel = Waiting => Cached(dns_queue[j].hostname) = {}
  BY <1>t DEF Lookups, Unknown
<1>q. ASSUME NEW ch \in Channels \cup {Waiting}, Dns_queue_add(ch, h, c), Cached(h) = {}
      PROVE  \A j \in 1 .. Len(dns_queue') :
               dns_queue'[j].channel = Waiting => Cached(dns_queue'[j].hostname) = {}
  <2>1. /\ Len(dns_queue') = Len(dns_queue) + 1
        /\ \A j \in 1 .. Len(dns_queue) : dns_queue'[j] = dns_queue[j]
        /\ dns_queue'[Len(dns_queue) + 1] = [channel |-> ch, hostname |-> h, cb_data |-> c]
    BY <1>q, <1>t, QueueAddType
  <2>2. dns_queue'[Len(dns_queue) + 1].hostname = h
    BY <2>1
  <2> SUFFICES ASSUME NEW j \in 1 .. Len(dns_queue'), dns_queue'[j].channel = Waiting
               PROVE  Cached(dns_queue'[j].hostname) = {}
    OBVIOUS
  <2>3. CASE j = Len(dns_queue) + 1
    <3>1. dns_queue'[j].hostname = h
      BY <2>2, <2>3
    <3> QED BY <3>1, <1>q
  <2>4. CASE j # Len(dns_queue) + 1
    <3>1. j \in 1 .. Len(dns_queue) /\ dns_queue'[j] = dns_queue[j]
      BY <2>1, <2>4, <1>t
    <3> QED BY <3>1, <1>w
  <2> QED BY <2>3, <2>4
<1>1. CASE ResolveCached(c, h)
  <2>1. PICK i \in 1 .. Len(dns_cache) :
          dns_cache[i].hostname = h /\ Call(c, 0, dns_cache[i].addr_list)
    BY <1>1 DEF ResolveCached, Cached
  <2>2. Call(c, 0, h) /\ Cached(h) # {}
    BY <2>1, <1>t DEF Lookups, CacheSound, Cached
  <2>3. Asks(c, h) /\ UNCHANGED <<dns_server, dns_queue, dns_cache, main>>
    BY <1>1 DEF ResolveCached
  <2>4. Requests'
    BY <2>2, <2>3, <1>t, RequestCached
  <2>5. Lookups'
    BY <2>3, <1>t, <1>w, LookupsKept
  <2>6. R!Ask(c, h)
    <3>1. asked[c] = NoHost /\ answers[c] = <<>>
      BY <2>3, <1>t DEF Asks, Requests, Accounted
    <3>2. answers' = [answers EXCEPT ![c] = <<[status |-> 0, addr |-> h]>>]
      BY <2>2, <3>1, <1>t, OneCall DEF AddrLists
    <3> QED BY <2>2, <2>3, <3>1, <3>2 DEF R!Ask, R!Success, Asks, Cached
  <2> QED BY <2>4, <2>5, <2>6, Parts DEF R!Next, AInv, Requests, Lookups
<1>2. CASE ResolveQueued(c, h)
  <2>1. PICK i \in 1 .. Len(dns_queue) : Dns_queue_add(dns_queue[i].channel, h, c)
    BY <1>2 DEF ResolveQueued, Dns_queue_find
  <2>2. /\ Asks(c, h) /\ Cached(h) = {}
        /\ UNCHANGED <<dns_server, dns_cache, main, answers>>
    BY <1>2 DEF ResolveQueued
  <2>3. Requests' /\ Lookups'
    BY <2>1, <2>2, <1>t, <1>q, Types, RequestQueued, LookupsKept
  <2> QED BY <2>2, <2>3, AskLater DEF AInv, Requests, Lookups
<1>3. CASE ResolveNew(c, h)
  <2>1. PICK ch \in Channels : /\ dns_server[ch].state = IDLE
                               /\ Dns_queue_add(ch, h, c) /\ Dns_server_req(ch, h)
    BY <1>3 DEF ResolveNew, IdleChannels
  <2>2. /\ Asks(c, h) /\ Cached(h) = {} /\ main.at = "loop"
        /\ UNCHANGED <<dns_cache, main, answers>>
    BY <1>3 DEF ResolveNew, Asks
  <2>3. /\ dns_server'[ch].state = PROCESSING /\ dns_server'[ch].hostname = h
        /\ \A k \in Channels : k # ch => dns_server'[k] = dns_server[k]
    BY <2>1, <1>t, ServerReqType
  <2>4. Requests'
    BY <2>1, <2>2, <1>t, RequestQueued
  <2>5. CacheSound' /\ ServedKnown'
    BY <2>2, <1>t DEF Lookups, CacheSound, ServedKnown
  <2>6. ResultsOwn'
    BY <2>3, <1>t DEF Lookups, ResultsOwn, PROCESSING, RESOLVED
  <2>7. Unknown'
    <3>1. \A k \in Channels : (dns_server'[k].state # IDLE /\ ~Serving(k)')
                                => Cached(dns_server'[k].hostname) = {}
      BY <2>2, <2>3, <1>t DEF Lookups, Unknown, Busy, Serving
    <3>2. \A g : Cached(g)' = Cached(g)
      BY <2>2 DEF Cached
    <3>3. \A j \in 1 .. Len(dns_queue') :
            dns_queue'[j].channel = Waiting => Cached(dns_queue'[j].hostname) = {}
      BY <2>1, <2>2, <1>q
    <3> QED BY <3>1, <3>2, <3>3 DEF Unknown, Busy, Cached
  <2> QED BY <2>2, <2>4, <2>5, <2>6, <2>7, AskLater DEF AInv, Requests
<1>4. CASE ResolveLater(c, h)
  <2>1. /\ Asks(c, h) /\ Cached(h) = {} /\ Dns_queue_add(Waiting, h, c)
        /\ UNCHANGED <<dns_server, dns_cache, main, answers>>
    BY <1>4 DEF ResolveLater
  <2>2. Requests' /\ Lookups'
    BY <2>1, <1>t, <1>q, RequestQueued, LookupsKept
  <2> QED BY <2>1, <2>2, AskLater DEF AInv, Requests, Lookups
<1> QED BY <1>1, <1>2, <1>3, <1>4 DEF a_Dns_resolve

(* A thread stores its result: it is that of the host of the channel.      *)
LEMMA ThreadAnswers ==
  ASSUME IInv, AInv, (\E ch \in Channels : Dns_server(ch)) \/ Dns_server_notify
  PROVE  AInv' /\ [R!Next]_(R!vars)
<1>t. /\ TypeOK /\ LookingProcesses /\ ServedPrefix /\ Requests /\ Lookups
      /\ dns_server \in Servers
  BY Parts, Types DEF IInv
<1>w. \A j \in 1 .. Len(dns_queue) :
        dns_queue[j].channel = Waiting => Cached(dns_queue[j].hostname) = {}
  BY <1>t DEF Lookups, Unknown
<1>f. UNCHANGED <<dns_queue, dns_cache, main, asked, answers>>
  BY DEF Dns_server, Dns_server_notify
<1>r. Requests' /\ [R!Next]_(R!vars)
  BY <1>f, <1>t, RequestsKept, Stutter
<1>1. CASE Dns_server_notify
  <2>1. Lookups'
    BY <1>1, <1>f, <1>t, <1>w, LookupsKept DEF Dns_server_notify
  <2> QED BY <2>1, <1>r DEF AInv, Requests, Lookups
<1>2. ASSUME NEW ch \in Channels, Dns_server(ch) PROVE Lookups'
  <2>1. dns_server[ch].state = PROCESSING
    BY <1>2, <1>t DEF Dns_server, LookingProcesses
  <2>2. PICK r \in {[status |-> 0, addr |-> dns_server[ch].hostname],
                    [status |-> 0, addr |-> NoAddr],
                    [status |-> 1, addr |-> NoAddr]} :
          dns_server' = [dns_server EXCEPT ![ch].status = r.status,
                                           ![ch].addr_list = r.addr,
                                           ![ch].prev_list = dns_server[ch].addr_list,
                                           ![ch].state = RESOLVED]
    BY <1>2 DEF Dns_server
  <2>3. /\ dns_server'[ch].hostname = dns_server[ch].hostname
        /\ dns_server'[ch].state = RESOLVED
        /\ dns_server'[ch].status = r.status /\ dns_server'[ch].addr_list = r.addr
        /\ \A k \in Channels : k # ch => dns_server'[k] = dns_server[k]
    BY <2>2, <1>t DEF Servers, Server
  <2>4. r.addr = NoAddr \/ (r.status = 0 /\ r.addr = dns_server[ch].hostname)
    BY <2>2
  <2>5. ~Serving(ch)
    BY <2>1, <1>t DEF ServedPrefix, Serving, PROCESSING, RESOLVED
  <2>6. CacheSound'
    BY <1>f, <1>t DEF Lookups, CacheSound
  <2>7. ResultsOwn'
    BY <2>3, <2>4, <1>t DEF Lookups, ResultsOwn
  <2>8. Unknown'
    <3>1. \A k \in Channels : dns_server'[k].state # IDLE /\ ~Serving(k)
                                => Cached(dns_server'[k].hostname) = {}
      BY <2>1, <2>3, <1>t DEF Lookups, Unknown, Busy, IDLE, PROCESSING
    <3> QED BY <3>1, <1>f, <1>w DEF Unknown, Busy, Serving, Cached
  <2>9. ServedKnown'
    <3>1. main.at = "serve" => dns_server'[main.ch] = dns_server[main.ch]
      BY <2>3, <2>5, <1>t DEF ServedPrefix, Serving
    <3> QED BY <3>1, <1>f, <1>t DEF Lookups, ServedKnown, Cached
  <2> QED BY <2>6, <2>7, <2>8, <2>9 DEF Lookups
<1> QED BY <1>1, <1>2, <1>r DEF AInv, Requests, Lookups

(* The scan comes to a result.  The host becomes known if it has one; a    *)
(* client waits for it (BusyHasClient), and no other channel or waiting    *)
(* client is about the same host.                                          *)
LEMMA ScanAnswers ==
  ASSUME StoresInOrder = TRUE, IInv, AInv, ScanChannel
  PROVE  AInv' /\ [R!Next]_(R!vars)
<1>t. /\ TypeOK /\ ServedPrefix /\ QueueServable /\ BusyHasClient /\ OneLookupPerHost
      /\ Requests /\ Lookups /\ dns_server \in Servers
  BY Parts, Types DEF IInv
<1>w. \A j \in 1 .. Len(dns_queue) :
        dns_queue[j].channel = Waiting => Cached(dns_queue[j].hostname) = {}
  BY <1>t DEF Lookups, Unknown
<1>f. /\ UNCHANGED <<dns_queue, asked, answers>>
      /\ main.at = "scan" /\ main.ch \in Channels
  BY DEF ScanChannel
<1>r. Requests'
  BY <1>f, <1>t, RequestsKept
<1>1. CASE dns_server[main.ch].state # RESOLVED
  <2>1. UNCHANGED <<dns_cache, dns_server>> /\ main'.at = "scan"
    BY <1>1 DEF ScanChannel, At
  <2>2. Lookups'
    BY <2>1, <1>f, <1>t DEF Lookups, CacheSound, ResultsOwn, Unknown, ServedKnown, Serving,
                            Busy, Cached
  <2>3. [R!Next]_(R!vars)
    BY <2>1, <1>f, Stutter
  <2> QED BY <2>2, <2>3, <1>r DEF AInv, Requests, Lookups
<1>2. CASE dns_server[main.ch].state = RESOLVED
  <2>0. PICK m \in Channels : m = main.ch
    BY <1>f
  <2>h. PICK h \in Hosts : h = dns_server[m].hostname
    BY <2>0, <1>2, <1>t DEF TypeOK, Busy, IDLE, RESOLVED
  <2>l. PICK list \in AddrLists : list = dns_server[m].addr_list
    BY <1>t DEF Servers, Server
  <2>1. /\ dns_server' = [dns_server EXCEPT ![m].prev_list = list]
        /\ main' = At("serve", m, 1)
        /\ IF list # NoAddr THEN Dns_cache_add(h, list) ELSE UNCHANGED dns_cache
    BY <1>2, <2>0, <2>h, <2>l DEF ScanChannel, VisibleLists
  <2>2. /\ \A k \in Channels : /\ dns_server'[k].state = dns_server[k].state
                               /\ dns_server'[k].hostname = dns_server[k].hostname
                               /\ dns_server'[k].status = dns_server[k].status
                               /\ dns_server'[k].addr_list = dns_server[k].addr_list
        /\ main'.at = "serve" /\ main'.ch = m
    BY <2>1, <1>t DEF Servers, Server, At
  <2>3. Busy(m) /\ ~Serving(m)
    BY <2>0, <1>2, <1>f DEF Busy, Serving, IDLE, RESOLVED
  <2>4. Cached(h) = {}
    BY <2>3, <2>h, <1>t DEF Lookups, Unknown
  <2>5. list = NoAddr \/ list = h
    BY <2>0, <2>h, <2>l, <1>2, <1>t DEF Lookups, ResultsOwn
  <2>6. ResultsOwn'
    BY <2>2, <1>t DEF Lookups, ResultsOwn
  <2>7. \A k \in Channels : k # m /\ dns_server[k].state # IDLE =>
          dns_server[k].hostname # h /\ Cached(dns_server[k].hostname) = {}
    <3>1. \A k \in Channels : ~Serving(k)
      BY <1>f DEF Serving
    <3> QED BY <3>1, <2>3, <2>h, <1>t DEF OneLookupPerHost, Lookups, Unknown, Busy
  <2>8. \A j \in 1 .. Len(dns_queue) : dns_queue[j].channel = Waiting =>
          dns_queue[j].hostname # h /\ Cached(dns_queue[j].hostname) = {}
    BY <2>3, <2>h, <1>w, <1>t DEF QueueServable
  <2>s. ASSUME list = NoAddr <=> Cached(h)' = {} PROVE ServedKnown'
    <3>1. dns_server'[main'.ch].addr_list = list /\ dns_server'[main'.ch].hostname = h
      BY <2>2, <2>h, <2>l
    <3> QED BY <3>1, <2>s DEF ServedKnown, Cached
  <2>9. CASE list = NoAddr
    <3>1. UNCHANGED dns_cache
      BY <2>1, <2>9
    <3>2. CacheSound'
      BY <3>1, <1>t DEF Lookups, CacheSound
    <3>3. Unknown'
      BY <3>1, <2>2, <2>7, <2>8, <1>f DEF Unknown, Busy, Serving, Cached
    <3>4. ServedKnown'
      BY <3>1, <2>4, <2>9, <2>s DEF Cached
    <3>5. [R!Next]_(R!vars)
      BY <3>1, <1>f, Stutter
    <3> QED BY <3>2, <3>3, <3>4, <3>5, <2>6, <1>r DEF AInv, Requests
  <2>10. CASE list = h
    <3>0. list # NoAddr
      BY <2>10, NullAssumption
    <3>1. Dns_cache_add(h, h)
      BY <3>0, <2>1, <2>10
    <3>2. /\ Len(dns_cache) \in Nat /\ Len(dns_cache') = Len(dns_cache) + 1
          /\ \A i \in 1 .. Len(dns_cache) : dns_cache'[i] = dns_cache[i]
          /\ dns_cache'[Len(dns_cache) + 1].hostname = h
          /\ dns_cache'[Len(dns_cache) + 1].addr_list = h
          /\ \A g : Cached(g)' = {} <=> Cached(g) = {} /\ g # h
      BY <3>1, <1>t, CacheAdd DEF AddrLists
    <3>3. CacheSound'
      <4>1. \A i \in 1 .. Len(dns_cache) : dns_cache[i].hostname # h
        BY <2>4 DEF Cached
      <4> QED BY <4>1, <3>2, <1>t DEF Lookups, CacheSound
    <3>4. Unknown'
      <4>1. \A k \in Channels : Busy(k)' /\ ~Serving(k)' => Cached(dns_server[k].hostname)' = {}
        BY <2>2, <2>7, <3>2 DEF Busy, Serving
      <4> QED BY <4>1, <3>2, <2>2, <2>8, <1>f DEF Unknown
    <3>5. ServedKnown'
      BY <3>0, <3>2, <2>s
    <3>6. R!Learn(h)
      <4>1. PICK i \in 1 .. Len(dns_queue) : dns_queue[i].channel = m
        BY <2>3, <1>f, <1>t DEF BusyHasClient, Serving
      <4>2. PICK c \in Clients : c = dns_queue[i].cb_data
        BY <1>t, Types
      <4>3. asked[c] = h
        BY <4>1, <4>2, <2>h, <1>t, WaitingIsNoChannel DEF QueueServable
      <4>4. answers[c] = <<>> /\ h # NoHost
        BY <4>2, <4>3, <1>t, NullAssumption DEF Requests, Accounted, Queued
      <4>5. {g \in Hosts : Cached(g) # {}}' = {g \in Hosts : Cached(g) # {}} \cup {h}
        BY <3>2
      <4> QED BY <4>3, <4>4, <4>5, <2>4, <1>f DEF R!Learn, R!Pending
    <3> QED BY <3>3, <3>4, <3>5, <3>6, <2>6, <1>r DEF AInv, Requests, R!Next
  <2> QED BY <2>5, <2>9, <2>10
<1> QED BY <1>1, <1>2

(* One entry of the queue is looked at, or the channel is done.            *)
LEMMA ServeAnswers ==
  ASSUME StoresInOrder = TRUE, IInv, AInv, Dns_serve_channel \/ ChannelServed
  PROVE  AInv' /\ [R!Next]_(R!vars)
<1>t. /\ TypeOK /\ ServedPrefix /\ QueueServable /\ Requests /\ Lookups
      /\ dns_server \in Servers /\ Len(dns_queue) \in Nat
  BY Parts, Types DEF IInv
<1>w. \A j \in 1 .. Len(dns_queue) :
        dns_queue[j].channel = Waiting => Cached(dns_queue[j].hostname) = {}
  BY <1>t DEF Lookups, Unknown
<1>f. /\ main.at = "serve" /\ dns_server[main.ch].state = RESOLVED
      /\ main.i > 0 /\ main.i \in Nat /\ UNCHANGED <<dns_cache, asked>>
  BY <1>t, Types DEF Dns_serve_channel, ChannelServed, ServedPrefix, Places
<1>m. PICK m \in Channels : m = main.ch
  BY <1>f, <1>t DEF ServedPrefix
<1>1. CASE Dns_serve_channel /\ dns_queue[main.i].channel = main.ch
  <2>i. PICK i \in 1 .. Len(dns_queue) : i = main.i
    BY <1>1, <1>f, <1>t DEF Dns_serve_channel
  <2>h. PICK h \in Hosts : h = dns_queue[i].hostname
    BY <1>t, Types
  <2>c. PICK c \in Clients : c = dns_queue[i].cb_data
    BY <1>t, Types
  <2>l. PICK list \in AddrLists, status \in {0, 1} :
          list = dns_server[m].addr_list /\ status = dns_server[m].status
    BY <1>t DEF Servers, Server
  <2>1. /\ Call(c, status, list) /\ Dns_queue_remove(i) /\ UNCHANGED main
        /\ dns_server' = [dns_server EXCEPT ![m].prev_list = list]
    BY <1>1, <1>m, <2>i, <2>c, <2>l DEF Dns_serve_channel, VisibleLists
  <2>2. \A k \in Channels : /\ dns_server'[k].state = dns_server[k].state
                            /\ dns_server'[k].hostname = dns_server[k].hostname
                            /\ dns_server'[k].status = dns_server[k].status
                            /\ dns_server'[k].addr_list = dns_server[k].addr_list
    BY <2>1, <1>t DEF Servers, Server
  <2>3. dns_server[m].hostname = h /\ asked[c] = h
    BY <1>1, <1>m, <2>i, <2>h, <2>c, <1>t, WaitingIsNoChannel DEF QueueServable
  <2>4. (status = 0 /\ list = h) \/ list = NoAddr
    BY <1>f, <1>m, <2>l, <2>3, <1>t DEF Lookups, ResultsOwn
  <2>5. list = NoAddr <=> Cached(h) = {}
    BY <1>f, <1>m, <2>l, <2>3, <1>t DEF Lookups, ServedKnown
  <2>6. Requests'
    <3>1. Call(dns_queue[i].cb_data, status, list)
      BY <2>1, <2>c
    <3>2. list \in {dns_queue[i].hostname, NoAddr}
      BY <2>4, <2>h
    <3> QED BY <3>1, <3>2, <2>1, <1>f, <1>t, RequestServed
  <2>7. Lookups'
    <3>0. /\ Len(dns_queue') = Len(dns_queue) - 1 /\ Len(dns_queue) \in Nat
          /\ \A j \in 1 .. Len(dns_queue) - 1 :
               dns_queue'[j] = IF j < i THEN dns_queue[j] ELSE dns_queue[j + 1]
      BY <2>1, <1>t, QueueRemoveType
    <3>1. \A j \in 1 .. Len(dns_queue') : \E k \in 1 .. Len(dns_queue) : dns_queue'[j] = dns_queue[k]
      BY <3>0
    <3>2. \A j \in 1 .. Len(dns_queue') :
            dns_queue'[j].channel = Waiting => Cached(dns_queue'[j].hostname) = {}
      BY <3>1, <1>w
    <3> QED BY <3>2, <2>1, <2>2, <1>f, <1>t, LookupsKept
  <2>8. R!Answer(c)
    <3>1. Queued(c) /\ answers[c] = <<>> /\ asked[c] # NoHost
      BY <2>c, <2>3, <1>t, NullAssumption DEF Queued, Requests, Accounted
    <3>2. answers' = [answers EXCEPT ![c] = <<[status |-> status, addr |-> list]>>]
      BY <3>1, <2>1, <1>t, OneCall
    <3>3. {g \in Hosts : Cached(g) # {}}' = {g \in Hosts : Cached(g) # {}}
      BY <1>f DEF Cached
    <3>4. R!Pending(c)
      BY <3>1 DEF R!Pending
    <3>5. CASE Cached(h) # {}
      <4>1. [status |-> status, addr |-> list] = R!Success(asked[c])
        BY <3>5, <2>3, <2>4, <2>5 DEF R!Success
      <4> QED BY <4>1, <3>2, <3>3, <3>4, <3>5, <2>3, <1>f DEF R!Answer
    <3>6. CASE Cached(h) = {}
      <4>1. [status |-> status, addr |-> list] \in R!Failures
        BY <3>6, <2>5 DEF R!Failures
      <4>2. asked[c] \notin {g \in Hosts : Cached(g) # {}}
        BY <3>6, <2>3
      <4> QED BY <4>1, <4>2, <3>2, <3>3, <3>4, <1>f DEF R!Answer
    <3> QED BY <3>5, <3>6
  <2> QED BY <2>6, <2>7, <2>8 DEF AInv, Requests, Lookups, R!Next
<1>2. CASE Dns_serve_channel /\ dns_queue[main.i].channel # main.ch
  <2>1. /\ UNCHANGED <<dns_server, dns_queue, answers>>
        /\ main' = [main EXCEPT !.i = @ + 1]
    BY <1>2 DEF Dns_serve_channel
  <2>2. main'.at = main.at /\ main'.ch = main.ch
    BY <2>1, <1>t, Types DEF Places
  <2>3. Requests' /\ [R!Next]_(R!vars)
    BY <2>1, <1>f, <1>t, RequestsKept, Stutter
  <2>4. Lookups'
    BY <2>1, <2>2, <1>f, <1>t DEF Lookups, CacheSound, ResultsOwn, Unknown, ServedKnown,
                                  Serving, Busy, Cached
  <2> QED BY <2>3, <2>4 DEF AInv, Requests, Lookups
<1>3. CASE ChannelServed
  <2>1. /\ UNCHANGED <<dns_queue, answers>> /\ main'.at = "scan"
        /\ dns_server' = [dns_server EXCEPT ![m].state = IDLE]
    BY <1>3, <1>m DEF ChannelServed, At
  <2>2. /\ dns_server'[m].state = IDLE
        /\ \A k \in Channels : k # m => dns_server'[k] = dns_server[k]
    BY <2>1, <1>t DEF Servers, Server
  <2>3. Requests' /\ [R!Next]_(R!vars)
    BY <2>1, <1>f, <1>t, RequestsKept, Stutter
  <2>4. CacheSound' /\ ServedKnown'
    BY <2>1, <1>f, <1>t DEF Lookups, CacheSound, ServedKnown
  <2>5. ResultsOwn'
    BY <2>2, <1>t DEF Lookups, ResultsOwn, IDLE, RESOLVED
  <2>6. Unknown'
    <3>1. \A k \in Channels : dns_server'[k].state # IDLE => Cached(dns_server'[k].hostname) = {}
      BY <2>2, <1>m, <1>t DEF Lookups, Unknown, Busy, Serving
    <3> QED BY <3>1, <2>1, <1>f, <1>w DEF Unknown, Busy, Cached
  <2> QED BY <2>3, <2>4, <2>5, <2>6 DEF AInv, Requests
<1> QED BY <1>1, <1>2, <1>3

(* Dns_assign_channels: the host of a waiting client is not known.         *)
LEMMA AssignAnswers ==
  ASSUME IInv, AInv, Dns_assign_channels
  PROVE  AInv' /\ [R!Next]_(R!vars)
<1>t. /\ TypeOK /\ Requests /\ Lookups /\ Len(dns_queue) \in Nat
  BY Parts, Types DEF IInv
<1>w. \A j \in 1 .. Len(dns_queue) :
        dns_queue[j].channel = Waiting => Cached(dns_queue[j].hostname) = {}
  BY <1>t DEF Lookups, Unknown
<1>f. /\ main.at = "assign" /\ main'.at = "assign"
      /\ UNCHANGED <<dns_cache, asked, answers>>
  BY DEF Dns_assign_channels, At
<1>m. PICK m \in Channels : m = main.ch
  BY DEF Dns_assign_channels
<1>r. [R!Next]_(R!vars)
  BY <1>f, Stutter
<1>c. CacheSound' /\ ServedKnown'
  BY <1>f, <1>t DEF Lookups, CacheSound, ServedKnown
<1>1. CASE ~(dns_server[main.ch].state = IDLE /\ SomeoneWaits)
  <2>1. UNCHANGED <<dns_queue, dns_server>>
    BY <1>1 DEF Dns_assign_channels
  <2>2. Requests'
    BY <2>1, <1>f, <1>t, RequestsKept
  <2>3. ResultsOwn' /\ Unknown'
    BY <2>1, <1>f, <1>t DEF Lookups, ResultsOwn, Unknown, Serving, Busy, Cached
  <2> QED BY <2>2, <2>3, <1>c, <1>r DEF AInv, Requests
<1>2. CASE dns_server[main.ch].state = IDLE /\ SomeoneWaits
  <2>1. PICK i \in 1 .. Len(dns_queue) : AssignTo(i, SameHostWaiting(i))
    BY <1>2 DEF Dns_assign_channels
  <2>h. PICK h \in Hosts : h = dns_queue[i].hostname
    BY <1>t, Types
  <2>2. /\ dns_queue[i].channel = Waiting /\ Dns_server_req(m, h)
        /\ dns_queue' = [j \in 1 .. Len(dns_queue) |->
                          IF j \in SameHostWaiting(i)
                          THEN [dns_queue[j] EXCEPT !.channel = m] ELSE dns_queue[j]]
    BY <2>1, <2>h, <1>m DEF AssignTo, FirstWaiting
  <2>3. /\ dns_server'[m].state = PROCESSING /\ dns_server'[m].hostname = h
        /\ \A k \in Channels : k # m => dns_server'[k] = dns_server[k]
    BY <2>2, <1>t, ServerReqType
  <2>4. Len(dns_queue') = Len(dns_queue)
    <3>1. \A j \in 1 .. Len(dns_queue) : dns_queue[j] \in QueueEntry
      BY <1>t, ElementOfSeq DEF TypeOK
    <3>2. \A j \in 1 .. Len(dns_queue) : [dns_queue[j] EXCEPT !.channel = m] \in QueueEntry
      BY <3>1 DEF QueueEntry
    <3>3. dns_queue' \in [1 .. Len(dns_queue) -> QueueEntry]
      BY <2>2, <3>1, <3>2
    <3> QED BY <3>3, <1>t, MapAt DEF TypeOK
  <2>5. ASSUME NEW j \in 1 .. Len(dns_queue)
        PROVE  /\ dns_queue'[j].cb_data = dns_queue[j].cb_data
               /\ dns_queue'[j].hostname = dns_queue[j].hostname
               /\ dns_queue'[j].channel = dns_queue[j].channel \/ dns_queue'[j].channel = m
    <3>0. dns_queue[j] \in QueueEntry
      BY <1>t, ElementOfSeq DEF TypeOK
    <3>1. dns_queue'[j] = dns_queue[j] \/ dns_queue'[j] = [dns_queue[j] EXCEPT !.channel = m]
      BY <2>2
    <3> QED BY <3>0, <3>1 DEF QueueEntry
  <2>6. Requests'
    BY <2>4, <2>5, <1>f, <1>t, RequestsAssigned
  <2>7. Cached(h) = {}
    BY <2>2, <2>h, <1>w
  <2>8. ResultsOwn'
    BY <2>3, <1>t DEF Lookups, ResultsOwn, PROCESSING, RESOLVED
  <2>9. Unknown'
    <3>1. \A k \in Channels : dns_server'[k].state # IDLE => Cached(dns_server'[k].hostname) = {}
      BY <2>3, <2>7, <1>f, <1>t DEF Lookups, Unknown, Busy, Serving
    <3>2. \A j \in 1 .. Len(dns_queue') :
            dns_queue'[j].channel = Waiting => Cached(dns_queue'[j].hostname) = {}
      BY <2>4, <2>5, <1>w, WaitingIsNoChannel
    <3> QED BY <3>1, <3>2, <1>f DEF Unknown, Busy, Cached
  <2> QED BY <2>6, <2>8, <2>9, <1>c, <1>r DEF AInv, Requests
<1> QED BY <1>1, <1>2
-----------------------------------------------------------------------------
(***************************************************************************)
(* The theorems.                                                           *)
(***************************************************************************)
LEMMA InitAnswers == Init => AInv /\ R!Init
<1> SUFFICES ASSUME Init PROVE AInv /\ R!Init
  OBVIOUS
<1>1. /\ dns_queue = <<>> /\ Len(dns_queue) = 0 /\ dns_cache = <<>> /\ Len(dns_cache) = 0
      /\ main.at = "loop" /\ asked = [c \in Clients |-> NoHost]
      /\ answers = [c \in Clients |-> <<>>]
      /\ \A ch \in Channels : dns_server[ch].state = IDLE
  BY DEF Init, Loop
<1>2. QueuedOnce /\ Accounted /\ Answered /\ CacheSound
  BY <1>1 DEF QueuedOnce, Accounted, Queued, Answered, CacheSound
<1>3. ResultsOwn /\ Unknown /\ ServedKnown
  BY <1>1 DEF ResultsOwn, Unknown, ServedKnown, Busy, IDLE, RESOLVED
<1>4. R!Init
  BY <1>1 DEF R!Init, Cached
<1> QED BY <1>2, <1>3, <1>4 DEF AInv

LEMMA NextAnswers ==
  ASSUME StoresInOrder = TRUE, IInv, AInv, [Next]_vars
  PROVE  AInv' /\ [R!Next]_(R!vars)
<1>1. ASSUME NEW c \in Clients, NEW h \in Hosts, a_Dns_resolve(c, h)
      PROVE  AInv' /\ [R!Next]_(R!vars)
  BY <1>1, ResolveAnswers
<1>2. CASE (\E ch \in Channels : Dns_server(ch)) \/ Dns_server_notify
  BY <1>2, ThreadAnswers
<1>3. CASE ScanChannel
  BY <1>3, ScanAnswers
<1>4. CASE Dns_serve_channel \/ ChannelServed
  BY <1>4, ServeAnswers
<1>5. CASE Dns_assign_channels
  BY <1>5, AssignAnswers
<1>6. CASE Dns_timeout_client \/ ScanDone \/ AssignDone \/ UNCHANGED vars
  <2>1. /\ UNCHANGED <<dns_server, dns_queue, dns_cache, asked, answers>>
        /\ (main'.at # "serve" /\ main.at # "serve") \/ UNCHANGED main
    BY <1>6 DEF Dns_timeout_client, ScanDone, AssignDone, vars, At, Loop
  <2>2. Requests' /\ [R!Next]_(R!vars)
    BY <2>1, Parts, RequestsKept, Stutter
  <2>3. Lookups'
    BY <2>1, Parts DEF Lookups, CacheSound, ResultsOwn, Unknown, ServedKnown, Serving, Busy, Cached
  <2> QED BY <2>2, <2>3 DEF AInv, Requests, Lookups
<1> QED BY <1>1, <1>2, <1>3, <1>4, <1>5, <1>6 DEF Next, Main

(* Where the requests, the cache and the lookups agree, in every state.    *)
THEOREM AnswersInvariance == ASSUME StoresInOrder = TRUE PROVE Spec => []AInv
<1>1. Init => AInv
  BY InitAnswers
<1>2. IInv /\ AInv /\ [Next]_vars => AInv'
  BY NextAnswers
<1> QED BY <1>1, <1>2, Invariance, PTL DEF Spec

(* Every client is in one place, is answered once, with the addresses of   *)
(* the host it asked for or a failure; a host is cached once, and not      *)
(* looked up again: for any number of clients and channels.                *)
THEOREM ClientsAreAnswered == ASSUME StoresInOrder = TRUE PROVE Spec => []AnswersSound
<1>1. IInv /\ AInv => AnswersSound
  <2> SUFFICES ASSUME IInv, AInv PROVE AnswersSound
    OBVIOUS
  <2>1. OneAnswerEach
    <3> SUFFICES ASSUME NEW c \in Clients
                 PROVE  LET places == {i \in 1 .. Len(dns_queue) : dns_queue[i].cb_data = c} IN
                        /\ \A i, j \in places : i = j
                        /\ places # {} => answers[c] = <<>>
                        /\ Len(answers[c]) <= 1
                        /\ asked[c] # NoHost <=> places # {} \/ answers[c] # <<>>
      BY DEF OneAnswerEach
    <3> DEFINE places == {i \in 1 .. Len(dns_queue) : dns_queue[i].cb_data = c}
    <3>1. \A i, j \in places : i = j
      BY DEF AInv, QueuedOnce
    <3>2. places # {} <=> Queued(c)
      BY DEF Queued
    <3> HIDE DEF places
    <3>3. places # {} => answers[c] = <<>>
      BY <3>2 DEF AInv, Accounted
    <3>4. asked[c] # NoHost <=> places # {} \/ answers[c] # <<>>
      BY <3>2 DEF AInv, Accounted
    <3>5. Len(answers[c]) <= 1
      <4>1. CASE answers[c] = <<>>
        BY <4>1
      <4>2. ASSUME NEW a, answers[c] = <<a>> PROVE Len(answers[c]) <= 1
        <5>1. Len(<<a>>) = 1
          OBVIOUS
        <5> QED BY <4>2, <5>1
      <4> QED BY <4>1, <4>2 DEF AInv, Answered
    <3> QED BY <3>1, <3>3, <3>4, <3>5 DEF places
  <2>2. AnswersTheHostAsked
    BY DEF AInv, Answered, CacheSound, AnswersTheHostAsked
  <2>3. CachedOnce
    BY DEF AInv, IInv, CacheSound, Unknown, LookingProcesses, ServedPrefix, Serving, Busy,
           CachedOnce, IDLE, PROCESSING, RESOLVED
  <2> QED BY <2>1, <2>2, <2>3 DEF AnswersSound
<1> QED BY <1>1, AnswersInvariance, Invariance, PTL

(* Every behaviour of dns.c starts and goes on as Resolver allows: the     *)
(* safety part of ImplementsResolver.                                      *)
THEOREM StepsAsResolver == ASSUME StoresInOrder = TRUE PROVE Spec => Simulates
<1>1. Init => R!Init
  BY InitAnswers
<1>2. IInv /\ AInv /\ [Next]_vars => [R!Next]_(R!vars)
  BY NextAnswers
<1> QED BY <1>1, <1>2, Invariance, AnswersInvariance, PTL DEF Spec, Simulates
=============================================================================
