------------------------------ MODULE Resolver ------------------------------
(***************************************************************************)
(* What dillo's resolver (src/src/dns.c) promises its callers, without     *)
(* channels, threads or the notification pipe: a client asks for the       *)
(* address of a host and its callback is called once, with the address of  *)
(* that host or with a failure.  A host that was resolved once stays known *)
(* for the life of the program and is never answered with a failure again. *)
(***************************************************************************)
EXTENDS Integers, Sequences

CONSTANTS Hosts,     \* host names (equal up to case)
          Clients,   \* calls of a_Dns_resolve; each client asks once
          NoHost,    \* "has not asked yet"
          NoAddr     \* the NULL address list of a failed lookup

VARIABLES asked,     \* asked[c]: the host client c asked for, or NoHost
          answers,   \* answers[c]: the calls made so far to c's callback
          known      \* hosts whose address is known

vars == <<asked, answers, known>>

\* The address list of host h is represented by h itself.
Success(h) == [status |-> 0, addr |-> h]
Failures   == [status : {0, 1}, addr : {NoAddr}]

Pending(c) == asked[c] # NoHost /\ answers[c] = <<>>

Init == /\ asked = [c \in Clients |-> NoHost]
        /\ answers = [c \in Clients |-> <<>>]
        /\ known = {}

(* A client asks: the callback is called before a_Dns_resolve returns when *)
(* the host is known, and later otherwise.                                 *)
Ask(c, h) ==
  /\ asked[c] = NoHost
  /\ asked' = [asked EXCEPT ![c] = h]
  /\ answers' = IF h \in known
                THEN [answers EXCEPT ![c] = <<Success(h)>>]
                ELSE answers
  /\ UNCHANGED known

(* The address of a host somebody is waiting for becomes known. *)
Learn(h) ==
  /\ h \notin known
  /\ \E c \in Clients : Pending(c) /\ asked[c] = h
  /\ known' = known \cup {h}
  /\ UNCHANGED <<asked, answers>>

(* The callback of a waiting client is called. *)
Answer(c) ==
  /\ Pending(c)
  /\ \E a \in IF asked[c] \in known THEN {Success(asked[c])} ELSE Failures :
       answers' = [answers EXCEPT ![c] = <<a>>]
  /\ UNCHANGED <<asked, known>>

Next == \/ \E c \in Clients, h \in Hosts : Ask(c, h)
        \/ \E h \in Hosts : Learn(h)
        \/ \E c \in Clients : Answer(c)

Fairness == \A c \in Clients : WF_vars(Answer(c))

Spec == Init /\ [][Next]_vars /\ Fairness
=============================================================================
