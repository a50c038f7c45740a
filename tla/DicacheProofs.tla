--------------------------- MODULE DicacheProofs ---------------------------
(***************************************************************************)
(* Proofs about the decoded image cache, for any number of clients, rows,  *)
(* scans, pieces of data and versions: the references of a version count   *)
(* its clients, clients stay on the version they joined, what a page shows *)
(* stays in the cache, and a handler leaves no row undrawn.  All without   *)
(* mishaps, each of which refutes the first.                               *)
(*                                                                         *)
(* The lists have no duplicates, so the invariant speaks of the set E of   *)
(* the entries and the set Q of the clients.  A lemma about sets for each  *)
(* change of theirs comes first, then one for each operator on states.     *)
(***************************************************************************)
EXTENDS Dicache, ListProofs

Imgs == [version : 1 .. MaxVersion, last : BOOLEAN, valid : BOOLEAN,
         RefCount : Nat, State : {"Empty", "SetParms", "Write", "Close"},
         imgbuf : BOOLEAN, ScanNumber : 0 .. MaxScan, BitVec : SUBSET Rows,
         content : Content, DecodedSize : 0 .. MaxData,
         SurvCleanup : 0 .. SurvPasses, Image : Clients \cup {Freed, NoImage}]

Queued == [key : Clients, Callback : BOOLEAN, Version : 0 .. MaxVersion,
           CbData : 0 .. MaxVersion, sized : BOOLEAN, ScanNumber : 0 .. MaxScan,
           BitVec : SUBSET Rows]

Pages == [at : {"none", "queued", "done", "stopped"}, shows : 0 .. MaxVersion,
          drawn : Content]

DState == [imgs : Seq(Imgs), queue : Seq(Queued),
           entry : {"none", "loading", "complete"}, size : 0 .. MaxData,
           delayed : BOOLEAN, page : [Clients -> Pages], reused : BOOLEAN]

(* What the decoder wrote: nothing before the rows, and the rows of BitVec *)
(* in the current scan.                                                    *)
WellDecoded(e) ==
  /\ e.imgbuf => e.State # "Empty"
  /\ e.State \in {"SetParms", "Write"} => e.imgbuf
  /\ ~e.imgbuf \/ e.State = "SetParms" => e.BitVec = {} /\ e.content = Blank
  /\ \A r \in e.BitVec : e.content[r] = e.ScanNumber + 1

(* Only the last version can be valid; one that is not has no clients, and *)
(* one that has none has a buffer.                                         *)
EntryOK(e) ==
  /\ e.valid => e.last
  /\ e.last /\ ~e.valid => e.version < MaxVersion
  /\ ~e.valid => e.RefCount = 0
  /\ e.RefCount > 0 \/ e.imgbuf
  /\ WellDecoded(e)

SoundEntries(E) ==
  /\ E \subseteq Imgs
  /\ \A e \in E : EntryOK(e)
  /\ \A e, f \in E : e.version = f.version => e = f
  /\ \A e, f \in E : e.last /\ f.last => e = f

(* A client alone: it has dimensions when its page shows a version.        *)
ClientOK(q, p) ==
  /\ p.at = "queued"
  /\ q.sized <=> p.shows # 0
  /\ q.sized => q.Callback
  /\ ~q.sized => q.BitVec = {} /\ q.ScanNumber = 0
  /\ ~q.Callback => q.Version = 0

SoundClients(Q, pg) ==
  /\ Q \subseteq Queued /\ IsFiniteSet(Q)
  /\ \A p, q \in Q : p.key = q.key => p = q
  /\ \A q \in Q : ClientOK(q, pg[q.key])
  /\ \A c \in Clients : pg[c].at = "queued" => \E q \in Q : q.key = c

(* A page that shows a version keeps it; what is done shows all of it, and *)
(* nothing more will be decoded.                                           *)
PageOK(E, p) ==
  /\ p.at = "none" => p.shows = 0
  /\ p.shows # 0 => \E e \in E : e.version = p.shows /\ e.imgbuf
  /\ p.at = "done" /\ p.shows # 0 =>
       \A e \in E : e.version = p.shows =>
         p.drawn = e.content /\ (e.valid => e.State = "Close")

SoundPages(E, pg) ==
  /\ pg \in [Clients -> Pages]
  /\ \A c \in Clients : PageOK(E, pg[c])

Called(Q) == {q \in Q : q.Callback}

(* There is data that the decoder of e has not seen.                       *)
Behind(e, n) == e.State # "Close" /\ e.DecodedSize < n

(* What a widget has not drawn is stale to its client.                     *)
Lagging(e, q, p) ==
  /\ \A r \in Rows : r \notin Stale(e, q) => p.drawn[r] = e.content[r]
  /\ e.State = "SetParms" => q.BitVec = {} /\ q.ScanNumber = 0

Synced(e, q, p) ==
  /\ p.drawn = e.content
  /\ e.State = "Write" => q.BitVec = e.BitVec /\ q.ScanNumber = e.ScanNumber
  /\ e.State = "SetParms" => q.BitVec = {} /\ q.ScanNumber = 0

(* A dispatched client of the current version e, with n pieces of data of  *)
(* an entry that is complete or not.  The clients in X were not yet given  *)
(* the version; those in Todo have still a turn in the loop.               *)
Joined(e, q, p, n, complete, X, Todo) ==
  /\ q.Version = e.version \/ (q.Version = 0 /\ q.key \in X /\ ~q.sized)
  /\ e.State # "Close" => q.CbData = e.version
  /\ q.sized => e.imgbuf /\ p.shows = e.version /\ Lagging(e, q, p)
  /\ q.sized /\ (q.key \notin Todo \/ Behind(e, n) \/ complete) => Synced(e, q, p)
  /\ q.key \notin X /\ (q.key \notin Todo \/ complete) => ~Behind(e, n)

(* The invariant, of the sets.                                             *)
Good(E, Q, pg, n, complete, X, Todo) ==
  /\ SoundEntries(E)
  /\ SoundClients(Q, pg)
  /\ SoundPages(E, pg)
  /\ Called(Q) # {} => \E e \in E : e.valid
  /\ \A e \in E : e.valid => e.RefCount = Cardinality(Called(Q))
  /\ \A e \in E, q \in Q : e.valid /\ q.Callback =>
       Joined(e, q, pg[q.key], n, complete, X, Todo)

\* One page changes.
WithPage(pg, c, p) == [pg EXCEPT ![c] = p]

Listed(S) ==
  /\ S \in DState /\ S.reused = FALSE
  /\ IsInjective(S.imgs) /\ IsInjective(S.queue)

Complete(S) == S.entry = "complete"

Sound(S, X, Todo) ==
  /\ Listed(S)
  /\ Good(ToSet(S.imgs), ToSet(S.queue), S.page, S.size, Complete(S), X, Todo)

(* The queue is only run again for an entry.                               *)
IInv == /\ Sound(State, {}, {})
        /\ delayed => entry # "none"
-----------------------------------------------------------------------------
(***************************************************************************)
(* Changes of the sets.                                                    *)
(***************************************************************************)
LEMMA CalledFinite ==
  ASSUME NEW Q, NEW pg, SoundClients(Q, pg)
  PROVE  IsFiniteSet(Called(Q)) /\ Cardinality(Called(Q)) \in Nat
<1>1. Called(Q) \in SUBSET Q /\ IsFiniteSet(Q)
  BY DEF Called, SoundClients
<1> HIDE DEF SoundClients
<1>2. IsFiniteSet(Called(Q))
  BY <1>1, FS_Subset
<1> QED BY <1>2, FS_CardinalityType

\* The fields of one entry, client or page.
LEMMA ImgFields ==
  ASSUME NEW e \in Imgs
  PROVE  /\ e.version \in 1 .. MaxVersion /\ e.last \in BOOLEAN
         /\ e.valid \in BOOLEAN /\ e.RefCount \in Nat
         /\ e.State \in {"Empty", "SetParms", "Write", "Close"}
         /\ e.imgbuf \in BOOLEAN /\ e.ScanNumber \in 0 .. MaxScan
         /\ e.BitVec \in SUBSET Rows /\ e.content \in Content
         /\ e.DecodedSize \in 0 .. MaxData /\ e.SurvCleanup \in 0 .. SurvPasses
BY DEF Imgs

LEMMA QueuedFields ==
  ASSUME NEW q \in Queued
  PROVE  /\ q.key \in Clients /\ q.Callback \in BOOLEAN
         /\ q.Version \in 0 .. MaxVersion /\ q.CbData \in 0 .. MaxVersion
         /\ q.sized \in BOOLEAN /\ q.ScanNumber \in 0 .. MaxScan
         /\ q.BitVec \in SUBSET Rows
BY DEF Queued

(* An entry in the place of another.                                       *)
LEMMA OtherEntry ==
  ASSUME NEW E, SoundEntries(E), NEW e \in E, NEW f \in Imgs, EntryOK(f),
         f.version = e.version, f.last => e.last
  PROVE  SoundEntries((E \ {e}) \cup {f})
<1> DEFINE F == (E \ {e}) \cup {f}
<1>1. F \subseteq Imgs /\ \A g \in F : EntryOK(g)
  BY DEF SoundEntries
<1>2. \A g, h \in F : g.version = h.version => g = h
  BY DEF SoundEntries
<1>3. \A g, h \in F : g.last /\ h.last => g = h
  BY DEF SoundEntries
<1> HIDE DEF F
<1> QED BY <1>1, <1>2, <1>3 DEF F, SoundEntries

LEMMA FewerEntries ==
  ASSUME NEW E, SoundEntries(E), NEW F, F \subseteq E
  PROVE  SoundEntries(F)
BY DEF SoundEntries

(* Entries that differ in what the invariant does not look at.             *)
Alike(e, f) ==
  /\ f \in Imgs
  /\ f.version = e.version /\ f.last = e.last /\ f.valid = e.valid
  /\ f.RefCount = e.RefCount /\ f.State = e.State /\ f.imgbuf = e.imgbuf
  /\ f.ScanNumber = e.ScanNumber /\ f.BitVec = e.BitVec
  /\ f.content = e.content /\ f.DecodedSize = e.DecodedSize

LEMMA AlikeEntries ==
  ASSUME NEW E, NEW Q, NEW pg, NEW n, NEW complete, NEW X, NEW Todo,
         Good(E, Q, pg, n, complete, X, Todo), NEW F,
         \A f \in F : \E e \in E : Alike(e, f),
         \A f, g \in F : f.version = g.version => f = g,
         \A e \in E : e.imgbuf /\ (\E c \in Clients : pg[c].shows = e.version)
                        => \E f \in F : Alike(e, f),
         \A e \in E : e.valid /\ Called(Q) # {} => \E f \in F : Alike(e, f)
  PROVE  Good(F, Q, pg, n, complete, X, Todo)
<1>1. SoundEntries(F)
  <2>1. \A f \in F : f \in Imgs /\ EntryOK(f)
    BY DEF Good, SoundEntries, EntryOK, WellDecoded, Alike
  <2>2. \A f, g \in F : f.last /\ g.last => f = g
    BY DEF Good, SoundEntries, Alike
  <2> QED BY <2>1, <2>2 DEF SoundEntries
<1>2. SoundPages(F, pg)
  <2> SUFFICES ASSUME NEW c \in Clients PROVE PageOK(F, pg[c])
    BY DEF Good, SoundPages
  <2>1. PageOK(E, pg[c])
    BY DEF Good, SoundPages
  <2>2. pg[c].shows # 0 => \E f \in F : f.version = pg[c].shows /\ f.imgbuf
    BY <2>1 DEF PageOK, Alike
  <2>3. ASSUME pg[c].at = "done", pg[c].shows # 0,
               NEW f \in F, f.version = pg[c].shows
        PROVE  pg[c].drawn = f.content /\ (f.valid => f.State = "Close")
    BY <2>1, <2>3 DEF PageOK, Alike
  <2> QED BY <2>1, <2>2, <2>3 DEF PageOK
<1>3. Called(Q) # {} => \E f \in F : f.valid
  BY DEF Good, Alike
<1>4. \A f \in F : f.valid => f.RefCount = Cardinality(Called(Q))
  BY DEF Good, Alike
<1>5. ASSUME NEW f \in F, NEW q \in Q, f.valid, q.Callback
      PROVE  Joined(f, q, pg[q.key], n, complete, X, Todo)
  <2>1. PICK e \in E : Alike(e, f)
    OBVIOUS
  <2>2. Joined(e, q, pg[q.key], n, complete, X, Todo)
    BY <1>5, <2>1 DEF Good, Alike
  <2>3. Stale(f, q) = Stale(e, q)
    BY <2>1 DEF Stale, Alike
  <2> QED BY <2>1, <2>2, <2>3 DEF Joined, Alike, Lagging, Synced, Behind
<1> QED BY <1>1, <1>2, <1>3, <1>4, <1>5 DEF Good

\* A client changes, with its page, and one leaves.
LEMMA OtherClient ==
  ASSUME NEW Q, NEW pg \in [Clients -> Pages], SoundClients(Q, pg), NEW q \in Q,
         NEW r \in Queued, r.key = q.key, NEW p \in Pages, ClientOK(r, p)
  PROVE  SoundClients((Q \ {q}) \cup {r}, [pg EXCEPT ![q.key] = p])
<1> DEFINE R == (Q \ {q}) \cup {r}
           pg2 == [pg EXCEPT ![q.key] = p]
<1>1. IsFiniteSet(R)
  <2>1. IsFiniteSet(Q)
    BY DEF SoundClients
  <2>2. IsFiniteSet(Q \ {q})
    BY <2>1, FS_RemoveElement
  <2> QED BY <2>2, FS_AddElement
<1>2. q.key \in Clients /\ R \subseteq Queued
  BY QueuedFields DEF SoundClients
<1>3. \A s, t \in R : s.key = t.key => s = t
  BY DEF SoundClients
<1>4. pg2[q.key] = p /\ \A c \in Clients : c # q.key => pg2[c] = pg[c]
  BY <1>2
<1> HIDE DEF pg2
<1>5. \A s \in R : ClientOK(s, pg2[s.key])
  <2> SUFFICES ASSUME NEW s \in R PROVE ClientOK(s, pg2[s.key])
    OBVIOUS
  <2>1. CASE s = r
    BY <2>1, <1>4
  <2>2. CASE s # r
    <3>1. s \in Q /\ s.key # q.key /\ s.key \in Clients
      BY <2>2, QueuedFields DEF SoundClients
    <3> QED BY <3>1, <1>4 DEF SoundClients
  <2> QED BY <2>1, <2>2
<1>6. ASSUME NEW c \in Clients, pg2[c].at = "queued" PROVE \E s \in R : s.key = c
  <2>1. CASE c = q.key
    BY <2>1
  <2>2. CASE c # q.key
    <3>1. pg2[c] = pg[c]
      BY <2>2, <1>4
    <3> QED BY <3>1, <1>6, <2>2 DEF SoundClients
  <2> QED BY <2>1, <2>2
<1> HIDE DEF R
<1> QED BY <1>1, <1>2, <1>3, <1>5, <1>6 DEF SoundClients, R, pg2

LEMMA NoClient ==
  ASSUME NEW Q, NEW pg \in [Clients -> Pages], SoundClients(Q, pg), NEW q \in Q,
         NEW p \in Pages, p.at # "queued"
  PROVE  SoundClients(Q \ {q}, [pg EXCEPT ![q.key] = p])
<1> DEFINE R == Q \ {q}
           pg2 == [pg EXCEPT ![q.key] = p]
<1>1. IsFiniteSet(R)
  <2>1. IsFiniteSet(Q)
    BY DEF SoundClients
  <2> QED BY <2>1, FS_RemoveElement
<1>2. q.key \in Clients /\ R \subseteq Queued
  BY QueuedFields DEF SoundClients
<1>3. \A s, t \in R : s.key = t.key => s = t
  BY DEF SoundClients
<1>4. pg2[q.key] = p /\ \A c \in Clients : c # q.key => pg2[c] = pg[c]
  BY <1>2
<1> HIDE DEF pg2
<1>5. \A s \in R : ClientOK(s, pg2[s.key])
  <2> SUFFICES ASSUME NEW s \in R PROVE ClientOK(s, pg2[s.key])
    OBVIOUS
  <2>1. s \in Q /\ s.key # q.key /\ s.key \in Clients
    BY QueuedFields DEF SoundClients
  <2> QED BY <2>1, <1>4 DEF SoundClients
<1>6. ASSUME NEW c \in Clients, pg2[c].at = "queued" PROVE \E s \in R : s.key = c
  <2>1. c # q.key /\ pg2[c] = pg[c]
    BY <1>4, <1>6
  <2> QED BY <2>1, <1>6 DEF SoundClients
<1> HIDE DEF R
<1> QED BY <1>1, <1>2, <1>3, <1>5, <1>6 DEF SoundClients, R, pg2

(* The clients that were dispatched, before and after.                     *)
LEMMA CalledLess ==
  ASSUME NEW Q, NEW pg, SoundClients(Q, pg), NEW q \in Q, q.Callback
  PROVE  /\ Called(Q \ {q}) \subseteq Called(Q) /\ q \in Called(Q)
         /\ Cardinality(Called(Q)) \in Nat \ {0}
         /\ Cardinality(Called(Q \ {q})) = Cardinality(Called(Q)) - 1
         /\ Cardinality(Called(Q)) = 1 => Called(Q \ {q}) = {}
<1>1. IsFiniteSet(Called(Q)) /\ Cardinality(Called(Q)) \in Nat
  BY CalledFinite
<1>2. q \in Called(Q)
  BY DEF Called
<1>3. Called(Q \ {q}) = Called(Q) \ {q}
  BY DEF Called
<1> DEFINE C == Called(Q) \ {q}
<1>4. IsFiniteSet(C)
  BY <1>1, FS_RemoveElement
<1>5. Cardinality(C) = Cardinality(Called(Q)) - 1
  BY <1>1, <1>2, FS_RemoveElement
<1>6. Cardinality(C) \in Nat
  BY <1>4, FS_CardinalityType
<1>7. Cardinality(C) = 0 => C = {}
  BY <1>4, FS_EmptySet
<1>8. C \subseteq Called(Q)
  OBVIOUS
<1>9. Called(Q \ {q}) = C
  BY <1>3
<1> HIDE DEF C
<1>10. Cardinality(Called(Q)) \in Nat \ {0}
  BY <1>1, <1>5, <1>6
<1>11. Cardinality(Called(Q)) = 1 => Cardinality(C) = 0
  BY <1>5
<1> QED BY <1>2, <1>5, <1>7, <1>8, <1>9, <1>10, <1>11

LEMMA CalledMore ==
  ASSUME NEW Q, NEW pg, SoundClients(Q, pg), NEW q \in Q,
         NEW r \in Queued, r.key = q.key, r.Callback,
         NEW R, R = (Q \ {q}) \cup {r}
  PROVE  Cardinality(Called(R)) =
           IF q.Callback THEN Cardinality(Called(Q)) ELSE Cardinality(Called(Q)) + 1
<1> DEFINE C == Called(Q) \ {q}
<1>1. IsFiniteSet(Called(Q)) /\ Cardinality(Called(Q)) \in Nat
  BY CalledFinite
<1>2. IsFiniteSet(C)
  BY <1>1, FS_RemoveElement
<1>3. r \notin C
  BY DEF Called, SoundClients
<1>4. Called(R) = C \cup {r}
  BY DEF Called
<1>5. Cardinality(C \cup {r}) = Cardinality(C) + 1
  BY <1>2, <1>3, FS_AddElement
<1>6. CASE q.Callback
  <2>1. q \in Called(Q)
    BY <1>6 DEF Called
  <2>2. Cardinality(C) = Cardinality(Called(Q)) - 1
    BY <1>1, <2>1, FS_RemoveElement
  <2> HIDE DEF C
  <2>3. (Cardinality(Called(Q)) - 1) + 1 = Cardinality(Called(Q))
    BY <1>1
  <2> QED BY <1>4, <1>5, <1>6, <2>2, <2>3
<1>7. CASE ~q.Callback
  <2>1. C = Called(Q)
    BY <1>7 DEF Called
  <2> HIDE DEF C
  <2> QED BY <1>4, <1>5, <1>7, <2>1
<1> QED BY <1>6, <1>7

\* There is at most one valid entry; what is said of the dispatched clients.
LEMMA OneValid ==
  ASSUME NEW E, SoundEntries(E)
  PROVE  \A e, f \in E : e.valid /\ f.valid => e = f
BY DEF SoundEntries, EntryOK

(* A client that was not dispatched leaves.                                *)
LEMMA LeaveWaiting ==
  ASSUME NEW E, NEW Q, NEW pg, NEW n, NEW complete, NEW X, NEW Todo,
         Good(E, Q, pg, n, complete, X, Todo), NEW q \in Q, ~q.Callback,
         NEW p \in Pages, p.shows = pg[q.key].shows, p.at = "stopped"
  PROVE  Good(E, Q \ {q}, WithPage(pg, q.key, p), n, complete,
              X \ {q.key}, Todo \ {q.key})
<1> DEFINE pg2 == [pg EXCEPT ![q.key] = p]
           Q2 == Q \ {q}
<1>1. /\ SoundEntries(E) /\ SoundClients(Q, pg) /\ pg \in [Clients -> Pages]
      /\ \A c \in Clients : PageOK(E, pg[c])
  BY DEF Good, SoundPages
<1>2. q.key \in Clients /\ \A r \in Q2 : r.key \in Clients /\ r.key # q.key /\ r \in Q
  BY <1>1, QueuedFields DEF SoundClients
<1>3. SoundClients(Q2, pg2)
  BY <1>1, NoClient
<1>4. /\ pg2[q.key] = p /\ pg2 \in [Clients -> Pages]
      /\ \A c \in Clients : c # q.key => pg2[c] = pg[c]
  BY <1>1, <1>2
<1>5. Called(Q2) = Called(Q)
  BY DEF Called
<1> HIDE DEF pg2, Q2
<1>6. SoundPages(E, pg2)
  <2> SUFFICES ASSUME NEW c \in Clients PROVE PageOK(E, pg2[c])
    BY <1>4 DEF SoundPages
  <2>1. PageOK(E, pg[c])
    BY <1>1
  <2>2. CASE c # q.key
    BY <2>1, <2>2, <1>4
  <2>3. CASE c = q.key
    BY <2>1, <2>3, <1>4 DEF PageOK
  <2> QED BY <2>2, <2>3
<1>7. ASSUME NEW e \in E, NEW r \in Q2, e.valid, r.Callback
      PROVE  Joined(e, r, pg2[r.key], n, complete, X \ {q.key}, Todo \ {q.key})
  <2>1. Joined(e, r, pg[r.key], n, complete, X, Todo)
    BY <1>2, <1>7 DEF Good
  <2>2. pg2[r.key] = pg[r.key] /\ r.key # q.key
    BY <1>2, <1>4
  <2> QED BY <2>1, <2>2 DEF Joined
<1>8. /\ Called(Q2) # {} => \E e \in E : e.valid
      /\ \A e \in E : e.valid => e.RefCount = Cardinality(Called(Q2))
  BY <1>5 DEF Good
<1> QED BY <1>1, <1>3, <1>6, <1>7, <1>8 DEF Good, WithPage, pg2, Q2

(* A client that was dispatched gives its reference back; the first one to *)
(* close ends the decoder.  An entry without a buffer goes with its last   *)
(* client.                                                                 *)
Released(e, closing) ==
  [e EXCEPT !.State = IF closing THEN "Close" ELSE @, !.RefCount = @ - 1]

Without(E, e, f) ==
  IF f.RefCount = 0 /\ ~f.imgbuf THEN E \ {e} ELSE (E \ {e}) \cup {f}

IsReleased(e, f, closing) ==
  /\ f \in Imgs /\ f.version = e.version /\ f.last = e.last
  /\ f.valid = e.valid /\ f.RefCount = e.RefCount - 1 /\ f.imgbuf = e.imgbuf
  /\ f.ScanNumber = e.ScanNumber /\ f.BitVec = e.BitVec
  /\ f.content = e.content /\ f.DecodedSize = e.DecodedSize
  /\ f.State = IF closing THEN "Close" ELSE e.State

LEMMA ReleasedEntry ==
  ASSUME NEW E, SoundEntries(E), NEW e \in E, e.valid, e.RefCount # 0,
         NEW closing \in BOOLEAN, NEW f, f = Released(e, closing)
  PROVE  /\ IsReleased(e, f, closing)
         /\ SoundEntries(Without(E, e, f))
<1>1. e \in Imgs /\ EntryOK(e)
  BY DEF SoundEntries
<1>2. e.RefCount - 1 \in Nat
  BY <1>1, ImgFields
<1>3. f \in Imgs
  BY <1>1, <1>2 DEF Imgs, Released
<1>4. /\ f.version = e.version /\ f.last = e.last
      /\ f.valid = e.valid /\ f.RefCount = e.RefCount - 1 /\ f.imgbuf = e.imgbuf
      /\ f.ScanNumber = e.ScanNumber /\ f.BitVec = e.BitVec
      /\ f.content = e.content /\ f.DecodedSize = e.DecodedSize
      /\ f.State = IF closing THEN "Close" ELSE e.State
  BY <1>1 DEF Imgs, Released
<1>5. f.RefCount > 0 \/ f.imgbuf => EntryOK(f)
  BY <1>1, <1>4 DEF EntryOK, WellDecoded
<1>6. SoundEntries(Without(E, e, f))
  <2>1. CASE f.RefCount = 0 /\ ~f.imgbuf
    BY <2>1, FewerEntries DEF Without
  <2>2. CASE ~(f.RefCount = 0 /\ ~f.imgbuf)
    <3>1. EntryOK(f)
      <4>1. f.RefCount \in Nat
        BY <1>2, <1>4
      <4>2. f.RefCount # 0 => f.RefCount > 0
        BY <4>1
      <4> QED BY <1>5, <2>2, <4>2
    <3>2. SoundEntries((E \ {e}) \cup {f})
      BY <1>3, <1>4, <3>1, OtherEntry
    <3> QED BY <2>2, <3>2 DEF Without
  <2> QED BY <2>1, <2>2
<1>7. IsReleased(e, f, closing)
  BY <1>3, <1>4 DEF IsReleased
<1> QED BY <1>6, <1>7

Leaves(p, p0, closing) ==
  /\ p.shows = p0.shows
  /\ p.at = "stopped" \/ (p.at = "done" /\ closing /\ p.drawn = p0.drawn)

CanLeave(E, Q, pg, n, complete, X, Todo, q, e, closing, f, p) ==
  /\ Good(E, Q, pg, n, complete, X, Todo) /\ complete \in BOOLEAN
  /\ q \in Q /\ q.Callback /\ e \in E /\ e.valid
  /\ closing \in BOOLEAN /\ (closing => complete)
  /\ f = Released(e, closing) /\ p \in Pages /\ Leaves(p, pg[q.key], closing)

LEMMA LeaveCalled ==
  ASSUME NEW E, NEW Q, NEW pg, NEW n, NEW complete, NEW X, NEW Todo, NEW q, NEW e,
         NEW closing, NEW f, NEW p,
         CanLeave(E, Q, pg, n, complete, X, Todo, q, e, closing, f, p)
  PROVE  Good(Without(E, e, f), Q \ {q}, WithPage(pg, q.key, p), n, complete,
              X \ {q.key}, Todo \ {q.key})
<1> DEFINE pg2 == [pg EXCEPT ![q.key] = p]
           Q2 == Q \ {q}
           E2 == Without(E, e, f)
<1> SUFFICES ASSUME Good(E, Q, pg, n, complete, X, Todo), complete \in BOOLEAN,
                    q \in Q, q.Callback, e \in E, e.valid,
                    closing \in BOOLEAN, closing => complete,
                    f = Released(e, closing), p \in Pages,
                    Leaves(p, pg[q.key], closing)
             PROVE  Good(E2, Q2, pg2, n, complete, X \ {q.key}, Todo \ {q.key})
  BY DEF CanLeave, WithPage
<1>1. /\ SoundEntries(E) /\ SoundClients(Q, pg) /\ pg \in [Clients -> Pages]
      /\ \A c \in Clients : PageOK(E, pg[c])
      /\ e.RefCount = Cardinality(Called(Q))
      /\ \A r \in Q : r.Callback => Joined(e, r, pg[r.key], n, complete, X, Todo)
      /\ p.shows = pg[q.key].shows
      /\ p.at = "stopped" \/ (p.at = "done" /\ closing /\ p.drawn = pg[q.key].drawn)
  BY DEF Good, SoundPages, Leaves
<1>2. q.key \in Clients /\ \A r \in Q2 : r.key \in Clients /\ r.key # q.key /\ r \in Q
  BY <1>1, QueuedFields DEF SoundClients
<1>3. SoundClients(Q2, pg2)
  BY <1>1, NoClient
<1>4. /\ pg2[q.key] = p /\ pg2 \in [Clients -> Pages]
      /\ \A c \in Clients : c # q.key => pg2[c] = pg[c]
  BY <1>1, <1>2
<1>5. /\ Cardinality(Called(Q)) \in Nat \ {0}
      /\ Cardinality(Called(Q2)) = Cardinality(Called(Q)) - 1
      /\ Cardinality(Called(Q)) = 1 => Called(Q2) = {}
  BY <1>1, CalledLess
<1> HIDE DEF pg2, Q2
<1>6. /\ f \in Imgs /\ f.version = e.version /\ f.last = e.last
      /\ f.valid = e.valid /\ f.RefCount = e.RefCount - 1 /\ f.imgbuf = e.imgbuf
      /\ f.ScanNumber = e.ScanNumber /\ f.BitVec = e.BitVec
      /\ f.content = e.content /\ f.DecodedSize = e.DecodedSize
      /\ f.State = IF closing THEN "Close" ELSE e.State
      /\ SoundEntries(E2)
  <2>1. e.RefCount # 0
    BY <1>1, <1>5
  <2>2. IsReleased(e, f, closing) /\ SoundEntries(E2)
    BY <1>1, <2>1, ReleasedEntry
  <2> QED BY <2>2 DEF IsReleased
<1>7. /\ \A g \in E2 : g = f \/ g \in E \ {e}
      /\ \A g \in E \ {e} : g \in E2
      /\ f.RefCount # 0 \/ f.imgbuf => f \in E2
  BY DEF Without
<1>8. \A g \in E2 : g.valid \/ g.version = e.version => g = f
  BY <1>1, <1>7, OneValid DEF SoundEntries
<1> HIDE DEF E2
<1>9. SoundPages(E2, pg2)
  <2> SUFFICES ASSUME NEW c \in Clients PROVE PageOK(E2, pg2[c])
    BY <1>4 DEF SoundPages
  <2>1. PageOK(E, pg[c])
    BY <1>1
  <2>2. pg2[c].shows = pg[c].shows
    BY <1>1, <1>4
  <2>3. ASSUME pg2[c].shows # 0
        PROVE  \E g \in E2 : g.version = pg2[c].shows /\ g.imgbuf
    <3>1. PICK g \in E : g.version = pg2[c].shows /\ g.imgbuf
      BY <2>1, <2>2, <2>3 DEF PageOK
    <3>2. CASE g = e
      BY <3>1, <3>2, <1>6, <1>7
    <3> QED BY <3>1, <3>2, <1>7
  <2>4. ASSUME pg2[c].at = "done", pg2[c].shows # 0, NEW g \in E2,
               g.version = pg2[c].shows
        PROVE  pg2[c].drawn = g.content /\ (g.valid => g.State = "Close")
    <3>1. CASE c # q.key
      <4>1. /\ pg2[c] = pg[c]
            /\ \A h \in E : h.version = pg[c].shows =>
                 pg[c].drawn = h.content /\ (h.valid => h.State = "Close")
        BY <1>4, <2>1, <2>4, <3>1 DEF PageOK
      <4>2. CASE g = f
        BY <4>1, <4>2, <1>6, <2>4
      <4>3. CASE g \in E \ {e}
        BY <4>1, <4>3, <2>4
      <4> QED BY <4>2, <4>3, <1>7
    <3>2. CASE c = q.key
      <4>1. p.at = "done" /\ closing /\ complete /\ p.drawn = pg[q.key].drawn
        BY <2>4, <3>2, <1>1, <1>4
      <4>2. q.sized
        BY <2>2, <2>4, <3>2, <1>1 DEF SoundClients, ClientOK
      <4>3. pg[c].shows = e.version /\ pg[c].drawn = e.content
        BY <4>1, <4>2, <1>1, <3>2 DEF Joined, Synced
      <4>4. g = f
        BY <4>3, <1>8, <2>2, <2>4
      <4> QED BY <4>1, <4>3, <4>4, <1>4, <1>6, <3>2
    <3> QED BY <3>1, <3>2
  <2>5. pg2[c].at = "none" => pg2[c].shows = 0
    BY <1>1, <1>4, <2>1 DEF PageOK
  <2> QED BY <2>3, <2>4, <2>5 DEF PageOK
<1>10. Called(Q2) # {} => \E g \in E2 : g.valid
  <2>1. Called(Q2) # {} => f.RefCount # 0
    BY <1>1, <1>5, <1>6
  <2> QED BY <2>1, <1>6, <1>7
<1>11. \A g \in E2 : g.valid => g.RefCount = Cardinality(Called(Q2))
  BY <1>1, <1>5, <1>6, <1>8
<1>12. ASSUME NEW g \in E2, NEW r \in Q2, g.valid, r.Callback
       PROVE  Joined(g, r, pg2[r.key], n, complete, X \ {q.key}, Todo \ {q.key})
  <2>1. g = f /\ r \in Q /\ r.key # q.key /\ pg2[r.key] = pg[r.key]
    BY <1>2, <1>4, <1>8, <1>12
  <2>2. Joined(e, r, pg[r.key], n, complete, X, Todo)
    BY <1>1, <1>12, <2>1
  <2>3. Behind(f, n) => Behind(e, n)
    BY <1>6 DEF Behind
  <2>4. Synced(e, r, pg[r.key]) => Synced(f, r, pg[r.key])
    BY <1>6 DEF Synced
  <2>5. r.sized => Lagging(f, r, pg[r.key])
    <3>1. CASE closing
      <4>1. r.sized => pg[r.key].drawn = f.content
        BY <2>2, <3>1, <1>6 DEF Joined, Synced
      <4> QED BY <4>1, <3>1, <1>6 DEF Lagging
    <3>2. CASE ~closing
      <4>1. Stale(f, r) = Stale(e, r)
        BY <1>6, <3>2 DEF Stale
      <4> QED BY <2>2, <4>1, <1>6, <3>2 DEF Joined, Lagging
    <3> QED BY <3>1, <3>2
  <2> QED BY <2>1, <2>2, <2>3, <2>4, <2>5, <1>6 DEF Joined
<1> QED BY <1>3, <1>6, <1>9, <1>10, <1>11, <1>12 DEF Good, pg2, Q2, E2

(* A client joins the current version.                                     *)
Joining(q, v) == [q EXCEPT !.Callback = TRUE, !.CbData = v]

Joins(Q, pg, q, v, r, R) ==
  /\ pg \in [Clients -> Pages] /\ SoundClients(Q, pg) /\ q \in Q /\ ~q.Callback
  /\ v \in 0 .. MaxVersion /\ r = Joining(q, v) /\ R = (Q \ {q}) \cup {r}

LEMMA JoiningClient ==
  ASSUME NEW Q, NEW pg, NEW q, NEW v, NEW r, NEW R, Joins(Q, pg, q, v, r, R)
  PROVE  /\ r \in Queued /\ r.key = q.key /\ r.Callback /\ r.CbData = v
         /\ ~r.sized /\ r.Version = 0
         /\ SoundClients(R, pg)
         /\ Cardinality(Called(R)) = Cardinality(Called(Q)) + 1
         /\ \A s \in R : s = r \/ (s \in Q /\ s.key # q.key)
<1> USE DEF Joins
<1>1. q \in Queued /\ q.key \in Clients /\ ClientOK(q, pg[q.key])
  BY QueuedFields DEF SoundClients
<1>2. /\ r \in Queued /\ r.key = q.key /\ r.Callback = TRUE /\ r.CbData = v
      /\ r.sized = q.sized /\ r.Version = q.Version /\ r.BitVec = q.BitVec
      /\ r.ScanNumber = q.ScanNumber
  BY <1>1 DEF Queued, Joining
<1>3. ~r.sized /\ r.Version = 0
  BY <1>1, <1>2 DEF ClientOK
<1>4. ClientOK(r, pg[q.key])
  BY <1>1, <1>2 DEF ClientOK
<1>5. [pg EXCEPT ![q.key] = pg[q.key]] = pg /\ pg[q.key] \in Pages
  BY <1>1
<1>6. SoundClients(R, pg)
  BY <1>1, <1>2, <1>4, <1>5, OtherClient
<1>7. Cardinality(Called(R)) = Cardinality(Called(Q)) + 1
  BY <1>2, CalledMore
<1>8. \A s \in R : s = r \/ (s \in Q /\ s.key # q.key)
  BY DEF SoundClients
<1> QED BY <1>2, <1>3, <1>6, <1>7, <1>8

Referred(e) == [e EXCEPT !.RefCount = @ + 1, !.SurvCleanup = SurvPasses]

\* The decoder, 0 when it has ended.
CbDataOf(e) == IF e.State = "Close" THEN 0 ELSE e.version

CanJoin(E, Q, pg, n, complete, X, Todo, q, e, f, v, r) ==
  /\ Good(E, Q, pg, n, complete, X, Todo) /\ q \in Q /\ ~q.Callback
  /\ e \in E /\ e.valid /\ f = Referred(e)
  /\ v = CbDataOf(e) /\ r = Joining(q, v)

LEMMA JoinCurrent ==
  ASSUME NEW E, NEW Q, NEW pg, NEW n, NEW complete, NEW X, NEW Todo,
         NEW q, NEW e, NEW f, NEW v, NEW r,
         CanJoin(E, Q, pg, n, complete, X, Todo, q, e, f, v, r)
  PROVE  Good((E \ {e}) \cup {f}, (Q \ {q}) \cup {r}, pg, n, complete,
              X \cup {q.key}, Todo)
<1> DEFINE E2 == (E \ {e}) \cup {f}
           Q2 == (Q \ {q}) \cup {r}
<1> SUFFICES ASSUME Good(E, Q, pg, n, complete, X, Todo), q \in Q, ~q.Callback,
                    e \in E, e.valid, f = Referred(e),
                    v = CbDataOf(e),
                    r = Joining(q, v)
             PROVE  Good(E2, Q2, pg, n, complete, X \cup {q.key}, Todo)
  BY DEF CanJoin
<1>1. /\ SoundEntries(E) /\ SoundClients(Q, pg) /\ pg \in [Clients -> Pages]
      /\ \A c \in Clients : PageOK(E, pg[c])
      /\ e.RefCount = Cardinality(Called(Q))
      /\ \A s \in Q : s.Callback => Joined(e, s, pg[s.key], n, complete, X, Todo)
      /\ e \in Imgs /\ EntryOK(e)
  BY DEF Good, SoundPages, SoundEntries
<1>2. v \in 0 .. MaxVersion /\ (e.State # "Close" => v = e.version)
  BY <1>1, ImgFields, BoundAssumption DEF CbDataOf
<1>4. /\ r \in Queued /\ r.key = q.key /\ r.Callback /\ r.CbData = v
      /\ ~r.sized /\ r.Version = 0
      /\ SoundClients(Q2, pg)
      /\ Cardinality(Called(Q2)) = Cardinality(Called(Q)) + 1
      /\ \A s \in Q2 : s = r \/ (s \in Q /\ s.key # q.key)
  <2>1. Joins(Q, pg, q, v, r, Q2)
    BY <1>1, <1>2 DEF Joins
  <2> HIDE DEF Q2
  <2> QED BY <2>1, JoiningClient
<1>5. f \in Imgs
  <2>1. e.RefCount + 1 \in Nat /\ SurvPasses \in 0 .. SurvPasses
    BY <1>1, ImgFields, BoundAssumption
  <2> QED BY <1>1, <2>1 DEF Imgs, Referred
<1>6. /\ f.version = e.version /\ f.last = e.last
      /\ f.valid = e.valid /\ f.RefCount = e.RefCount + 1 /\ f.imgbuf = e.imgbuf
      /\ f.ScanNumber = e.ScanNumber /\ f.BitVec = e.BitVec
      /\ f.content = e.content /\ f.DecodedSize = e.DecodedSize
      /\ f.State = e.State
  BY <1>1 DEF Imgs, Referred
<1>7. f.RefCount > 0
  BY <1>1, <1>6, ImgFields
<1>8. EntryOK(f)
  BY <1>1, <1>6, <1>7 DEF EntryOK, WellDecoded
<1>9. SoundEntries(E2)
  BY <1>1, <1>5, <1>6, <1>8, OtherEntry
<1>10. /\ \A g \in E2 : g = f \/ g \in E
       /\ \A g \in E2 : g.valid \/ g.version = e.version => g = f
       /\ \A g \in E : g # e => g \in E2
       /\ f \in E2
  BY <1>1, OneValid DEF SoundEntries
<1> HIDE DEF E2, Q2
<1>11. SoundPages(E2, pg)
  <2> SUFFICES ASSUME NEW c \in Clients PROVE PageOK(E2, pg[c])
    BY <1>1 DEF SoundPages
  <2>1. PageOK(E, pg[c])
    BY <1>1
  <2>2. pg[c].shows # 0 => \E g \in E2 : g.version = pg[c].shows /\ g.imgbuf
    BY <2>1, <1>6, <1>10 DEF PageOK
  <2>3. ASSUME pg[c].at = "done", pg[c].shows # 0, NEW g \in E2,
               g.version = pg[c].shows
        PROVE  pg[c].drawn = g.content /\ (g.valid => g.State = "Close")
    <3>1. \A h \in E : h.version = pg[c].shows =>
            pg[c].drawn = h.content /\ (h.valid => h.State = "Close")
      BY <2>1, <2>3 DEF PageOK
    <3>2. CASE g = f
      BY <2>3, <3>1, <3>2, <1>6
    <3> QED BY <2>3, <3>1, <3>2, <1>10
  <2> QED BY <2>1, <2>2, <2>3 DEF PageOK
<1>12. Called(Q2) # {} => \E g \in E2 : g.valid
  BY <1>6, <1>10
<1>13. \A g \in E2 : g.valid => g.RefCount = Cardinality(Called(Q2))
  <2>1. f.RefCount = Cardinality(Called(Q2))
    BY <1>1, <1>4, <1>6
  <2> QED BY <2>1, <1>10
<1>14. ASSUME NEW g \in E2, NEW s \in Q2, g.valid, s.Callback
       PROVE  Joined(g, s, pg[s.key], n, complete, X \cup {q.key}, Todo)
  <2>1. g = f /\ Stale(f, s) = Stale(e, s)
    BY <1>6, <1>10, <1>14 DEF Stale
  <2>2. CASE s = r
    BY <2>1, <2>2, <1>2, <1>4, <1>6 DEF Joined
  <2>3. CASE s \in Q /\ s.key # q.key
    <3>1. Joined(e, s, pg[s.key], n, complete, X, Todo)
      BY <2>3, <1>1, <1>14
    <3> QED BY <2>1, <2>3, <3>1, <1>6 DEF Joined, Lagging, Synced, Behind
  <2> QED BY <2>2, <2>3, <1>4
<1> QED BY <1>4, <1>9, <1>11, <1>12, <1>13, <1>14 DEF Good, E2, Q2

(* A client joins a new version.                                           *)
Older(e) == [e EXCEPT !.last = FALSE]

NewVersion(v, c) ==
  [NewEntry EXCEPT !.version = v, !.Image = c, !.SurvCleanup = SurvPasses]

IsNew(f, v) ==
  /\ f \in Imgs /\ EntryOK(f)
  /\ f.version = v /\ f.last = TRUE /\ f.valid = TRUE /\ f.RefCount = 1
  /\ f.State = "Empty"

LEMMA NewVersionFields ==
  ASSUME NEW v \in 1 .. MaxVersion, NEW c \in Clients
  PROVE  IsNew(NewVersion(v, c), v)
<1> SUFFICES ASSUME NEW f, f = NewVersion(v, c) PROVE IsNew(f, v)
  OBVIOUS
<1>1. Blank \in Content
  BY BoundAssumption DEF Blank, Content
<1>2. /\ 1 \in Nat /\ 0 \in 0 .. MaxScan /\ 0 \in 0 .. MaxData
      /\ SurvPasses \in 0 .. SurvPasses
  BY BoundAssumption
<1>3. f = [version |-> v, last |-> TRUE, valid |-> TRUE, RefCount |-> 1,
           State |-> "Empty", imgbuf |-> FALSE, ScanNumber |-> 0,
           BitVec |-> {}, content |-> Blank, DecodedSize |-> 0,
           SurvCleanup |-> SurvPasses, Image |-> c]
  BY DEF NewVersion, NewEntry
<1>4. f \in Imgs
  BY <1>1, <1>2, <1>3 DEF Imgs
<1>5. EntryOK(f)
  BY <1>3 DEF EntryOK, WellDecoded
<1> QED BY <1>3, <1>4, <1>5 DEF IsNew

CanAdd(E, Q, pg, n, complete, X, Todo, q, v, f, r) ==
  /\ Good(E, Q, pg, n, complete, X, Todo) /\ q \in Q /\ ~q.Callback
  /\ \A e \in E : ~e.valid /\ e.version # v
  /\ v \in 1 .. MaxVersion /\ f = NewVersion(v, q.key) /\ r = Joining(q, v)

LEMMA JoinNew ==
  ASSUME NEW E, NEW Q, NEW pg, NEW n, NEW complete, NEW X, NEW Todo,
         NEW q, NEW v, NEW f, NEW r,
         CanAdd(E, Q, pg, n, complete, X, Todo, q, v, f, r)
  PROVE  Good({Older(e) : e \in E} \cup {f}, (Q \ {q}) \cup {r}, pg, n, complete,
              X \cup {q.key}, Todo)
<1> DEFINE E2 == {Older(e) : e \in E} \cup {f}
           Q2 == (Q \ {q}) \cup {r}
<1> SUFFICES ASSUME Good(E, Q, pg, n, complete, X, Todo), q \in Q, ~q.Callback,
                    \A e \in E : ~e.valid, v \in 1 .. MaxVersion,
                    \A e \in E : e.version # v,
                    f = NewVersion(v, q.key), r = Joining(q, v)
             PROVE  Good(E2, Q2, pg, n, complete, X \cup {q.key}, Todo)
  BY DEF CanAdd
<1>1. /\ SoundEntries(E) /\ SoundClients(Q, pg) /\ pg \in [Clients -> Pages]
      /\ \A c \in Clients : PageOK(E, pg[c])
      /\ Called(Q) = {}
  BY DEF Good, SoundPages
<1>2. q.key \in Clients /\ v \in 0 .. MaxVersion
  BY <1>1, QueuedFields DEF SoundClients
<1>3. /\ r \in Queued /\ r.key = q.key /\ r.Callback /\ r.CbData = v
      /\ ~r.sized /\ r.Version = 0
      /\ SoundClients(Q2, pg)
      /\ Cardinality(Called(Q2)) = Cardinality(Called(Q)) + 1
      /\ \A s \in Q2 : s = r \/ (s \in Q /\ s.key # q.key)
  <2>1. Joins(Q, pg, q, v, r, Q2)
    BY <1>1, <1>2 DEF Joins
  <2> HIDE DEF Q2
  <2> QED BY <2>1, JoiningClient
<1>4. /\ f \in Imgs /\ EntryOK(f)
      /\ f.version = v /\ f.last = TRUE /\ f.valid = TRUE /\ f.RefCount = 1
      /\ f.State = "Empty"
  <2>1. IsNew(f, v)
    BY <1>2, NewVersionFields
  <2> QED BY <2>1 DEF IsNew
<1>5. ASSUME NEW e \in E
      PROVE  LET g == Older(e) IN
             /\ g \in Imgs /\ EntryOK(g) /\ ~g.last /\ ~g.valid
             /\ g.version = e.version /\ g.imgbuf = e.imgbuf /\ g.content = e.content
  <2> DEFINE g == Older(e)
  <2>1. e \in Imgs /\ EntryOK(e) /\ ~e.valid
    BY <1>1 DEF SoundEntries
  <2>2. /\ g \in Imgs /\ g.last = FALSE
        /\ g.version = e.version
        /\ g.valid = e.valid /\ g.RefCount = e.RefCount /\ g.imgbuf = e.imgbuf
        /\ g.ScanNumber = e.ScanNumber /\ g.BitVec = e.BitVec
        /\ g.content = e.content /\ g.State = e.State
    BY <2>1 DEF Imgs, Older
  <2> HIDE DEF g
  <2>3. EntryOK(g)
    BY <2>1, <2>2 DEF EntryOK, WellDecoded
  <2> QED BY <2>1, <2>2, <2>3 DEF g
<1>6. ASSUME NEW g \in E2
      PROVE  \/ g = f
             \/ \E e \in E : /\ g = Older(e) /\ g \in Imgs /\ EntryOK(g)
                             /\ ~g.last /\ ~g.valid /\ g.version = e.version
                             /\ g.imgbuf = e.imgbuf /\ g.content = e.content
  BY <1>5
<1>7. f \in E2 /\ \A e \in E : Older(e) \in E2
  OBVIOUS
<1> HIDE DEF E2, Q2, Older
<1>8. \A g \in E2 : g.valid \/ g.last \/ g.version = v => g = f
  BY <1>6
<1>9. SoundEntries(E2)
  <2>1. \A g \in E2 : g \in Imgs /\ EntryOK(g)
    BY <1>4, <1>6
  <2>2. ASSUME NEW g \in E2, NEW h \in E2, g.version = h.version PROVE g = h
    <3>1. CASE g = f \/ h = f
      BY <3>1, <2>2, <1>4, <1>8
    <3>2. CASE g # f /\ h # f
      <4>1. PICK d \in E : g = Older(d) /\ g.version = d.version
        BY <3>2, <1>6
      <4>2. PICK e \in E : h = Older(e) /\ h.version = e.version
        BY <3>2, <1>6
      <4>3. d = e
        BY <4>1, <4>2, <2>2, <1>1 DEF SoundEntries
      <4> QED BY <4>1, <4>2, <4>3
    <3> QED BY <3>1, <3>2
  <2>3. \A g, h \in E2 : g.last /\ h.last => g = h
    BY <1>8
  <2> QED BY <2>1, <2>2, <2>3 DEF SoundEntries
<1>10. SoundPages(E2, pg)
  <2> SUFFICES ASSUME NEW c \in Clients PROVE PageOK(E2, pg[c])
    BY <1>1 DEF SoundPages
  <2>1. PageOK(E, pg[c])
    BY <1>1
  <2>2. pg[c].shows # 0 => \E g \in E2 : g.version = pg[c].shows /\ g.imgbuf
    BY <2>1, <1>5, <1>7 DEF PageOK
  <2>3. ASSUME pg[c].at = "done", pg[c].shows # 0, NEW g \in E2,
               g.version = pg[c].shows
        PROVE  pg[c].drawn = g.content /\ (g.valid => g.State = "Close")
    <3>1. \E e \in E : e.version = pg[c].shows
      BY <2>1, <2>3 DEF PageOK
    <3>2. g # f
      BY <3>1, <2>3, <1>4
    <3> QED BY <2>1, <2>3, <3>2, <1>6 DEF PageOK
  <2> QED BY <2>1, <2>2, <2>3 DEF PageOK
<1>11. Called(Q2) # {} => \E g \in E2 : g.valid
  BY <1>4, <1>7
<1>12. \A g \in E2 : g.valid => g.RefCount = Cardinality(Called(Q2))
  <2>1. Cardinality(Called(Q)) = 0
    BY <1>1, FS_EmptySet
  <2> QED BY <2>1, <1>3, <1>4, <1>8
<1>13. ASSUME NEW g \in E2, NEW s \in Q2, g.valid, s.Callback
       PROVE  Joined(g, s, pg[s.key], n, complete, X \cup {q.key}, Todo)
  <2>1. g = f
    BY <1>8, <1>13
  <2>2. s = r
    BY <1>1, <1>3, <1>13 DEF Called
  <2> QED BY <2>1, <2>2, <1>3, <1>4 DEF Joined
<1> QED BY <1>3, <1>9, <1>10, <1>11, <1>12, <1>13 DEF Good, E2, Q2

(***************************************************************************)
(* Decoding and drawing.                                                   *)
(***************************************************************************)
\* What a decoder leaves alone, and what it never takes back.
Decoded(e, f, upto) ==
  /\ f \in Imgs /\ f.version = e.version /\ f.last = e.last
  /\ f.valid = e.valid /\ f.RefCount = e.RefCount
  /\ f.DecodedSize = upto /\ f.State # "Close"
  /\ e.imgbuf => f.imgbuf
  /\ WellDecoded(f)

LEMMA DecodeDraws ==
  ASSUME NEW e \in Imgs, WellDecoded(e), e.State # "Close", NEW d \in Outcomes,
         NEW upto \in 0 .. MaxData, NEW f, f = Decode(e, d, upto)
  PROVE  /\ Decoded(e, f, upto)
         /\ \A q, p : e.imgbuf /\ Synced(e, q, p) => Lagging(f, q, p)
<1> DEFINE n == IF e.ScanNumber + d.scans <= MaxScan THEN d.scans ELSE 0
           scan == e.ScanNumber + n
           early == IF n = 0 THEN {} ELSE d.early
           rows == IF n = 0 THEN d.rows \ e.BitVec ELSE d.rows
           bits == IF n = 0 THEN e.BitVec \cup rows ELSE rows
           cont == [r \in Rows |-> IF r \in rows THEN scan + 1
                                   ELSE IF r \in early THEN scan ELSE e.content[r]]
           st == IF rows \cup early # {} THEN "Write"
                 ELSE IF e.State = "Empty" THEN "SetParms" ELSE e.State
<1>1. /\ d.parms \in BOOLEAN /\ d.scans \in 0 .. MaxScan
      /\ d.early \in SUBSET Rows /\ d.rows \in SUBSET Rows
  <2>1. CASE d = Nothing
    BY <2>1, BoundAssumption DEF Nothing
  <2>2. CASE d \in [parms : {TRUE}, scans : 0 .. MaxScan, early : SUBSET Rows,
                    rows : SUBSET Rows]
    BY <2>2
  <2> QED BY <2>1, <2>2 DEF Outcomes
<1>2. /\ e.ScanNumber \in 0 .. MaxScan /\ e.BitVec \in SUBSET Rows
      /\ e.content \in [Rows -> 0 .. MaxScan + 1] /\ e.imgbuf \in BOOLEAN
      /\ e.State \in {"Empty", "SetParms", "Write"}
  BY ImgFields DEF Content
<1>3. CASE ~e.imgbuf /\ ~d.parms
  <2>1. f = [e EXCEPT !.DecodedSize = upto]
    BY <1>3 DEF Decode
  <2>2. /\ f \in Imgs /\ f.version = e.version /\ f.last = e.last
        /\ f.valid = e.valid /\ f.RefCount = e.RefCount
        /\ f.DecodedSize = upto /\ f.State = e.State /\ f.imgbuf = e.imgbuf
        /\ f.BitVec = e.BitVec /\ f.content = e.content
        /\ f.ScanNumber = e.ScanNumber
    BY <2>1 DEF Imgs
  <2> QED BY <1>3, <2>2 DEF Decoded, WellDecoded
<1>4. CASE e.imgbuf \/ d.parms
  <2>1. f = [e EXCEPT !.DecodedSize = upto, !.imgbuf = TRUE, !.Image = NoImage,
                      !.ScanNumber = scan, !.BitVec = bits, !.content = cont,
                      !.State = st]
    BY <1>4 DEF Decode
  <2>2. /\ n \in 0 .. MaxScan /\ scan \in 0 .. MaxScan
        /\ n = 0 => scan = e.ScanNumber /\ early = {}
        /\ n # 0 => scan > e.ScanNumber
        /\ n # 0 /\ n # 1 => scan > e.ScanNumber + 1
        /\ n = 1 => scan = e.ScanNumber + 1
        /\ scan + 1 \in 0 .. MaxScan + 1 /\ scan \in 0 .. MaxScan + 1
    BY <1>1, <1>2, BoundAssumption
  <2>3. /\ early \in SUBSET Rows /\ rows \in SUBSET Rows /\ bits \in SUBSET Rows
        /\ n = 0 => bits = e.BitVec \cup rows /\ rows \cap e.BitVec = {}
        /\ n # 0 => bits = rows
    BY <1>1, <1>2
  <2> HIDE DEF n, scan, early, rows, bits
  <2>4. /\ cont \in Content
        /\ \A r \in Rows : /\ r \in rows => cont[r] = scan + 1
                           /\ r \notin rows /\ r \in early => cont[r] = scan
                           /\ r \notin rows /\ r \notin early => cont[r] = e.content[r]
    BY <1>2, <2>2 DEF Content
  <2>5. /\ st \in {"SetParms", "Write"}
        /\ st = "SetParms" => rows = {} /\ early = {} /\ e.State \in {"Empty", "SetParms"}
    BY <1>2
  <2>6. cont \in [Rows -> 0 .. MaxScan + 1]
    BY <2>4 DEF Content
  <2> HIDE DEF cont, st
  <2>7. /\ f \in Imgs /\ f.version = e.version /\ f.last = e.last
        /\ f.valid = e.valid /\ f.RefCount = e.RefCount
        /\ f.DecodedSize = upto /\ f.State = st /\ f.imgbuf = TRUE
        /\ f.BitVec = bits /\ f.content = cont /\ f.ScanNumber = scan
    <3>1. /\ st \in {"Empty", "SetParms", "Write", "Close"}
          /\ scan \in 0 .. MaxScan /\ bits \in SUBSET Rows /\ cont \in Content
          /\ NoImage \in Clients \cup {Freed, NoImage} /\ TRUE \in BOOLEAN
      BY <2>2, <2>3, <2>4, <2>5
    <3>2. f \in Imgs
      BY <2>1, <3>1, ZenonT(60) DEF Imgs
    <3>3. /\ f.version = e.version /\ f.last = e.last
          /\ f.valid = e.valid /\ f.RefCount = e.RefCount
          /\ f.DecodedSize = upto /\ f.State = st /\ f.imgbuf = TRUE
          /\ f.BitVec = bits /\ f.content = cont /\ f.ScanNumber = scan
      BY <2>1 DEF Imgs
    <3> QED BY <3>2, <3>3
  <2>8. st = "SetParms" => bits = {} /\ cont = e.content /\ cont = Blank
    <3> HAVE st = "SetParms"
    <3>1. rows = {} /\ early = {} /\ e.BitVec = {} /\ e.content = Blank
      BY <2>5 DEF WellDecoded
    <3>2. bits = {}
      BY <2>3, <3>1
    <3>3. \A r \in Rows : cont[r] = e.content[r]
      BY <2>4, <3>1
    <3>4. cont = e.content
      BY <1>2, <2>6, <3>3
    <3> QED BY <3>1, <3>2, <3>4
  <2>9. ASSUME NEW r \in bits PROVE cont[r] = scan + 1
    <3>1. CASE r \in rows
      BY <2>3, <2>4, <3>1
    <3>2. CASE r \notin rows
      <4>1. n = 0 /\ r \in e.BitVec /\ r \in Rows
        BY <2>3, <2>9, <3>2
      <4>2. cont[r] = e.content[r] /\ scan = e.ScanNumber
        BY <2>2, <2>4, <3>2, <4>1
      <4> QED BY <4>1, <4>2 DEF WellDecoded
    <3> QED BY <3>1, <3>2
  <2>10. WellDecoded(f)
    BY <2>5, <2>7, <2>8, <2>9 DEF WellDecoded
  <2>11. Decoded(e, f, upto)
    BY <2>5, <2>7, <2>10 DEF Decoded
  <2>12. ASSUME NEW q, NEW p, e.imgbuf, Synced(e, q, p) PROVE Lagging(f, q, p)
    <3>1. /\ p.drawn = e.content
          /\ e.State = "Write" => q.BitVec = e.BitVec /\ q.ScanNumber = e.ScanNumber
          /\ e.State = "SetParms" => q.BitVec = {} /\ q.ScanNumber = 0
      BY <2>12 DEF Synced
    <3>2. e.State \in {"SetParms", "Write"}
      BY <1>2, <2>12 DEF WellDecoded
    <3>3. CASE st = "SetParms"
      <4>1. e.State = "SetParms"
        BY <2>5, <3>2, <3>3
      <4> QED BY <2>7, <2>8, <3>1, <3>3, <4>1 DEF Lagging
    <3>4. CASE st = "Write"
      <4> SUFFICES ASSUME NEW r \in Rows, r \notin Stale(f, q)
                   PROVE  cont[r] = e.content[r]
        BY <2>7, <3>1, <3>4 DEF Lagging
      <4>1. IF scan = q.ScanNumber THEN r \notin bits \ q.BitVec
            ELSE r \notin bits /\ r \in q.BitVec /\ ~(scan > q.ScanNumber + 1)
        BY <2>7, <3>4 DEF Stale
      <4>2. CASE e.State = "SetParms"
        <5>1. q.BitVec = {} /\ q.ScanNumber = 0
          BY <3>1, <4>2
        <5>2. scan = 0 /\ r \notin bits
          BY <4>1, <5>1
        <5>3. n = 0
          BY <1>2, <2>2, <5>2
        <5> QED BY <2>2, <2>3, <2>4, <5>2, <5>3
      <4>3. CASE e.State = "Write"
        <5>1. q.BitVec = e.BitVec /\ q.ScanNumber = e.ScanNumber
          BY <3>1, <4>3
        <5>2. CASE n = 0
          <6>1. r \notin rows /\ r \notin early
            BY <2>2, <2>3, <4>1, <5>1, <5>2
          <6> QED BY <6>1, <2>4
        <5>3. CASE n # 0
          <6>1. scan # e.ScanNumber
            BY <1>2, <2>2, <5>3
          <6>2. r \notin bits /\ r \in e.BitVec /\ ~(scan > e.ScanNumber + 1)
            BY <4>1, <5>1, <6>1
          <6>3. scan = e.ScanNumber + 1 /\ r \notin rows
            BY <2>2, <2>3, <5>3, <6>2
          <6>4. e.content[r] = e.ScanNumber + 1
            BY <6>2 DEF WellDecoded
          <6> QED BY <2>4, <6>3, <6>4
        <5> QED BY <5>2, <5>3
      <4> QED BY <3>2, <4>2, <4>3
    <3> QED BY <2>5, <3>3, <3>4
  <2> QED BY <2>11, <2>12
<1> QED BY <1>3, <1>4

(* What a client becomes when it was sent the data, and its page.          *)
SentClient(e, q) ==
  LET seen == [q EXCEPT !.Version = IF @ = 0 THEN e.version ELSE @]
  IN IF ~e.imgbuf THEN seen
     ELSE [seen EXCEPT
             !.sized = TRUE,
             !.BitVec = IF e.State # "Write" THEN q.BitVec
                        ELSE (q.BitVec \cup Stale(e, q)) \cap e.BitVec,
             !.ScanNumber = IF e.State = "Write" THEN e.ScanNumber ELSE @]

SentPage(e, q, p) ==
  IF ~e.imgbuf THEN p
  ELSE [p EXCEPT
          !.shows = IF q.sized THEN @ ELSE e.version,
          !.drawn = IF q.sized
                    THEN [r \in Rows |-> IF r \in Stale(e, q) THEN e.content[r]
                                         ELSE p.drawn[r]]
                    ELSE e.content]

Sent(e, q, p, r, p2) ==
  /\ r \in Queued /\ r.key = q.key /\ r.Callback = TRUE /\ r.CbData = q.CbData
  /\ r.Version = IF q.Version = 0 THEN e.version ELSE q.Version
  /\ p2 \in Pages /\ p2.at = p.at
  /\ ClientOK(r, p2)
  /\ r.sized => e.imgbuf /\ p2.shows = e.version /\ Synced(e, r, p2)

LEMMA SentDraws ==
  ASSUME NEW e \in Imgs, WellDecoded(e), NEW q \in Queued, NEW p \in Pages,
         ClientOK(q, p), q.Callback,
         q.sized => e.imgbuf /\ p.shows = e.version /\ Lagging(e, q, p),
         NEW r, r = SentClient(e, q), NEW p2, p2 = SentPage(e, q, p)
  PROVE  Sent(e, q, p, r, p2)
<1> DEFINE draws == Stale(e, q)
           bits == IF e.State # "Write" THEN q.BitVec ELSE (q.BitVec \cup draws) \cap e.BitVec
           scan == IF e.State = "Write" THEN e.ScanNumber ELSE q.ScanNumber
           vers == IF q.Version = 0 THEN e.version ELSE q.Version
           cont == IF q.sized
                   THEN [s \in Rows |-> IF s \in draws THEN e.content[s] ELSE p.drawn[s]]
                   ELSE e.content
<1>1. /\ q.key \in Clients /\ q.Callback = TRUE
      /\ q.Version \in 0 .. MaxVersion /\ q.CbData \in 0 .. MaxVersion
      /\ q.sized \in BOOLEAN /\ q.ScanNumber \in 0 .. MaxScan
      /\ q.BitVec \in SUBSET Rows
  BY QueuedFields
<1>2. /\ e.version \in 1 .. MaxVersion
      /\ e.imgbuf \in BOOLEAN /\ e.ScanNumber \in 0 .. MaxScan
      /\ e.BitVec \in SUBSET Rows /\ e.content \in Content
      /\ e.State \in {"Empty", "SetParms", "Write", "Close"}
  BY ImgFields
<1>3. /\ p.at \in {"none", "queued", "done", "stopped"}
      /\ p.shows \in 0 .. MaxVersion /\ p.drawn \in Content
  BY DEF Pages
<1>4. /\ p.at = "queued" /\ (q.sized <=> p.shows # 0)
      /\ ~q.sized => q.BitVec = {} /\ q.ScanNumber = 0
  BY DEF ClientOK
<1>5. /\ vers \in 0 .. MaxVersion /\ bits \in SUBSET Rows /\ scan \in 0 .. MaxScan
      /\ e.version # 0 /\ e.version \in 0 .. MaxVersion
  BY <1>1, <1>2, BoundAssumption
<1>6. cont \in Content
  BY <1>2, <1>3 DEF Content
<1>7. CASE ~e.imgbuf
  <2>1. r = [q EXCEPT !.Version = vers] /\ p2 = p /\ ~q.sized
    BY <1>7 DEF SentClient, SentPage
  <2> HIDE DEF vers
  <2>2. /\ r \in Queued /\ r.key = q.key /\ r.Callback = TRUE /\ r.CbData = q.CbData
        /\ r.Version = vers /\ r.sized = q.sized /\ r.BitVec = q.BitVec
        /\ r.ScanNumber = q.ScanNumber
    BY <2>1, <1>1, <1>5 DEF Queued
  <2>3. ClientOK(r, p2)
    BY <2>1, <2>2, <1>4 DEF ClientOK
  <2> QED BY <2>1, <2>2, <2>3 DEF Sent, vers
<1>8. CASE e.imgbuf
  <2>1. r = [q EXCEPT !.Version = vers, !.sized = TRUE, !.BitVec = bits,
                      !.ScanNumber = scan]
    BY <1>8, <1>1 DEF SentClient, Queued
  <2>2. p2 = [p EXCEPT !.shows = e.version, !.drawn = cont]
    <3>1. (IF q.sized THEN p.shows ELSE e.version) = e.version
      OBVIOUS
    <3> QED BY <1>8, <3>1 DEF SentPage
  <2>3. \A s \in e.BitVec : e.State = "Write" => s \in bits
    BY <1>2 DEF Stale
  <2>4. e.State = "Write" => bits = e.BitVec
    BY <2>3
  <2>5. cont = e.content
    <3>1. CASE q.sized
      <4>1. \A s \in Rows : s \notin draws => p.drawn[s] = e.content[s]
        BY <3>1 DEF Lagging
      <4>2. e.content \in [Rows -> 0 .. MaxScan + 1]
        BY <1>2 DEF Content
      <4> HIDE DEF draws
      <4>3. \A s \in Rows : (IF s \in draws THEN e.content[s] ELSE p.drawn[s]) = e.content[s]
        BY <4>1
      <4> QED BY <3>1, <4>2, <4>3
    <3>2. CASE ~q.sized
      BY <3>2
    <3> QED BY <3>1, <3>2
  <2>6. e.State = "SetParms" => bits = {} /\ scan = 0
    BY <1>4 DEF Lagging
  <2>7. e.State = "Write" => scan = e.ScanNumber
    OBVIOUS
  <2> HIDE DEF vers, bits, scan, cont, draws
  <2>8. /\ r \in Queued /\ r.key = q.key /\ r.Callback = TRUE /\ r.CbData = q.CbData
        /\ r.Version = vers /\ r.sized = TRUE /\ r.BitVec = bits
        /\ r.ScanNumber = scan
    BY <2>1, <1>1, <1>5 DEF Queued
  <2>9. /\ p2 \in Pages /\ p2.at = p.at /\ p2.shows = e.version /\ p2.drawn = cont
    BY <2>2, <1>3, <1>5, <1>6 DEF Pages
  <2>10. ClientOK(r, p2)
    BY <2>8, <2>9, <1>4, <1>5 DEF ClientOK
  <2>11. Synced(e, r, p2)
    BY <2>4, <2>5, <2>6, <2>7, <2>8, <2>9 DEF Synced
  <2> QED BY <1>8, <2>8, <2>9, <2>10, <2>11 DEF Sent, vers
<1> QED BY <1>2, <1>7, <1>8

LEMMA SyncedLags ==
  ASSUME NEW e, NEW q, NEW p, Synced(e, q, p)
  PROVE  Lagging(e, q, p)
BY DEF Synced, Lagging

(* The current version after a turn of the loop.                           *)
CanSend(E, Q, pg, n, complete, X, Todo, q, e, d, f, r, p) ==
  /\ Good(E, Q, pg, n, complete, X, Todo) /\ n \in 0 .. MaxData
  /\ q \in Q /\ q.Callback /\ X \subseteq {q.key}
  /\ e \in E /\ e.valid /\ d \in Outcomes
  /\ f = (IF Behind(e, n) THEN Decode(e, d, n) ELSE e)
  /\ r = SentClient(f, q) /\ p = SentPage(f, q, pg[q.key])

LEMMA SendGood ==
  ASSUME NEW E, NEW Q, NEW pg, NEW n, NEW complete, NEW X, NEW Todo,
         NEW q, NEW e, NEW d, NEW f, NEW r, NEW p,
         CanSend(E, Q, pg, n, complete, X, Todo, q, e, d, f, r, p)
  PROVE  /\ Good((E \ {e}) \cup {f}, (Q \ {q}) \cup {r}, WithPage(pg, q.key, p),
                 n, complete, {}, Todo \ {q.key})
         /\ f \in Imgs /\ f.version = e.version /\ Sent(f, q, pg[q.key], r, p)
<1> DEFINE E2 == (E \ {e}) \cup {f}
           Q2 == (Q \ {q}) \cup {r}
           pg2 == [pg EXCEPT ![q.key] = p]
<1> SUFFICES ASSUME Good(E, Q, pg, n, complete, X, Todo), n \in 0 .. MaxData,
                    q \in Q, q.Callback, X \subseteq {q.key},
                    e \in E, e.valid, d \in Outcomes,
                    f = (IF Behind(e, n) THEN Decode(e, d, n) ELSE e),
                    r = SentClient(f, q), p = SentPage(f, q, pg[q.key])
             PROVE  /\ Good(E2, Q2, pg2, n, complete, {}, Todo \ {q.key})
                    /\ f \in Imgs /\ f.version = e.version
                    /\ Sent(f, q, pg[q.key], r, p)
  BY DEF CanSend, WithPage
<1>1. /\ SoundEntries(E) /\ SoundClients(Q, pg) /\ pg \in [Clients -> Pages]
      /\ \A c \in Clients : PageOK(E, pg[c])
      /\ e.RefCount = Cardinality(Called(Q))
      /\ \A s \in Q : s.Callback => Joined(e, s, pg[s.key], n, complete, X, Todo)
      /\ e \in Imgs /\ EntryOK(e) /\ WellDecoded(e)
      /\ q \in Queued /\ q.key \in Clients /\ ClientOK(q, pg[q.key])
      /\ pg[q.key] \in Pages
  BY QueuedFields DEF Good, SoundPages, SoundEntries, SoundClients, EntryOK
<1>2. /\ f \in Imgs /\ WellDecoded(f) /\ f.version = e.version /\ f.last = e.last
      /\ f.valid = e.valid /\ f.RefCount = e.RefCount
      /\ e.imgbuf => f.imgbuf
      /\ ~Behind(f, n)
      /\ f = e \/ (Behind(e, n) /\ f.State # "Close")
      /\ \A s, t : Behind(e, n) /\ e.imgbuf /\ Synced(e, s, t) => Lagging(f, s, t)
  <2>1. CASE Behind(e, n)
    <3>1. f = Decode(e, d, n) /\ e.State # "Close"
      BY <2>1 DEF Behind
    <3>2. /\ Decoded(e, f, n)
          /\ \A s, t : e.imgbuf /\ Synced(e, s, t) => Lagging(f, s, t)
      BY <1>1, <3>1, DecodeDraws
    <3>3. f.DecodedSize = n /\ ~(n < n)
      BY <3>2 DEF Decoded
    <3> QED BY <2>1, <3>2, <3>3 DEF Decoded, Behind
  <2>2. CASE ~Behind(e, n)
    BY <2>2, <1>1
  <2> QED BY <2>1, <2>2
<1>3. \A s \in Q : s.Callback /\ s.sized => e.imgbuf /\ pg[s.key].shows = e.version
                                            /\ Lagging(f, s, pg[s.key])
  <2> SUFFICES ASSUME NEW s \in Q, s.Callback, s.sized
               PROVE  e.imgbuf /\ pg[s.key].shows = e.version /\ Lagging(f, s, pg[s.key])
    OBVIOUS
  <2>1. Joined(e, s, pg[s.key], n, complete, X, Todo)
    BY <1>1
  <2>2. CASE f = e
    BY <2>1, <2>2 DEF Joined
  <2>3. CASE Behind(e, n)
    BY <2>1, <2>3, <1>2 DEF Joined
  <2> QED BY <2>2, <2>3, <1>2
<1>4. Sent(f, q, pg[q.key], r, p)
  BY <1>1, <1>2, <1>3, SentDraws
<1>5. EntryOK(f) /\ SoundEntries(E2)
  <2>1. EntryOK(f)
    BY <1>1, <1>2 DEF EntryOK
  <2> QED BY <2>1, <1>1, <1>2, OtherEntry
<1>6. SoundClients(Q2, pg2)
  BY <1>1, <1>4, OtherClient DEF Sent
<1>7. Cardinality(Called(Q2)) = Cardinality(Called(Q))
  BY <1>1, <1>4, CalledMore DEF Sent
<1>8. /\ pg2[q.key] = p /\ pg2 \in [Clients -> Pages]
      /\ \A c \in Clients : c # q.key => pg2[c] = pg[c]
  BY <1>1, <1>4 DEF Sent
<1>9. /\ \A g \in E2 : g = f \/ g \in E
      /\ \A g \in E2 : g.valid \/ g.version = e.version => g = f
      /\ \A g \in E : g # e => g \in E2
      /\ f \in E2
  BY <1>1, OneValid DEF SoundEntries
<1>10. \A s \in Q2 : s = r \/ (s \in Q /\ s.key # q.key /\ s.key \in Clients)
  BY <1>1, QueuedFields DEF SoundClients
<1> HIDE DEF E2, Q2, pg2
<1>11. SoundPages(E2, pg2)
  <2> SUFFICES ASSUME NEW c \in Clients PROVE PageOK(E2, pg2[c])
    BY <1>8 DEF SoundPages
  <2>1. PageOK(E, pg[c])
    BY <1>1
  <2>2. CASE c = q.key
    <3>1. pg2[c] = p /\ p.at = "queued"
      BY <2>2, <1>1, <1>4, <1>8 DEF Sent, ClientOK
    <3>2. p.shows # 0 => f.version = p.shows /\ f.imgbuf
      BY <1>4 DEF Sent, ClientOK
    <3> QED BY <3>1, <3>2, <1>9 DEF PageOK
  <2>3. CASE c # q.key
    <3>1. pg2[c] = pg[c]
      BY <2>3, <1>8
    <3>2. pg[c].shows # 0 => \E g \in E2 : g.version = pg[c].shows /\ g.imgbuf
      BY <2>1, <1>2, <1>9 DEF PageOK
    <3>3. ASSUME pg[c].at = "done", pg[c].shows # 0, NEW g \in E2,
                 g.version = pg[c].shows
          PROVE  pg[c].drawn = g.content /\ (g.valid => g.State = "Close")
      <4>1. \A h \in E : h.version = pg[c].shows =>
              pg[c].drawn = h.content /\ (h.valid => h.State = "Close")
        BY <2>1, <3>3 DEF PageOK
      <4>2. CASE g = f
        <5>1. e.State = "Close"
          BY <3>3, <4>1, <4>2, <1>2
        <5>2. f = e
          BY <5>1, <1>2 DEF Behind
        <5> QED BY <3>3, <4>1, <4>2, <5>2
      <4>3. CASE g \in E
        BY <3>3, <4>1, <4>3
      <4> QED BY <4>2, <4>3, <1>9
    <3> QED BY <2>1, <3>1, <3>2, <3>3 DEF PageOK
  <2> QED BY <2>2, <2>3
<1>12. Called(Q2) # {} => \E g \in E2 : g.valid
  BY <1>2, <1>9
<1>13. \A g \in E2 : g.valid => g.RefCount = Cardinality(Called(Q2))
  BY <1>1, <1>2, <1>7, <1>9
<1>14. ASSUME NEW g \in E2, NEW s \in Q2, g.valid, s.Callback
       PROVE  Joined(g, s, pg2[s.key], n, complete, {}, Todo \ {q.key})
  <2>1. g = f
    BY <1>9, <1>14
  <2>2. CASE s = r
    <3>1. Joined(e, q, pg[q.key], n, complete, X, Todo)
      BY <1>1
    <3>2. e.version # 0
      BY <1>1, ImgFields
    <3>3. r.Version = f.version
      BY <1>2, <1>4, <3>1, <3>2 DEF Joined, Sent
    <3>4. f.State # "Close" => r.CbData = f.version
      BY <1>2, <1>4, <3>1 DEF Joined, Sent, Behind
    <3>5. pg2[s.key] = p
      BY <2>2, <1>4, <1>8 DEF Sent
    <3>6. r.sized => f.imgbuf /\ p.shows = f.version /\ Synced(f, r, p) /\ Lagging(f, r, p)
      BY <1>4, SyncedLags DEF Sent
    <3> QED BY <2>1, <2>2, <3>3, <3>4, <3>5, <3>6, <1>2 DEF Joined
  <2>3. CASE s \in Q /\ s.key # q.key /\ s.key \in Clients
    <3>1. Joined(e, s, pg[s.key], n, complete, X, Todo) /\ pg2[s.key] = pg[s.key]
      BY <2>3, <1>1, <1>8, <1>14
    <3>2. s.key \notin X
      BY <2>3
    <3>3. s.Version = f.version
      BY <3>1, <3>2, <1>2 DEF Joined
    <3>4. f.State # "Close" => s.CbData = f.version
      BY <1>2, <3>1 DEF Joined, Behind
    <3>5. s.sized => f.imgbuf /\ pg[s.key].shows = f.version /\ Lagging(f, s, pg[s.key])
      BY <2>3, <1>2, <1>3, <1>14
    <3>6. s.sized /\ (s.key \notin Todo \ {q.key} \/ complete) => Synced(f, s, pg[s.key])
      BY <2>3, <3>1, <3>2, <1>2 DEF Joined
    <3> QED BY <2>1, <3>1, <3>3, <3>4, <3>5, <3>6, <1>2 DEF Joined
  <2> QED BY <2>2, <2>3, <1>10
<1>15. Good(E2, Q2, pg2, n, complete, {}, Todo \ {q.key})
  BY <1>5, <1>6, <1>11, <1>12, <1>13, <1>14 DEF Good
<1> QED BY <1>2, <1>4, <1>15

(***************************************************************************)
(* Clients that ask, pages that go, data that come.                        *)
(***************************************************************************)
LEMMA AskGood ==
  ASSUME NEW E, NEW Q, NEW pg, NEW n, NEW complete,
         Good(E, Q, pg, n, complete, {}, {}), NEW c \in Clients, pg[c].at = "none",
         NEW pg2, pg2 = [pg EXCEPT ![c].at = "queued"]
  PROVE  /\ Good(E, Q \cup {NewClient(c)}, pg2, n, complete, {}, {})
         /\ NewClient(c) \in Queued /\ NewClient(c) \notin Q
<1> DEFINE q == NewClient(c)
           Q2 == Q \cup {q}
<1>1. /\ SoundEntries(E) /\ SoundClients(Q, pg) /\ pg \in [Clients -> Pages]
      /\ \A x \in Clients : PageOK(E, pg[x])
  BY DEF Good, SoundPages
<1>2. /\ q \in Queued /\ q.key = c /\ q.Callback = FALSE /\ q.Version = 0
      /\ q.sized = FALSE /\ q.BitVec = {} /\ q.ScanNumber = 0
  <2>1. 0 \in 0 .. MaxVersion /\ 0 \in 0 .. MaxScan
    BY BoundAssumption
  <2> QED BY <2>1 DEF Queued, NewClient
<1>3. \A p \in Q : p.key # c /\ p.key \in Clients
  BY <1>1, QueuedFields DEF SoundClients, ClientOK
<1>4. /\ pg2 \in [Clients -> Pages] /\ pg2[c].at = "queued"
      /\ pg2[c].shows = pg[c].shows
      /\ \A x \in Clients : x # c => pg2[x] = pg[x]
  <2>1. pg[c] \in Pages /\ [pg[c] EXCEPT !.at = "queued"] \in Pages
    BY <1>1 DEF Pages
  <2>2. pg2[c] = [pg[c] EXCEPT !.at = "queued"]
    BY <1>1
  <2> QED BY <1>1, <2>1, <2>2 DEF Pages
<1>5. pg[c].shows = 0
  BY <1>1 DEF PageOK
<1> HIDE DEF q
<1>6. IsFiniteSet(Q2)
  <2>1. IsFiniteSet(Q)
    BY <1>1 DEF SoundClients
  <2> QED BY <2>1, FS_AddElement
<1>7. SoundClients(Q2, pg2)
  <2>1. \A p \in Q2 : p = q \/ (p \in Q /\ p.key # c /\ p.key \in Clients)
    BY <1>3
  <2>2. \A p \in Q2 : ClientOK(p, pg2[p.key])
    BY <2>1, <1>1, <1>2, <1>4, <1>5 DEF SoundClients, ClientOK
  <2>3. \A x \in Clients : pg2[x].at = "queued" => \E p \in Q2 : p.key = x
    BY <1>1, <1>2, <1>4 DEF SoundClients
  <2>4. \A p, r \in Q2 : p.key = r.key => p = r
    BY <2>1, <1>1, <1>2 DEF SoundClients
  <2>5. Q2 \subseteq Queued
    BY <1>1, <1>2 DEF SoundClients
  <2> QED BY <1>6, <2>2, <2>3, <2>4, <2>5 DEF SoundClients
<1>8. Called(Q2) = Called(Q)
  BY <1>2 DEF Called
<1>9. SoundPages(E, pg2)
  <2> SUFFICES ASSUME NEW x \in Clients PROVE PageOK(E, pg2[x])
    BY <1>4 DEF SoundPages
  <2>1. CASE x = c
    BY <2>1, <1>4, <1>5 DEF PageOK
  <2>2. CASE x # c
    BY <2>2, <1>1, <1>4
  <2> QED BY <2>1, <2>2
<1>10. ASSUME NEW e \in E, NEW p \in Q2, e.valid, p.Callback
       PROVE  Joined(e, p, pg2[p.key], n, complete, {}, {})
  <2>1. p \in Q /\ pg2[p.key] = pg[p.key]
    BY <1>2, <1>3, <1>4, <1>10
  <2> QED BY <2>1, <1>10 DEF Good
<1>11. Good(E, Q2, pg2, n, complete, {}, {})
  <2> HIDE DEF Q2
  <2>1. Called(Q2) # {} => \E e \in E : e.valid
    BY <1>8 DEF Good
  <2>2. \A e \in E : e.valid => e.RefCount = Cardinality(Called(Q2))
    BY <1>8 DEF Good
  <2> QED BY <1>1, <1>7, <1>9, <1>10, <2>1, <2>2 DEF Good
<1> QED BY <1>2, <1>3, <1>11 DEF q

\* A page without a waiting client is left.
LEMMA LeaveGood ==
  ASSUME NEW E, NEW Q, NEW pg, NEW n, NEW complete,
         Good(E, Q, pg, n, complete, {}, {}), NEW c \in Clients,
         pg[c].at # "queued", NEW pg2, pg2 = [pg EXCEPT ![c] = NoPage]
  PROVE  Good(E, Q, pg2, n, complete, {}, {})
<1>1. /\ SoundEntries(E) /\ SoundClients(Q, pg) /\ pg \in [Clients -> Pages]
      /\ \A x \in Clients : PageOK(E, pg[x])
  BY DEF Good, SoundPages
<1>2. /\ NoPage \in Pages /\ NoPage.at = "none" /\ NoPage.shows = 0
  <2>1. 0 \in 0 .. MaxVersion /\ Blank \in Content
    BY BoundAssumption DEF Blank, Content
  <2> QED BY <2>1 DEF Pages, NoPage
<1>3. /\ pg2 \in [Clients -> Pages] /\ pg2[c] = NoPage
      /\ \A x \in Clients : x # c => pg2[x] = pg[x]
  BY <1>1, <1>2
<1>4. \A q \in Q : q.key # c /\ q.key \in Clients /\ pg2[q.key] = pg[q.key]
  BY <1>1, <1>3, QueuedFields DEF SoundClients, ClientOK
<1>5. SoundClients(Q, pg2)
  <2>1. \A q \in Q : ClientOK(q, pg2[q.key])
    BY <1>1, <1>4 DEF SoundClients
  <2>2. \A x \in Clients : pg2[x].at = "queued" => \E q \in Q : q.key = x
    BY <1>1, <1>2, <1>3 DEF SoundClients
  <2> QED BY <2>1, <2>2, <1>1 DEF SoundClients
<1>6. SoundPages(E, pg2)
  <2> SUFFICES ASSUME NEW x \in Clients PROVE PageOK(E, pg2[x])
    BY <1>3 DEF SoundPages
  <2>1. CASE x = c
    BY <2>1, <1>2, <1>3 DEF PageOK
  <2>2. CASE x # c
    BY <2>2, <1>1, <1>3
  <2> QED BY <2>1, <2>2
<1>7. \A e \in E, q \in Q : e.valid /\ q.Callback =>
        Joined(e, q, pg2[q.key], n, complete, {}, {})
  BY <1>4 DEF Good
<1> QED BY <1>5, <1>6, <1>7 DEF Good

\* More data are behind every client that has still its turn.
LEMMA MoreData ==
  ASSUME NEW E, NEW Q, NEW pg, NEW n, NEW complete,
         Good(E, Q, pg, n, complete, {}, {}), NEW m, NEW comp2, NEW Todo,
         m = n \/ (comp2 = FALSE /\ \A q \in Q : q.key \in Todo)
  PROVE  Good(E, Q, pg, m, comp2, {}, Todo)
<1>1. ASSUME NEW e \in E, NEW q \in Q, e.valid, q.Callback
      PROVE  Joined(e, q, pg[q.key], m, comp2, {}, Todo)
  <2>1. Joined(e, q, pg[q.key], n, complete, {}, {})
    BY <1>1 DEF Good
  <2> QED BY <2>1 DEF Joined
<1> QED BY <1>1 DEF Good

\* Without clients the version may go out of date.
LEMMA InvalidGood ==
  ASSUME NEW E, NEW pg, NEW n, NEW complete, NEW X, NEW Todo,
         Good(E, {}, pg, n, complete, X, Todo), NEW e \in E, e.version < MaxVersion,
         NEW f, f = [e EXCEPT !.valid = FALSE], NEW m, NEW comp2
  PROVE  /\ Good((E \ {e}) \cup {f}, {}, pg, m, comp2, {}, {})
         /\ f \in Imgs
<1> DEFINE E2 == (E \ {e}) \cup {f}
<1>1. /\ SoundEntries(E) /\ pg \in [Clients -> Pages]
      /\ \A x \in Clients : PageOK(E, pg[x])
      /\ e \in Imgs /\ EntryOK(e) /\ Called({}) = {}
  BY DEF Good, SoundPages, SoundEntries, Called
<1>2. /\ f \in Imgs /\ f.version = e.version /\ f.last = e.last
      /\ f.valid = FALSE /\ f.RefCount = e.RefCount /\ f.imgbuf = e.imgbuf
      /\ f.ScanNumber = e.ScanNumber /\ f.BitVec = e.BitVec
      /\ f.content = e.content /\ f.State = e.State
  BY <1>1 DEF Imgs
<1>3. e.RefCount = 0
  <2>1. e.valid => e.RefCount = Cardinality({})
    BY <1>1 DEF Good
  <2>2. Cardinality({}) = 0
    BY FS_EmptySet
  <2> QED BY <2>1, <2>2, <1>1 DEF EntryOK
<1>4. EntryOK(f)
  BY <1>1, <1>2, <1>3 DEF EntryOK, WellDecoded
<1>5. SoundEntries(E2)
  BY <1>1, <1>2, <1>4, OtherEntry
<1>6. SoundPages(E2, pg)
  <2> SUFFICES ASSUME NEW c \in Clients PROVE PageOK(E2, pg[c])
    BY <1>1 DEF SoundPages
  <2>1. PageOK(E, pg[c])
    BY <1>1
  <2>2. pg[c].shows # 0 => \E g \in E2 : g.version = pg[c].shows /\ g.imgbuf
    <3> SUFFICES ASSUME pg[c].shows # 0
                 PROVE  \E g \in E2 : g.version = pg[c].shows /\ g.imgbuf
      OBVIOUS
    <3>1. PICK g \in E : g.version = pg[c].shows /\ g.imgbuf
      BY <2>1 DEF PageOK
    <3>2. CASE g = e
      BY <3>1, <3>2, <1>2
    <3> QED BY <3>1, <3>2
  <2>3. ASSUME pg[c].at = "done", pg[c].shows # 0, NEW g \in E2,
               g.version = pg[c].shows
        PROVE  pg[c].drawn = g.content /\ (g.valid => g.State = "Close")
    <3>1. \A h \in E : h.version = pg[c].shows =>
            pg[c].drawn = h.content /\ (h.valid => h.State = "Close")
      BY <2>1, <2>3 DEF PageOK
    <3>2. CASE g = f
      BY <2>3, <3>1, <3>2, <1>2
    <3> QED BY <2>3, <3>1, <3>2
  <2> QED BY <2>1, <2>2, <2>3 DEF PageOK
<1>7. \A g \in E2 : g.valid => g.RefCount = Cardinality(Called({}))
  <2>1. \A g \in E2 : g.valid => g \in E
    BY <1>2
  <2> QED BY <2>1 DEF Good
<1>8. SoundClients({}, pg)
  BY DEF Good
<1> QED BY <1>1, <1>2, <1>5, <1>6, <1>7, <1>8 DEF Good

LEMMA NoQueueGood ==
  ASSUME NEW E, NEW pg, NEW n, NEW complete, NEW X, NEW Todo,
         Good(E, {}, pg, n, complete, X, Todo), NEW m, NEW comp2
  PROVE  Good(E, {}, pg, m, comp2, {}, {})
BY DEF Good
-----------------------------------------------------------------------------
(***************************************************************************)
(* The lists.                                                              *)
(***************************************************************************)
\* No two entries have a version in common, nor two clients a key.
ByVersion(E) == \A e, f \in E : e.version = f.version => e = f
ByKey(Q) == \A p, q \in Q : p.key = q.key => p = q

\* The fields of a state, one by one.
LEMMA Fields ==
  ASSUME NEW S \in DState
  PROVE  /\ S.imgs \in Seq(Imgs) /\ S.queue \in Seq(Queued)
         /\ S.entry \in {"none", "loading", "complete"} /\ S.size \in 0 .. MaxData
         /\ S.delayed \in BOOLEAN /\ S.page \in [Clients -> Pages]
         /\ S.reused \in BOOLEAN
         /\ ToSet(S.imgs) \subseteq Imgs /\ ToSet(S.queue) \subseteq Queued
<1>1. /\ S.imgs \in Seq(Imgs) /\ S.queue \in Seq(Queued)
      /\ S.entry \in {"none", "loading", "complete"} /\ S.size \in 0 .. MaxData
      /\ S.delayed \in BOOLEAN /\ S.page \in [Clients -> Pages]
      /\ S.reused \in BOOLEAN
  BY DEF DState
<1>2. ToSet(S.imgs) \subseteq Imgs
  BY <1>1, ToSetIn
<1>3. ToSet(S.queue) \subseteq Queued
  BY <1>1, ToSetIn
<1> QED BY <1>1, <1>2, <1>3

(* The first place of some kind, 0 if there is none.                       *)
LEMMA FirstPlace ==
  ASSUME NEW n \in Nat, NEW I \in SUBSET (1 .. n),
         NEW i, i = IF I # {} THEN Min(I) ELSE 0
  PROVE  /\ i = 0 => I = {}
         /\ i # 0 => i \in I /\ i \in 1 .. n
<1>1. I # {} => Min(I) \in I
  BY MinPicks
<1>2. I # {} => i \in I /\ i # 0
  BY <1>1
<1> QED BY <1>2

LEMMA CurrentPlace ==
  ASSUME NEW L \in Seq(Imgs), NEW i, i = Current(L)
  PROVE  /\ i = 0 => \A e \in ToSet(L) : ~(e.last /\ e.valid)
         /\ i # 0 => /\ i \in 1 .. Len(L) /\ L[i] \in ToSet(L)
                     /\ L[i].last /\ L[i].valid
<1> DEFINE I == {j \in 1 .. Len(L) : L[j].last /\ L[j].valid}
<1>1. i = IF I # {} THEN Min(I) ELSE 0
  BY DEF Current, SelectInSeq
<1>2. Len(L) \in Nat /\ I \in SUBSET (1 .. Len(L))
  OBVIOUS
<1>3. /\ i = 0 => I = {}
      /\ i # 0 => i \in I /\ i \in 1 .. Len(L)
  <2> HIDE DEF I
  <2> QED BY <1>1, <1>2, FirstPlace
<1>4. i = 0 => \A e \in ToSet(L) : ~(e.last /\ e.valid)
  BY <1>3, ToSetIn
<1>5. i # 0 => L[i] \in ToSet(L)
  BY <1>3, ToSetIn
<1> QED BY <1>3, <1>4, <1>5

LEMMA LastPlace ==
  ASSUME NEW L \in Seq(Imgs), NEW i, i = SelectInSeq(L, LAMBDA e : e.last)
  PROVE  /\ i = 0 => \A e \in ToSet(L) : ~e.last
         /\ i # 0 => i \in 1 .. Len(L) /\ L[i] \in ToSet(L) /\ L[i].last
<1> DEFINE I == {j \in 1 .. Len(L) : L[j].last}
<1>1. i = IF I # {} THEN Min(I) ELSE 0
  BY DEF SelectInSeq
<1>2. Len(L) \in Nat /\ I \in SUBSET (1 .. Len(L))
  OBVIOUS
<1>3. /\ i = 0 => I = {}
      /\ i # 0 => i \in I /\ i \in 1 .. Len(L)
  <2> HIDE DEF I
  <2> QED BY <1>1, <1>2, FirstPlace
<1>4. i = 0 => \A e \in ToSet(L) : ~e.last
  BY <1>3, ToSetIn
<1>5. i # 0 => L[i] \in ToSet(L)
  BY <1>3, ToSetIn
<1> QED BY <1>3, <1>4, <1>5

LEMMA AtPlace ==
  ASSUME NEW L \in Seq(Imgs), NEW v, NEW i, i = At(L, v)
  PROVE  /\ i = 0 => \A e \in ToSet(L) : e.version # v
         /\ i # 0 => i \in 1 .. Len(L) /\ L[i] \in ToSet(L) /\ L[i].version = v
<1> DEFINE I == {j \in 1 .. Len(L) : L[j].version = v}
<1>1. i = IF I # {} THEN Min(I) ELSE 0
  BY DEF At, SelectInSeq
<1>2. Len(L) \in Nat /\ I \in SUBSET (1 .. Len(L))
  OBVIOUS
<1>3. /\ i = 0 => I = {}
      /\ i # 0 => i \in I /\ i \in 1 .. Len(L)
  <2> HIDE DEF I
  <2> QED BY <1>1, <1>2, FirstPlace
<1>4. i = 0 => \A e \in ToSet(L) : e.version # v
  BY <1>3, ToSetIn
<1>5. i # 0 => L[i] \in ToSet(L)
  BY <1>3, ToSetIn
<1> QED BY <1>3, <1>4, <1>5

LEMMA OfPlace ==
  ASSUME NEW Q \in Seq(Queued), ByKey(ToSet(Q)),
         NEW q \in ToSet(Q), NEW i, i = Of(Q, q.key)
  PROVE  i \in 1 .. Len(Q) /\ Q[i] = q
<1> DEFINE I == {j \in 1 .. Len(Q) : Q[j].key = q.key}
<1>1. i = IF I # {} THEN Min(I) ELSE 0
  BY DEF Of, SelectInSeq
<1>2. Len(Q) \in Nat /\ I \in SUBSET (1 .. Len(Q))
  OBVIOUS
<1>3. I # {}
  BY ToSetIn
<1>4. i \in I
  <2> HIDE DEF I
  <2>1. Min(I) \in I
    BY <1>2, <1>3, MinPicks
  <2> QED BY <1>1, <1>3, <2>1
<1>5. Q[i] \in ToSet(Q)
  BY <1>4, ToSetIn
<1> QED BY <1>4, <1>5 DEF ByKey

\* An entry of the list, or a client, gives way to another.
LEMMA ReplaceEntry ==
  ASSUME NEW L \in Seq(Imgs), IsInjective(L),
         ByVersion(ToSet(L)),
         NEW i \in 1 .. Len(L), NEW f \in Imgs, f.version = L[i].version,
         NEW k, Replaces(k, L, i, f)
  PROVE  /\ k \in Seq(Imgs) /\ IsInjective(k) /\ Len(k) = Len(L)
         /\ L[i] \in ToSet(L) /\ L[i] \in Imgs
         /\ ToSet(k) = (ToSet(L) \ {L[i]}) \cup {f}
<1>1. L[i] \in ToSet(L) /\ L[i] \in Imgs
  BY ToSetIn
<1>2. f \notin ToSet(L) \ {L[i]}
  BY <1>1 DEF ByVersion
<1>3. /\ k \in Seq(Imgs) /\ IsInjective(k) /\ Len(k) = Len(L)
      /\ ToSet(k) = (ToSet(L) \ {L[i]}) \cup {f}
  BY <1>2, ReplaceOnce
<1> QED BY <1>1, <1>3

LEMMA ReplaceClient ==
  ASSUME NEW Q \in Seq(Queued), IsInjective(Q),
         ByKey(ToSet(Q)),
         NEW q \in ToSet(Q), NEW i, i = Of(Q, q.key),
         NEW r \in Queued, r.key = q.key, NEW k, Replaces(k, Q, i, r)
  PROVE  /\ k \in Seq(Queued) /\ IsInjective(k)
         /\ ToSet(k) = (ToSet(Q) \ {q}) \cup {r}
<1>1. i \in 1 .. Len(Q) /\ Q[i] = q
  BY OfPlace
<1>2. r \notin ToSet(Q) \ {Q[i]}
  BY <1>1 DEF ByKey
<1>3. i \in 1 .. Len(Q)
  BY <1>1
<1>4. /\ k \in Seq(Queued) /\ IsInjective(k)
      /\ ToSet(k) = (ToSet(Q) \ {Q[i]}) \cup {r}
  BY <1>2, <1>3, ReplaceOnce
<1> QED BY <1>1, <1>4

\* a_Dicache_unref: no entry has version 0; otherwise a reference goes.
LEMMA UnrefNone ==
  ASSUME NEW L \in Seq(Imgs)
  PROVE  a_Dicache_unref(L, 0) = L
<1> DEFINE i == At(L, 0)
<1>1. \A e \in ToSet(L) : e.version # 0
  <2>1. ToSet(L) \subseteq Imgs
    BY ToSetIn
  <2> QED BY <2>1, ImgFields
<1>2. i = 0
  BY <1>1, AtPlace
<1> QED BY <1>2 DEF a_Dicache_unref

Unreferred(e) == [e EXCEPT !.RefCount = @ - 1]

LEMMA UnrefEntry ==
  ASSUME NEW L \in Seq(Imgs), IsInjective(L),
         ByVersion(ToSet(L)),
         NEW e \in ToSet(L), e.RefCount # 0,
         NEW f, f = Unreferred(e),
         NEW k, k = a_Dicache_unref(L, e.version)
  PROVE  /\ k \in Seq(Imgs) /\ IsInjective(k)
         /\ ToSet(k) = Without(ToSet(L), e, f)
<1> DEFINE i == At(L, e.version)
           n == IF L[i].RefCount > 0 THEN L[i].RefCount - 1 ELSE 0
<1>1. i \in 1 .. Len(L) /\ L[i] = e
  <2>1. /\ i = 0 => \A x \in ToSet(L) : x.version # e.version
        /\ i # 0 => i \in 1 .. Len(L) /\ L[i] \in ToSet(L) /\ L[i].version = e.version
    <3> HIDE DEF i
    <3> QED BY AtPlace DEF i
  <2> QED BY <2>1 DEF ByVersion
<1>2. k = IF n = 0 /\ ~L[i].imgbuf THEN RemoveAt(L, i)
          ELSE [L EXCEPT ![i] = [L[i] EXCEPT !.RefCount = n]]
  BY <1>1 DEF a_Dicache_unref
<1> HIDE DEF i
<1>3. e \in Imgs /\ e.RefCount \in Nat
  <2>1. e \in Imgs
    BY ToSetIn
  <2> QED BY <2>1, ImgFields
<1>4. n = e.RefCount - 1 /\ n \in Nat
  BY <1>1, <1>3
<1>5. f = [L[i] EXCEPT !.RefCount = n]
  BY <1>1, <1>4 DEF Unreferred
<1> HIDE DEF n
<1>6. f \in Imgs /\ f.version = e.version /\ f.RefCount = n /\ f.imgbuf = e.imgbuf
  BY <1>1, <1>3, <1>4, <1>5 DEF Imgs
<1>7. CASE n = 0 /\ ~e.imgbuf
  <2>1. k = RemoveAt(L, i)
    BY <1>1, <1>2, <1>7
  <2>2. /\ RemoveAt(L, i) \in Seq(Imgs) /\ IsInjective(RemoveAt(L, i))
        /\ ToSet(RemoveAt(L, i)) = ToSet(L) \ {L[i]}
    BY <1>1, RemoveOnce
  <2> QED BY <1>1, <1>6, <1>7, <2>1, <2>2 DEF Without
<1>8. CASE ~(n = 0 /\ ~e.imgbuf)
  <2>1. Replaces(k, L, i, f)
    BY <1>1, <1>2, <1>5, <1>8 DEF Replaces
  <2>2. /\ k \in Seq(Imgs) /\ IsInjective(k)
        /\ ToSet(k) = (ToSet(L) \ {L[i]}) \cup {f}
    <3>1. i \in 1 .. Len(L) /\ f \in Imgs /\ f.version = L[i].version
      BY <1>1, <1>6
    <3> QED BY <3>1, <2>1, ReplaceEntry
  <2> QED BY <1>1, <1>6, <1>8, <2>2 DEF Without
<1> QED BY <1>7, <1>8

(* A client leaves the queue: its page, and the decoder that has its       *)
(* DilloImage.                                                             *)
Unlinked(e, k) == IF e.Image = k THEN [e EXCEPT !.Image = Freed] ELSE e

LEMMA UnlinkedAlike ==
  ASSUME NEW e \in Imgs, NEW k
  PROVE  Alike(e, Unlinked(e, k))
<1> SUFFICES ASSUME NEW f, f = Unlinked(e, k) PROVE Alike(e, f)
  OBVIOUS
<1>1. CASE e.Image = k
  <2>1. f = [e EXCEPT !.Image = Freed]
    BY <1>1 DEF Unlinked
  <2> QED BY <2>1 DEF Imgs, Alike
<1>2. CASE e.Image # k
  BY <1>2 DEF Unlinked, Alike
<1> QED BY <1>1, <1>2

Unlinks(k, L, c) ==
  k = [i \in DOMAIN L |-> IF L[i].Image = c THEN [L[i] EXCEPT !.Image = Freed]
                          ELSE L[i]]

LEMMA UnlinkedList ==
  ASSUME NEW L \in Seq(Imgs), IsInjective(L),
         ByVersion(ToSet(L)), NEW c,
         NEW k, Unlinks(k, L, c)
  PROVE  /\ k \in Seq(Imgs) /\ IsInjective(k)
         /\ ToSet(k) = {Unlinked(e, c) : e \in ToSet(L)}
<1> DEFINE F == [e \in Imgs |-> Unlinked(e, c)]
<1>1. \A e \in Imgs : Alike(e, Unlinked(e, c))
  BY UnlinkedAlike
<1>2. F \in [Imgs -> Imgs]
  BY <1>1 DEF Alike
<1>3. ToSet(L) \subseteq Imgs
  BY ToSetIn
<1>4. \A x, y \in ToSet(L) : F[x] = F[y] => x = y
  BY <1>1, <1>3 DEF Alike, ByVersion
<1>5. \A i \in DOMAIN L : L[i] \in Imgs
  OBVIOUS
<1>6. Maps(k, L, F, Imgs, Imgs)
  <2>1. k = [i \in DOMAIN L |-> F[L[i]]]
    BY <1>5 DEF Unlinked, Unlinks
  <2> QED BY <1>2, <2>1 DEF Maps
<1>7. {F[x] : x \in ToSet(L)} = {Unlinked(e, c) : e \in ToSet(L)}
  BY <1>3
<1> HIDE DEF F
<1>8. /\ k \in Seq(Imgs) /\ IsInjective(k)
      /\ ToSet(k) = {F[x] : x \in ToSet(L)}
  BY <1>4, <1>6, MapOnce
<1> QED BY <1>7, <1>8

LeftPage(p, how) ==
  [p EXCEPT !.at = how, !.drawn = IF how = "stopped" THEN Blank ELSE @]

(* A client leaves the rest of the state as it is.                         *)
LeftOnly(S, V, c, how) ==
  /\ V.entry = S.entry /\ V.size = S.size /\ V.delayed = S.delayed
  /\ ToSet(V.queue) = {q \in ToSet(S.queue) : q.key # c}
  /\ V.page = WithPage(S.page, c, LeftPage(S.page[c], how))
  /\ \A f \in ToSet(V.imgs) : \E e \in ToSet(S.imgs) : f.version = e.version

LEMMA LeftPageFields ==
  ASSUME NEW p \in Pages, NEW how \in {"done", "stopped"},
         NEW p2, p2 = LeftPage(p, how)
  PROVE  /\ p2 \in Pages /\ p2.at = how /\ p2.shows = p.shows
         /\ how = "done" => p2.drawn = p.drawn
<1>1. Blank \in Content
  BY BoundAssumption DEF Blank, Content
<1> QED BY <1>1 DEF Pages, LeftPage

LEMMA DequeueSound ==
  ASSUME NEW S, Listed(S), NEW c \in Clients, NEW how \in {"done", "stopped"},
         NEW X, NEW Todo,
         Good(ToSet(S.imgs), {q \in ToSet(S.queue) : q.key # c},
              WithPage(S.page, c, LeftPage(S.page[c], how)), S.size,
              Complete(S), X, Todo),
         NEW V, V = Dequeue(S, c, how)
  PROVE  Sound(V, X, Todo) /\ LeftOnly(S, V, c, how)
<1> DEFINE E == ToSet(S.imgs)
           Q == {q \in ToSet(S.queue) : q.key # c}
           pg == WithPage(S.page, c, LeftPage(S.page[c], how))
           kq == Keep(S.queue, Q)
           ke == [i \in DOMAIN S.imgs |->
                    IF S.imgs[i].Image = c
                    THEN [S.imgs[i] EXCEPT !.Image = Freed] ELSE S.imgs[i]]
<1>1. S \in DState /\ S.reused = FALSE /\ IsInjective(S.imgs) /\ IsInjective(S.queue)
  BY DEF Listed
<1>2. /\ S.imgs \in Seq(Imgs) /\ S.queue \in Seq(Queued)
      /\ S.page \in [Clients -> Pages] /\ E \subseteq Imgs
  BY <1>1, Fields
<1>3. kq \in Seq(Queued) /\ ToSet(kq) = Q /\ IsInjective(kq)
  <2>1. ToSet(kq) = ToSet(S.queue) \cap Q /\ kq \in Seq(Queued)
    BY <1>2, KeepProperties
  <2>2. IsInjective(kq)
    BY <1>1, <1>2, KeepOnce
  <2> QED BY <2>1, <2>2
<1>4. ByVersion(E)
  BY DEF Good, SoundEntries, ByVersion
<1>5. /\ ke \in Seq(Imgs) /\ IsInjective(ke)
      /\ ToSet(ke) = {Unlinked(e, c) : e \in E}
  <2>1. Unlinks(ke, S.imgs, c)
    BY DEF Unlinks
  <2> HIDE DEF ke, E
  <2> QED BY <1>1, <1>2, <1>4, <2>1, UnlinkedList DEF E
<1>6. pg \in [Clients -> Pages]
  <2>1. S.page[c] \in Pages
    BY <1>2
  <2>2. LeftPage(S.page[c], how) \in Pages
    BY <2>1, LeftPageFields
  <2> QED BY <1>2, <2>2 DEF WithPage
<1>7. V = [S EXCEPT !.queue = kq, !.imgs = ke, !.page[c].at = how,
                    !.page[c].drawn = IF how = "stopped" THEN Blank ELSE @]
  BY DEF Dequeue
<1> HIDE DEF kq, ke
<1>8. /\ V.imgs = ke /\ V.queue = kq /\ V.reused = FALSE
      /\ V.entry = S.entry /\ V.size = S.size /\ V.delayed = S.delayed
      /\ V = [S EXCEPT !.queue = kq, !.imgs = ke, !.page = V.page]
  BY <1>1, <1>7 DEF DState
<1>9. V.page = pg
  <2>1. V.page = [[S.page EXCEPT ![c].at = how] EXCEPT
                    ![c].drawn = IF how = "stopped" THEN Blank ELSE @]
    BY <1>1, <1>7 DEF DState
  <2>2. [[S.page EXCEPT ![c].at = how] EXCEPT
          ![c].drawn = IF how = "stopped" THEN Blank ELSE @] = pg
    BY <1>2 DEF LeftPage, WithPage
  <2> QED BY <2>1, <2>2
<1>10. V \in DState
  <2> HIDE DEF pg
  <2> QED BY <1>1, <1>3, <1>5, <1>6, <1>8, <1>9 DEF DState
<1>11. Good(ToSet(ke), Q, pg, S.size, Complete(S), X, Todo)
  <2> HIDE DEF E, Q, pg
  <2>1. \A f \in ToSet(ke) : \E e \in E : Alike(e, f)
    BY <1>2, <1>5, UnlinkedAlike
  <2>2. \A e \in E : \E f \in ToSet(ke) : Alike(e, f)
    BY <1>2, <1>5, UnlinkedAlike
  <2>3. \A f, g \in ToSet(ke) : f.version = g.version => f = g
    <3> SUFFICES ASSUME NEW d \in E, NEW e \in E,
                        Unlinked(d, c).version = Unlinked(e, c).version
                 PROVE  Unlinked(d, c) = Unlinked(e, c)
      BY <1>5
    <3>1. Alike(d, Unlinked(d, c)) /\ Alike(e, Unlinked(e, c))
      BY <1>2, UnlinkedAlike
    <3>2. d = e
      BY <3>1, <1>4 DEF Alike, ByVersion
    <3> QED BY <3>2
  <2>4. Good(E, Q, pg, S.size, Complete(S), X, Todo)
    BY DEF E, Q, pg
  <2> QED BY <2>1, <2>2, <2>3, <2>4, AlikeEntries
<1>12. \A f \in ToSet(ke) : \E e \in E : f.version = e.version
  BY <1>2, <1>5, UnlinkedAlike DEF Alike
<1>13. Listed(V)
  BY <1>3, <1>5, <1>8, <1>10 DEF Listed
<1>14. Sound(V, X, Todo)
  <2>1. Complete(V) = Complete(S)
    BY <1>8 DEF Complete
  <2> QED BY <1>3, <1>8, <1>9, <1>11, <1>13, <2>1 DEF Sound
<1> QED BY <1>3, <1>8, <1>9, <1>12, <1>14 DEF LeftOnly

(***************************************************************************)
(* A client is stopped.                                                    *)
(***************************************************************************)
LEMMA SoundFacts ==
  ASSUME NEW S, NEW X, NEW Todo, Sound(S, X, Todo)
  PROVE  /\ S \in DState /\ S.reused = FALSE
         /\ IsInjective(S.imgs) /\ IsInjective(S.queue)
         /\ ByVersion(ToSet(S.imgs)) /\ ByKey(ToSet(S.queue))
         /\ \A q \in ToSet(S.queue) :
              q \in Queued /\ q.key \in Clients /\ ClientOK(q, S.page[q.key])
         /\ Good(ToSet(S.imgs), ToSet(S.queue), S.page, S.size,
                 Complete(S), X, Todo)
<1>1. /\ S \in DState /\ S.reused = FALSE
      /\ IsInjective(S.imgs) /\ IsInjective(S.queue)
      /\ Good(ToSet(S.imgs), ToSet(S.queue), S.page, S.size,
              Complete(S), X, Todo)
  BY DEF Sound, Listed
<1>2. SoundEntries(ToSet(S.imgs)) /\ SoundClients(ToSet(S.queue), S.page)
  BY <1>1 DEF Good
<1>3. ByVersion(ToSet(S.imgs))
  BY <1>2 DEF SoundEntries, ByVersion
<1>4. ByKey(ToSet(S.queue))
  BY <1>2 DEF SoundClients, ByKey
<1>5. \A q \in ToSet(S.queue) :
        q \in Queued /\ q.key \in Clients /\ ClientOK(q, S.page[q.key])
  BY <1>2, QueuedFields DEF SoundClients
<1> QED BY <1>1, <1>3, <1>4, <1>5

\* The rest of the queue.
LEMMA Others ==
  ASSUME NEW Q, ByKey(Q), NEW q \in Q
  PROVE  {r \in Q : r.key # q.key} = Q \ {q}
BY DEF ByKey

\* A dispatched client has the version that is valid.
LEMMA CalledEntry ==
  ASSUME NEW E, NEW Q, NEW pg, NEW n, NEW complete, NEW X, NEW Todo,
         Good(E, Q, pg, n, complete, X, Todo), NEW q \in Q, q.Callback
  PROVE  \E e \in E : /\ e.valid /\ e.RefCount # 0
                      /\ Joined(e, q, pg[q.key], n, complete, X, Todo)
<1>1. /\ SoundClients(Q, pg)
      /\ Called(Q) # {} => \E e \in E : e.valid
      /\ \A e \in E : e.valid => e.RefCount = Cardinality(Called(Q))
      /\ \A e \in E : e.valid => Joined(e, q, pg[q.key], n, complete, X, Todo)
  BY DEF Good
<1>2. q \in Called(Q) /\ Cardinality(Called(Q)) \in Nat \ {0}
  BY <1>1, CalledLess
<1>3. PICK e \in E : e.valid
  BY <1>1, <1>2
<1>4. e.RefCount # 0
  BY <1>1, <1>2, <1>3
<1> QED BY <1>1, <1>3, <1>4

LEMMA ReleasedIs ==
  ASSUME NEW e \in Imgs
  PROVE  Released(e, FALSE) = Unreferred(e)
<1>1. [e EXCEPT !.State = e.State] = e
  BY DEF Imgs
<1> QED BY <1>1 DEF Released, Unreferred

LEMMA WithoutVersions ==
  ASSUME NEW E, NEW e \in E, NEW f, f.version = e.version, NEW g \in Without(E, e, f)
  PROVE  \E h \in E : g.version = h.version
BY DEF Without

Stopped(S, V, q) ==
  /\ V.entry = S.entry /\ V.size = S.size
  /\ ToSet(V.queue) = ToSet(S.queue) \ {q}
  /\ \A c \in Clients : c # q.key => V.page[c] = S.page[c]
  /\ \A f \in ToSet(V.imgs) : \E e \in ToSet(S.imgs) : f.version = e.version

(* a_Cache_stop_client: a client that was dispatched gives its reference   *)
(* back, any client goes.                                                  *)
LEMMA StopSound ==
  ASSUME NEW S, NEW Todo, Sound(S, {}, Todo), NEW q \in ToSet(S.queue),
         NEW V, V = a_Cache_stop_client(S, q.key)
  PROVE  Sound(V, {}, Todo \ {q.key}) /\ Stopped(S, V, q)
<1> DEFINE L == a_Dicache_unref(S.imgs, q.Version)
           T == [S EXCEPT !.imgs = L, !.delayed = FALSE]
           E == ToSet(S.imgs)
           Q == ToSet(S.queue)
           p == LeftPage(S.page[q.key], "stopped")
           After(D) == Good(D, Q \ {q}, WithPage(S.page, q.key, p), S.size,
                           Complete(S), {}, Todo \ {q.key})
<1>1. /\ S \in DState /\ S.reused = FALSE
      /\ IsInjective(S.imgs) /\ IsInjective(S.queue)
      /\ ByVersion(E) /\ ByKey(Q) /\ q \in Q
      /\ q \in Queued /\ q.key \in Clients /\ ClientOK(q, S.page[q.key])
      /\ Good(E, Q, S.page, S.size, Complete(S), {}, Todo)
  BY SoundFacts
<1>2. /\ S.imgs \in Seq(Imgs) /\ S.queue \in Seq(Queued) /\ E \subseteq Imgs
      /\ S.page \in [Clients -> Pages]
  BY <1>1, Fields
<1>3. V = Dequeue(T, q.key, "stopped")
  <2>1. S.queue[Of(S.queue, q.key)] = q
    BY <1>1, <1>2, OfPlace
  <2> QED BY <2>1 DEF a_Cache_stop_client
<1>4. p \in Pages /\ p.shows = S.page[q.key].shows /\ p.at = "stopped"
  <2>1. S.page[q.key] \in Pages
    BY <1>1, <1>2
  <2> QED BY <2>1, LeftPageFields
<1> HIDE DEF p
<1>5. /\ L \in Seq(Imgs) /\ IsInjective(L) /\ After(ToSet(L))
      /\ \A f \in ToSet(L) : \E e \in E : f.version = e.version
  <2>1. CASE q.Callback
    <3>1. PICK e \in E : /\ e.valid /\ e.RefCount # 0
                         /\ Joined(e, q, S.page[q.key], S.size,
                                   Complete(S), {}, Todo)
      BY <1>1, <2>1, CalledEntry
    <3>2. q.Version = e.version
      BY <3>1 DEF Joined
    <3>3. e \in Imgs
      BY <1>2
    <3>4. /\ L \in Seq(Imgs) /\ IsInjective(L)
          /\ ToSet(L) = Without(E, e, Unreferred(e))
      BY <1>1, <1>2, <3>1, <3>2, UnrefEntry
    <3>5. Unreferred(e).version = e.version
      BY <3>3 DEF Imgs, Unreferred
    <3>6. Complete(S) \in BOOLEAN
      BY DEF Complete
    <3>7. ASSUME NEW X, X = {}, NEW pg, pg = S.page, NEW n, n = S.size,
                 NEW complete, complete = Complete(S), NEW closing, closing = FALSE,
                 NEW f, f = Released(e, closing)
          PROVE  Good(Without(E, e, f), Q \ {q}, WithPage(pg, q.key, p), n, complete,
                      X \ {q.key}, Todo \ {q.key})
      <4>1. CanLeave(E, Q, pg, n, complete, X, Todo, q, e, closing, f, p)
        BY <1>1, <1>4, <2>1, <3>1, <3>6, <3>7 DEF CanLeave, Leaves
      <4> HIDE DEF E, Q
      <4> QED BY <4>1, LeaveCalled
    <3>11. Released(e, FALSE) = Unreferred(e)
      BY <3>3, ReleasedIs
    <3>8. {} \ {q.key} = {}
      OBVIOUS
    <3>9. After(ToSet(L))
      <4> HIDE DEF E, Q, L
      <4> QED BY <3>4, <3>7, <3>8, <3>11
    <3>10. \A f \in ToSet(L) : \E h \in E : f.version = h.version
      <4> HIDE DEF L, E
      <4> QED BY <3>4, <3>5, WithoutVersions
    <3> QED BY <3>4, <3>9, <3>10
  <2>2. CASE ~q.Callback
    <3>1. L = S.imgs
      BY <1>1, <1>2, <2>2, UnrefNone DEF ClientOK
    <3>2. Good(E, Q \ {q}, WithPage(S.page, q.key, p), S.size,
               Complete(S), {} \ {q.key}, Todo \ {q.key})
      <4> HIDE DEF E, Q
      <4> QED BY <1>1, <1>4, <2>2, LeaveWaiting
    <3>3. {} \ {q.key} = {}
      OBVIOUS
    <3>4. After(E)
      <4> HIDE DEF E, Q, L
      <4> QED BY <3>2, <3>3
    <3> QED BY <1>1, <1>2, <3>1, <3>4
  <2> QED BY <2>1, <2>2
<1> HIDE DEF L
<1>6. /\ T.imgs = L /\ T.queue = S.queue /\ T.page = S.page /\ T.entry = S.entry
      /\ T.size = S.size /\ Listed(T)
  <2>1. T \in DState /\ T.reused = FALSE
    BY <1>1, <1>5 DEF DState
  <2>2. /\ T.imgs = L /\ T.queue = S.queue /\ T.page = S.page
        /\ T.entry = S.entry /\ T.size = S.size
    BY <1>1 DEF DState
  <2> QED BY <1>1, <1>5, <2>1, <2>2 DEF Listed
<1> HIDE DEF T
<1>7. {r \in ToSet(T.queue) : r.key # q.key} = Q \ {q}
  <2>1. {r \in Q : r.key # q.key} = Q \ {q}
    BY <1>1, Others
  <2> QED BY <1>6, <2>1
<1>8. Sound(V, {}, Todo \ {q.key}) /\ LeftOnly(T, V, q.key, "stopped")
  <2>1. Good(ToSet(T.imgs), {r \in ToSet(T.queue) : r.key # q.key},
             WithPage(T.page, q.key, LeftPage(T.page[q.key], "stopped")),
             T.size, Complete(T), {}, Todo \ {q.key})
    <3>1. After(ToSet(L))
      BY <1>5
    <3>2. Complete(T) = Complete(S)
      BY <1>6 DEF Complete
    <3> QED BY <1>6, <1>7, <3>1, <3>2 DEF p
  <2> QED BY <1>1, <1>3, <1>6, <2>1, DequeueSound
<1>9. Stopped(S, V, q)
  <2>1. V.page = WithPage(S.page, q.key, LeftPage(S.page[q.key], "stopped"))
    BY <1>6, <1>8 DEF LeftOnly
  <2>2. \A c \in Clients : c # q.key => V.page[c] = S.page[c]
    BY <1>2, <2>1 DEF WithPage
  <2>3. /\ V.entry = S.entry /\ V.size = S.size /\ ToSet(V.queue) = Q \ {q}
        /\ \A f \in ToSet(V.imgs) : \E e \in ToSet(L) : f.version = e.version
    BY <1>6, <1>7, <1>8 DEF LeftOnly
  <2>4. \A f \in ToSet(V.imgs) : \E e \in E : f.version = e.version
    BY <1>5, <2>3
  <2> QED BY <2>2, <2>3, <2>4 DEF Stopped
<1> QED BY <1>8, <1>9

(***************************************************************************)
(* A client is fed.                                                        *)
(***************************************************************************)
\* The fields of a state that a turn of the loop leaves alone.
Rest(S) == <<S.entry, S.size, S.delayed>>

Keys(S) == {q.key : q \in ToSet(S.queue)}

(* Close: the decoder ends, and the client leaves.                         *)
LEMMA CloseSound ==
  ASSUME NEW S, NEW X, NEW Todo, Sound(S, X, Todo), Complete(S),
         NEW q \in ToSet(S.queue), q.Callback, NEW V, V = Close(S, q.key)
  PROVE  /\ Sound(V, X \ {q.key}, Todo \ {q.key})
         /\ Rest(V) = Rest(S) /\ ToSet(V.queue) = ToSet(S.queue) \ {q}
<1> DEFINE i == Current(S.imgs)
           K == [S.imgs EXCEPT ![i].State = "Close"]
           L == a_Dicache_unref(K, S.imgs[i].version)
           T == [S EXCEPT !.imgs = L]
           E == ToSet(S.imgs)
           Q == ToSet(S.queue)
           p == LeftPage(S.page[q.key], "done")
           After(D) == Good(D, Q \ {q}, WithPage(S.page, q.key, p), S.size,
                            Complete(S), X \ {q.key}, Todo \ {q.key})
<1>1. /\ S \in DState /\ S.reused = FALSE
      /\ IsInjective(S.imgs) /\ IsInjective(S.queue)
      /\ ByVersion(E) /\ ByKey(Q) /\ q \in Q
      /\ q \in Queued /\ q.key \in Clients /\ ClientOK(q, S.page[q.key])
      /\ Good(E, Q, S.page, S.size, Complete(S), X, Todo)
  BY SoundFacts
<1>2. /\ S.imgs \in Seq(Imgs) /\ S.queue \in Seq(Queued) /\ E \subseteq Imgs
      /\ S.page \in [Clients -> Pages]
  BY <1>1, Fields
<1>3. PICK e \in E : /\ e.valid /\ e.RefCount # 0
                     /\ Joined(e, q, S.page[q.key], S.size, Complete(S), X, Todo)
  BY <1>1, CalledEntry
<1>4. e \in Imgs /\ e.last /\ \A f \in E : f.valid => f = e
  <2>1. SoundEntries(E)
    BY <1>1 DEF Good
  <2>2. \A f \in E : f.valid => f = e
    BY <1>3, <2>1, OneValid
  <2>3. e.last
    BY <1>3, <2>1 DEF SoundEntries, EntryOK
  <2> QED BY <1>2, <2>2, <2>3
<1>5. i \in 1 .. Len(S.imgs) /\ S.imgs[i] = e
  <2>1. /\ i = 0 => \A f \in E : ~(f.last /\ f.valid)
        /\ i # 0 => /\ i \in 1 .. Len(S.imgs) /\ S.imgs[i] \in E
                    /\ S.imgs[i].last /\ S.imgs[i].valid
    BY <1>2, CurrentPlace
  <2> QED BY <1>3, <1>4, <2>1
<1>6. V = Dequeue(T, q.key, "done")
  <2>1. i # 0
    BY <1>5
  <2> QED BY <2>1 DEF Close
<1> DEFINE f == [e EXCEPT !.State = "Close"]
<1>7. /\ f \in Imgs /\ f.version = e.version /\ f.RefCount = e.RefCount
      /\ Unreferred(f) = Released(e, TRUE)
      /\ Unreferred(f).version = e.version
  <2>1. f \in Imgs /\ f.version = e.version /\ f.RefCount = e.RefCount
    BY <1>4 DEF Imgs
  <2>2. Unreferred(f) = Released(e, TRUE)
    BY <1>4 DEF Imgs, Unreferred, Released
  <2>3. Unreferred(f).version = f.version
    <3> HIDE DEF f
    <3> QED BY <2>1 DEF Imgs, Unreferred
  <2> QED BY <2>1, <2>2, <2>3
<1>8. Replaces(K, S.imgs, i, f)
  <2>1. K = [S.imgs EXCEPT ![i] = [S.imgs[i] EXCEPT !.State = "Close"]]
    OBVIOUS
  <2> QED BY <1>5, <2>1 DEF Replaces
<1> HIDE DEF f, K
<1>9. /\ K \in Seq(Imgs) /\ IsInjective(K)
      /\ ToSet(K) = (E \ {e}) \cup {f} /\ ByVersion(ToSet(K))
  <2> HIDE DEF i
  <2>1. /\ K \in Seq(Imgs) /\ IsInjective(K)
        /\ ToSet(K) = (E \ {S.imgs[i]}) \cup {f}
    BY <1>1, <1>2, <1>5, <1>7, <1>8, ReplaceEntry
  <2>2. ByVersion((E \ {e}) \cup {f})
    <3> HIDE DEF E
    <3> QED BY <1>1, <1>7 DEF ByVersion
  <2> QED BY <1>5, <2>1, <2>2
<1>10. /\ L \in Seq(Imgs) /\ IsInjective(L)
       /\ ToSet(L) = Without(E, e, Released(e, TRUE))
  <2>1. L = a_Dicache_unref(K, f.version)
    BY <1>5, <1>7
  <2>2. f \in ToSet(K) /\ f.RefCount # 0
    BY <1>3, <1>7, <1>9
  <2>3. /\ L \in Seq(Imgs) /\ IsInjective(L)
        /\ ToSet(L) = Without(ToSet(K), f, Unreferred(f))
    <3> HIDE DEF L
    <3> QED BY <1>9, <2>1, <2>2, UnrefEntry
  <2>4. ToSet(K) \ {f} = E \ {e}
    <3>1. f \notin E \ {e}
      BY <1>1, <1>3, <1>7 DEF ByVersion
    <3> QED BY <1>9, <3>1
  <2> QED BY <1>7, <2>3, <2>4 DEF Without
<1>11. p \in Pages /\ p.shows = S.page[q.key].shows /\ p.at = "done"
       /\ p.drawn = S.page[q.key].drawn
  <2>1. S.page[q.key] \in Pages
    BY <1>1, <1>2
  <2> QED BY <2>1, LeftPageFields
<1> HIDE DEF p, L
<1>12. After(ToSet(L))
  <2>1. Good(Without(E, e, Released(e, TRUE)), Q \ {q},
             WithPage(S.page, q.key, p), S.size, Complete(S),
             X \ {q.key}, Todo \ {q.key})
    <3>1. Complete(S) \in BOOLEAN
      BY DEF Complete
    <3>2. ASSUME NEW closing \in BOOLEAN, closing = TRUE,
                 NEW g, g = Released(e, closing)
          PROVE  Good(Without(E, e, g), Q \ {q}, WithPage(S.page, q.key, p), S.size,
                      Complete(S), X \ {q.key}, Todo \ {q.key})
      <4>1. CanLeave(E, Q, S.page, S.size, Complete(S), X, Todo, q, e, closing, g, p)
        BY <1>1, <1>3, <1>11, <3>1, <3>2 DEF CanLeave, Leaves
      <4> HIDE DEF E, Q
      <4> QED BY <4>1, LeaveCalled
    <3> QED BY <3>2
  <2> HIDE DEF E, Q
  <2> QED BY <1>10, <2>1
<1>13. /\ T.imgs = L /\ T.queue = S.queue /\ T.page = S.page /\ T.entry = S.entry
       /\ T.size = S.size /\ T.delayed = S.delayed /\ Listed(T)
  <2>1. T \in DState /\ T.reused = FALSE
    BY <1>1, <1>10 DEF DState
  <2>2. /\ T.imgs = L /\ T.queue = S.queue /\ T.page = S.page
        /\ T.entry = S.entry /\ T.size = S.size /\ T.delayed = S.delayed
    BY <1>1 DEF DState
  <2> QED BY <1>1, <1>10, <2>1, <2>2 DEF Listed
<1> HIDE DEF T
<1>14. {r \in ToSet(T.queue) : r.key # q.key} = Q \ {q}
  <2>1. {r \in Q : r.key # q.key} = Q \ {q}
    BY <1>1, Others
  <2> QED BY <1>13, <2>1
<1>15. Sound(V, X \ {q.key}, Todo \ {q.key}) /\ LeftOnly(T, V, q.key, "done")
  <2>1. Good(ToSet(T.imgs), {r \in ToSet(T.queue) : r.key # q.key},
             WithPage(T.page, q.key, LeftPage(T.page[q.key], "done")),
             T.size, Complete(T), X \ {q.key}, Todo \ {q.key})
    <3>1. Complete(T) = Complete(S)
      BY <1>13 DEF Complete
    <3> QED BY <1>12, <1>13, <1>14, <3>1 DEF p
  <2> QED BY <1>1, <1>6, <1>13, <2>1, DequeueSound
<1> QED BY <1>13, <1>14, <1>15 DEF LeftOnly, Rest

(* A client is dispatched: the current version takes a reference.          *)
TakesReference(k, L, e) ==
  /\ k \in Seq(Imgs) /\ IsInjective(k)
  /\ ToSet(k) = (ToSet(L) \ {e}) \cup {Referred(e)}

LEMMA DistinctList ==
  ASSUME NEW L \in Seq(Imgs), IsInjective(L), ByVersion(ToSet(L))
  PROVE  Distinct(L)
<1>1. \A i, j \in DOMAIN L : L[i] = L[j] => i = j
  BY DEF IsInjective
<1>2. \A i \in DOMAIN L : L[i] \in ToSet(L)
  BY ToSetIn
<1> QED BY <1>1, <1>2 DEF Distinct, ByVersion

\* Changes of a list.
Increments(K, L, i) == K = [L EXCEPT ![i].RefCount = @ + 1]
Survives(k, L, i) == k = [L EXCEPT ![i].SurvCleanup = SurvPasses]
Outdates(k, L) == k = [j \in DOMAIN L |-> [L[j] EXCEPT !.last = FALSE]]

LEMMA CurrentReference ==
  ASSUME NEW L \in Seq(Imgs), IsInjective(L), ByVersion(ToSet(L)),
         SoundEntries(ToSet(L)), NEW i, i = Current(L), i # 0, NEW e, e = L[i],
         NEW K, Increments(K, L, i), NEW j, j = Current(K),
         NEW k, Survives(k, K, j)
  PROVE  /\ e \in ToSet(L) /\ e.valid
         /\ TakesReference(k, L, e) /\ Distinct(K)
         /\ K[j].State = e.State /\ K[j].version = e.version
<1> DEFINE E == ToSet(L)
           f0 == [e EXCEPT !.RefCount = @ + 1]
           f == Referred(e)
<1>1. i \in 1 .. Len(L) /\ e \in E /\ e.last /\ e.valid /\ e \in Imgs
  <2>1. i \in 1 .. Len(L) /\ L[i] \in E /\ L[i].last /\ L[i].valid
    BY CurrentPlace
  <2> QED BY <2>1, ToSetIn
<1>2. /\ f0 \in Imgs /\ f0.version = e.version /\ f0.last = e.last
      /\ f0.valid = e.valid /\ f0.State = e.State
  <2>1. e.RefCount + 1 \in Nat
    BY <1>1, ImgFields
  <2> QED BY <1>1, <2>1 DEF Imgs
<1>3. f \in Imgs /\ f.version = e.version /\ [f0 EXCEPT !.SurvCleanup = SurvPasses] = f
  <2>1. e.RefCount + 1 \in Nat /\ SurvPasses \in 0 .. SurvPasses
    BY <1>1, ImgFields, BoundAssumption
  <2> QED BY <1>1, <2>1 DEF Imgs, Referred
<1>4. Replaces(K, L, i, f0)
  <2>1. K = [L EXCEPT ![i] = [L[i] EXCEPT !.RefCount = @ + 1]]
    BY DEF Increments
  <2> QED BY <2>1 DEF Replaces
<1> HIDE DEF f0, f
<1>5. /\ K \in Seq(Imgs) /\ IsInjective(K) /\ Len(K) = Len(L)
      /\ ToSet(K) = (E \ {e}) \cup {f0}
  <2>1. L[i] = e
    OBVIOUS
  <2> HIDE DEF E
  <2> QED BY <1>1, <1>2, <1>4, <2>1, ReplaceEntry DEF E
<1>6. ByVersion(ToSet(K))
  <2> HIDE DEF E
  <2>1. ByVersion(E)
    BY DEF E
  <2> QED BY <1>1, <1>2, <1>5, <2>1 DEF ByVersion
<1>7. Distinct(K)
  BY <1>5, <1>6, DistinctList
<1>8. j = i
  <2>1. f0 \in ToSet(K) /\ f0.last /\ f0.valid
    BY <1>1, <1>2, <1>5
  <2>2. j \in 1 .. Len(K) /\ K[j] \in ToSet(K) /\ K[j].last
    BY <1>5, <2>1, CurrentPlace
  <2>3. K[j] = f0
    <3>1. K[j] = f0 \/ (K[j] \in E /\ K[j] # e)
      BY <1>5, <2>2
    <3>2. K[j] \in E => K[j] = e
      BY <1>1, <2>2 DEF SoundEntries
    <3> QED BY <3>1, <3>2
  <2>4. K[i] = f0
    BY <1>1, <1>4 DEF Replaces
  <2>5. DOMAIN K = 1 .. Len(L)
    BY <1>5
  <2> QED BY <1>1, <1>5, <2>2, <2>3, <2>4, <2>5 DEF IsInjective
<1>9. K[j] = f0
  BY <1>1, <1>4, <1>8 DEF Replaces
<1>10. Replaces(k, L, i, f)
  <2>1. k = [K EXCEPT ![i] = f]
    <3>1. k = [K EXCEPT ![i] = [K[i] EXCEPT !.SurvCleanup = SurvPasses]]
      BY <1>8 DEF Survives
    <3> QED BY <1>3, <1>8, <1>9, <3>1
  <2>2. K = [L EXCEPT ![i] = f0]
    BY <1>4 DEF Replaces
  <2>3. k = [L EXCEPT ![i] = f]
    BY <1>1, <2>1, <2>2
  <2> QED BY <2>3 DEF Replaces
<1>11. /\ k \in Seq(Imgs) /\ IsInjective(k)
       /\ ToSet(k) = (E \ {e}) \cup {f}
  <2>1. L[i] = e
    OBVIOUS
  <2> HIDE DEF E
  <2> QED BY <1>1, <1>3, <1>10, <2>1, ReplaceEntry DEF E
<1>12. TakesReference(k, L, e)
  BY <1>11 DEF TakesReference, f
<1> QED BY <1>1, <1>2, <1>7, <1>9, <1>12

(* ... or there is a new version; its number may be taken.                 *)
TakesNew(k, L, v, c) ==
  /\ k \in Seq(Imgs) /\ IsInjective(k)
  /\ ToSet(k) = {Older(e) : e \in ToSet(L)} \cup {NewVersion(v, c)}

LEMMA OlderList ==
  ASSUME NEW L \in Seq(Imgs), IsInjective(L), ByVersion(ToSet(L)),
         NEW k, Outdates(k, L)
  PROVE  /\ k \in Seq(Imgs) /\ IsInjective(k) /\ Len(k) = Len(L)
         /\ ToSet(k) = {Older(e) : e \in ToSet(L)}
         /\ \A f \in ToSet(k) : f.last = FALSE
         /\ \A i \in 1 .. Len(L) : k[i].version = L[i].version
<1> DEFINE F == [e \in Imgs |-> Older(e)]
<1>1. \A e \in Imgs : /\ Older(e) \in Imgs /\ Older(e).version = e.version
                      /\ Older(e).last = FALSE
  BY DEF Imgs, Older
<1>2. \A i \in DOMAIN L : L[i] \in Imgs
  OBVIOUS
<1>3. Maps(k, L, F, Imgs, Imgs)
  <2>1. F \in [Imgs -> Imgs]
    BY <1>1
  <2>2. k = [i \in DOMAIN L |-> F[L[i]]]
    <3>1. \A i \in DOMAIN L : F[L[i]] = [L[i] EXCEPT !.last = FALSE]
      BY <1>2 DEF Older
    <3> QED BY <3>1 DEF Outdates
  <2> QED BY <2>1, <2>2 DEF Maps
<1>4. \A x \in ToSet(L) : x \in Imgs
  BY ToSetIn
<1>5. \A x, y \in ToSet(L) : F[x] = F[y] => x = y
  BY <1>1, <1>4 DEF ByVersion
<1>6. Len(k) = Len(L) /\ \A i \in 1 .. Len(L) : k[i].version = L[i].version
  <2>1. DOMAIN k = 1 .. Len(L) /\ Len(L) \in Nat
    BY DEF Outdates
  <2>2. k \in Seq(Imgs)
    <3> HIDE DEF F
    <3> QED BY <1>3, <1>5, MapOnce
  <2>3. Len(k) = Len(L)
    BY <2>1, <2>2
  <2>4. \A i \in 1 .. Len(L) : k[i] = Older(L[i])
    <3> HIDE DEF F
    <3>0. DOMAIN L = 1 .. Len(L)
      OBVIOUS
    <3>1. \A i \in 1 .. Len(L) : k[i] = [L[i] EXCEPT !.last = FALSE]
      BY <3>0 DEF Outdates
    <3> QED BY <3>1 DEF Older
  <2> QED BY <2>3, <2>4, <1>1, <1>2
<1>7. k \in Seq(Imgs) /\ IsInjective(k) /\ ToSet(k) = {F[x] : x \in ToSet(L)}
  <2> HIDE DEF F
  <2> QED BY <1>3, <1>5, MapOnce
<1>8. {F[x] : x \in ToSet(L)} = {Older(e) : e \in ToSet(L)}
  BY <1>4
<1> HIDE DEF F
<1>9. \A f \in ToSet(k) : f.last = FALSE
  <2>1. \A f \in ToSet(k) : \E e \in ToSet(L) : f = Older(e)
    BY <1>7, <1>8
  <2> QED BY <2>1, <1>1, <1>4
<1> QED BY <1>6, <1>7, <1>8, <1>9

LEMMA NewReference ==
  ASSUME NEW L \in Seq(Imgs), IsInjective(L), ByVersion(ToSet(L)),
         SoundEntries(ToSet(L)), Current(L) = 0, NEW c \in Clients,
         NEW K, K = Dicache_add_entry(L, c), NEW j, j = Current(K),
         NEW k, Survives(k, K, j)
  PROVE  /\ \A e \in ToSet(L) : ~e.valid
         /\ \E v \in 1 .. MaxVersion :
              \/ ~Distinct(K)
              \/ /\ \A e \in ToSet(L) : e.version # v
                 /\ TakesNew(k, L, v, c) /\ Distinct(K)
                 /\ K[j].State = "Empty" /\ K[j].version = v
<1> DEFINE E == ToSet(L)
           l == SelectInSeq(L, LAMBDA e : e.last)
           v == IF l = 0 THEN 1 ELSE L[l].version + 1
           M == [i \in DOMAIN L |-> [L[i] EXCEPT !.last = FALSE]]
           N == [NewEntry EXCEPT !.version = v, !.Image = c]
           f == NewVersion(v, c)
           n == Len(L) + 1
<1>1. \A e \in E : ~e.valid
  <2>1. \A e \in E : ~(e.last /\ e.valid)
    BY CurrentPlace
  <2> QED BY <2>1 DEF SoundEntries, EntryOK
<1>2. v \in 1 .. MaxVersion
  <2>1. CASE l = 0
    BY <2>1, BoundAssumption
  <2>2. CASE l # 0
    <3>1. L[l] \in E /\ L[l].last
      BY <2>2, LastPlace
    <3>2. L[l] \in Imgs /\ L[l].version < MaxVersion
      BY <1>1, <3>1 DEF SoundEntries, EntryOK
    <3>3. L[l].version \in 1 .. MaxVersion
      BY <3>2, ImgFields
    <3> HIDE DEF l
    <3> QED BY <2>2, <3>2, <3>3, BoundAssumption
  <2> QED BY <2>1, <2>2
<1>3. K = Append(M, N)
  BY DEF Dicache_add_entry
<1> HIDE DEF v
<1>4. /\ N \in Imgs /\ N.version = v /\ N.last = TRUE /\ N.valid = TRUE
      /\ N.State = "Empty"
  <2>1. Blank \in Content /\ 0 \in 0 .. MaxScan /\ 0 \in 0 .. MaxData
        /\ 0 \in 0 .. SurvPasses
    BY BoundAssumption DEF Blank, Content
  <2> QED BY <1>2, <2>1, ZenonT(60) DEF Imgs, NewEntry
<1>5. f \in Imgs /\ f.version = v /\ [N EXCEPT !.SurvCleanup = SurvPasses] = f
  <2>1. f \in Imgs /\ f.version = v
    BY <1>2, NewVersionFields DEF IsNew
  <2> QED BY <2>1 DEF NewVersion, NewEntry
<1>6. /\ M \in Seq(Imgs) /\ IsInjective(M) /\ Len(M) = Len(L)
      /\ ToSet(M) = {Older(e) : e \in E} /\ \A g \in ToSet(M) : g.last = FALSE
      /\ \A i \in 1 .. Len(L) : M[i].version = L[i].version
  <2>1. Outdates(M, L)
    BY DEF Outdates
  <2> HIDE DEF M
  <2> QED BY <2>1, OlderList
<1> HIDE DEF M, N, f
<1>7. /\ K \in Seq(Imgs) /\ Len(K) = n /\ K[n] = N /\ n \in Nat
      /\ \A i \in 1 .. Len(L) : K[i] = M[i]
  BY <1>3, <1>4, <1>6
<1>8. ASSUME NEW e \in E, e.version = v PROVE ~Distinct(K)
  <2>1. PICK i \in 1 .. Len(L) : L[i] = e
    BY ToSetIn
  <2>2. K[i].version = K[n].version /\ i # n
    BY <1>4, <1>6, <1>7, <1>8, <2>1
  <2>3. i \in DOMAIN K /\ n \in DOMAIN K
    BY <1>7, <2>1
  <2> QED BY <2>2, <2>3 DEF Distinct
<1>9. ASSUME \A e \in E : e.version # v
      PROVE  /\ TakesNew(k, L, v, c) /\ Distinct(K)
             /\ K[j].State = "Empty" /\ K[j].version = v
  <2>1. N \notin ToSet(M)
    BY <1>4, <1>6
  <2>2. IsInjective(K) /\ ToSet(K) = ToSet(M) \cup {N}
    BY <1>3, <1>4, <1>6, <2>1, AppendOnce, AppendSet
  <2>3. ByVersion(ToSet(K))
    <3>1. \A g \in ToSet(M) : \E e \in E : g.version = e.version /\ g = Older(e)
      <4>1. \A e \in E : e \in Imgs
        BY ToSetIn
      <4>2. \A e \in Imgs : Older(e).version = e.version
        BY DEF Imgs, Older
      <4> HIDE DEF E
      <4> QED BY <4>1, <4>2, <1>6
    <3>2. ByVersion(E)
      OBVIOUS
    <3> HIDE DEF E
    <3> QED BY <2>2, <3>1, <3>2, <1>4, <1>9 DEF ByVersion
  <2>4. Distinct(K)
    BY <1>7, <2>2, <2>3, DistinctList
  <2>5. j = n
    <3>1. N \in ToSet(K) /\ N.last /\ N.valid
      BY <1>4, <2>2
    <3>2. j \in 1 .. Len(K) /\ K[j] \in ToSet(K) /\ K[j].last
      BY <1>7, <3>1, CurrentPlace
    <3>3. K[j] = N
      BY <1>6, <2>2, <3>2
    <3>4. n \in DOMAIN K /\ j \in DOMAIN K
      BY <1>7, <3>2
    <3> QED BY <1>7, <2>2, <3>3, <3>4 DEF IsInjective
  <2>6. Replaces(k, K, n, f)
    <3>1. k = [K EXCEPT ![n] = [K[n] EXCEPT !.SurvCleanup = SurvPasses]]
      BY <2>5 DEF Survives
    <3> QED BY <1>5, <1>7, <3>1 DEF Replaces
  <2>7. /\ k \in Seq(Imgs) /\ IsInjective(k)
        /\ ToSet(k) = (ToSet(K) \ {N}) \cup {f}
    <3>1. /\ K \in Seq(Imgs) /\ IsInjective(K) /\ ByVersion(ToSet(K))
          /\ n \in 1 .. Len(K) /\ f.version = K[n].version /\ f \in Imgs
          /\ Replaces(k, K, n, f)
      BY <1>4, <1>5, <1>7, <2>2, <2>3, <2>6
    <3> HIDE DEF n, E, l
    <3>2. /\ k \in Seq(Imgs) /\ IsInjective(k)
          /\ ToSet(k) = (ToSet(K) \ {K[n]}) \cup {f}
      BY <3>1, ReplaceEntry
    <3> QED BY <1>7, <3>2
  <2>8. ToSet(K) \ {N} = ToSet(M)
    BY <2>1, <2>2
  <2>9. TakesNew(k, L, v, c)
    BY <1>6, <2>7, <2>8 DEF TakesNew, f
  <2>10. K[j] = N
    BY <1>7, <2>5
  <2> QED BY <2>4, <2>9, <2>10, <1>4
<1>10. ~Distinct(K) \/ \A e \in E : e.version # v
  BY <1>8
<1> HIDE DEF E
<1> QED BY <1>1, <1>2, <1>9, <1>10 DEF E

Reused(S) == "reused" \in DOMAIN S /\ S.reused = TRUE

\* A client is dispatched, or stays so.
Calls(S, V, q) ==
  /\ Rest(V) = Rest(S)
  /\ \E r \in ToSet(V.queue) :
       /\ r.key = q.key /\ r.Callback
       /\ ToSet(V.queue) = (ToSet(S.queue) \ {q}) \cup {r}

JoinsQueue(z, Q, m, v) ==
  z = [Q EXCEPT ![m].Callback = TRUE, ![m].CbData = v]

LEMMA JoinedQueue ==
  ASSUME NEW Q \in Seq(Queued), IsInjective(Q), ByKey(ToSet(Q)),
         NEW q \in ToSet(Q), NEW m, m = Of(Q, q.key),
         NEW v \in 0 .. MaxVersion, NEW z, JoinsQueue(z, Q, m, v),
         NEW r, r = Joining(q, v)
  PROVE  /\ z \in Seq(Queued) /\ IsInjective(z)
         /\ ToSet(z) = (ToSet(Q) \ {q}) \cup {r}
         /\ r.key = q.key /\ r.Callback
<1>1. m \in 1 .. Len(Q) /\ Q[m] = q /\ q \in Queued
  BY OfPlace, ToSetIn
<1>2. r \in Queued /\ r.key = q.key /\ r.Callback
  BY <1>1 DEF Queued, Joining
<1>3. Replaces(z, Q, m, r)
  <2>1. z = [Q EXCEPT ![m] = [[Q[m] EXCEPT !.Callback = TRUE] EXCEPT !.CbData = v]]
    BY <1>1 DEF JoinsQueue
  <2>2. r = [[q EXCEPT !.Callback = TRUE] EXCEPT !.CbData = v]
    BY DEF Joining
  <2> QED BY <1>1, <2>1, <2>2 DEF Replaces
<1>4. /\ z \in Seq(Queued) /\ IsInjective(z)
      /\ ToSet(z) = (ToSet(Q) \ {q}) \cup {r}
  BY <1>2, <1>3, ReplaceClient
<1> QED BY <1>2, <1>4

(* Dicache_image: unless a version number is given out twice.              *)
LEMMA ImageSound ==
  ASSUME NEW S, NEW X, NEW Todo, Sound(S, X, Todo),
         NEW q \in ToSet(S.queue), ~q.Callback,
         NEW V, V = Dicache_image(S, q.key)
  PROVE  Reused(V) \/ (Sound(V, X \cup {q.key}, Todo) /\ Calls(S, V, q))
<1> DEFINE i == Current(S.imgs)
           L == IF i = 0 THEN Dicache_add_entry(S.imgs, q.key)
                ELSE [S.imgs EXCEPT ![i].RefCount = @ + 1]
           j == Current(L)
           m == Of(S.queue, q.key)
           v == IF L[j].State = "Close" THEN 0 ELSE L[j].version
           k == [L EXCEPT ![j].SurvCleanup = SurvPasses]
           z == [S.queue EXCEPT ![m].Callback = TRUE, ![m].CbData = v]
           r == Joining(q, v)
           E == ToSet(S.imgs)
           Q == ToSet(S.queue)
           After(D) == Good(D, (Q \ {q}) \cup {r}, S.page, S.size,
                            Complete(S), X \cup {q.key}, Todo)
<1>1. /\ S \in DState /\ S.reused = FALSE
      /\ IsInjective(S.imgs) /\ IsInjective(S.queue)
      /\ ByVersion(E) /\ ByKey(Q) /\ q \in Q
      /\ q \in Queued /\ q.key \in Clients
      /\ Good(E, Q, S.page, S.size, Complete(S), X, Todo)
      /\ SoundEntries(E)
  BY SoundFacts DEF Good
<1>2. /\ S.imgs \in Seq(Imgs) /\ S.queue \in Seq(Queued)
  BY <1>1, Fields
<1>3. V = [S EXCEPT !.imgs = k, !.reused = @ \/ ~Distinct(L), !.queue = z]
  <2>1. V = [S EXCEPT !.imgs = k, !.reused = S.reused \/ ~Distinct(L),
                      !.queue = [@ EXCEPT ![m].Callback = TRUE, ![m].CbData = v]]
    BY DEF Dicache_image
  <2> HIDE DEF k, L, v, m
  <2> QED BY <2>1
<1>4. \/ ~Distinct(L)
      \/ /\ Distinct(L) /\ k \in Seq(Imgs) /\ IsInjective(k)
         /\ v \in 0 .. MaxVersion /\ After(ToSet(k))
  <2>1. CASE i # 0
    <3> DEFINE e == S.imgs[i]
    <3>1. L = [S.imgs EXCEPT ![i].RefCount = @ + 1]
      BY <2>1
    <3>2. /\ e \in E /\ e.valid /\ TakesReference(k, S.imgs, e) /\ Distinct(L)
          /\ L[j].State = e.State /\ L[j].version = e.version
      <4>1. Increments(L, S.imgs, i) /\ Survives(k, L, j)
        BY <3>1 DEF Increments, Survives
      <4> HIDE DEF L, k
      <4> QED BY <1>1, <1>2, <2>1, <4>1, CurrentReference
    <3>3. v = CbDataOf(e)
      BY <3>2 DEF CbDataOf
    <3>4. v \in 0 .. MaxVersion
      <4>1. e.version \in 1 .. MaxVersion
        BY <3>2, <1>1, ImgFields DEF SoundEntries
      <4> HIDE DEF v, e
      <4> QED BY <3>3, <4>1, BoundAssumption DEF CbDataOf
    <3> HIDE DEF v, e, L, k
    <3>5. ASSUME NEW f, f = Referred(e)
          PROVE  After((E \ {e}) \cup {f})
      <4>1. CanJoin(E, Q, S.page, S.size, Complete(S), X, Todo, q, e, f, v, r)
        BY <1>1, <3>2, <3>3, <3>5 DEF CanJoin
      <4> HIDE DEF E, Q, r
      <4> QED BY <4>1, JoinCurrent
    <3>6. /\ k \in Seq(Imgs) /\ IsInjective(k)
          /\ ToSet(k) = (E \ {e}) \cup {Referred(e)}
      BY <3>2 DEF TakesReference
    <3>7. After(ToSet(k))
      <4> HIDE DEF E, Q, r
      <4> QED BY <3>5, <3>6
    <3> QED BY <3>2, <3>4, <3>6, <3>7
  <2>2. CASE i = 0
    <3>1. L = Dicache_add_entry(S.imgs, q.key)
      BY <2>2
    <3>2. Survives(k, L, j)
      BY DEF Survives
    <3> HIDE DEF L, k, r
    <3>3. /\ \A e \in E : ~e.valid
          /\ \E w \in 1 .. MaxVersion :
               \/ ~Distinct(L)
               \/ /\ \A e \in E : e.version # w
                  /\ TakesNew(k, S.imgs, w, q.key) /\ Distinct(L)
                  /\ L[j].State = "Empty" /\ L[j].version = w
      BY <1>1, <1>2, <2>2, <3>1, <3>2, NewReference
    <3>4. PICK w \in 1 .. MaxVersion :
               \/ ~Distinct(L)
               \/ /\ \A e \in E : e.version # w
                  /\ TakesNew(k, S.imgs, w, q.key) /\ Distinct(L)
                  /\ L[j].State = "Empty" /\ L[j].version = w
      BY <3>3
    <3>5. CASE ~Distinct(L)
      BY <3>5
    <3>6. CASE Distinct(L)
      <4>1. v = w
        BY <3>4, <3>6
      <4>2. r = Joining(q, w)
        BY <4>1 DEF r
      <4> HIDE DEF v
      <4>3. ASSUME NEW f, f = NewVersion(w, q.key)
            PROVE  After({Older(e) : e \in E} \cup {f})
        <5>1. CanAdd(E, Q, S.page, S.size, Complete(S), X, Todo, q, w, f, r)
          BY <1>1, <3>3, <3>4, <3>6, <4>2, <4>3 DEF CanAdd
        <5> HIDE DEF E, Q
        <5> QED BY <5>1, JoinNew
      <4>4. /\ k \in Seq(Imgs) /\ IsInjective(k)
            /\ ToSet(k) = {Older(e) : e \in E} \cup {NewVersion(w, q.key)}
        BY <3>4, <3>6 DEF TakesNew
      <4>5. After(ToSet(k))
        <5> HIDE DEF E, Q
        <5> QED BY <4>3, <4>4
      <4>6. v \in 0 .. MaxVersion
        BY <4>1, BoundAssumption
      <4> QED BY <3>6, <4>4, <4>5, <4>6
    <3> QED BY <3>5, <3>6
  <2> QED BY <2>1, <2>2
<1>5. JoinsQueue(z, S.queue, m, v)
  BY DEF JoinsQueue
<1> HIDE DEF L, k, v, z, r
<1>6. CASE ~Distinct(L)
  <2>1. "reused" \in DOMAIN S
    BY <1>1 DEF DState
  <2>2. "reused" \in DOMAIN V /\ V.reused = (S.reused \/ ~Distinct(L))
    BY <1>3, <2>1
  <2>3. V.reused = TRUE
    BY <2>2, <1>6
  <2> QED BY <2>2, <2>3 DEF Reused
<1>7. CASE Distinct(L)
  <2>1. /\ k \in Seq(Imgs) /\ IsInjective(k)
        /\ v \in 0 .. MaxVersion /\ After(ToSet(k))
    BY <1>4, <1>7
  <2>2. /\ z \in Seq(Queued) /\ IsInjective(z)
        /\ ToSet(z) = (ToSet(S.queue) \ {q}) \cup {r}
        /\ r.key = q.key /\ r.Callback
    <3>1. r = Joining(q, v)
      BY DEF r
    <3> HIDE DEF m
    <3>2. ASSUME NEW y, y = m
          PROVE /\ z \in Seq(Queued) /\ IsInjective(z)
                /\ ToSet(z) = (ToSet(S.queue) \ {q}) \cup {r}
                /\ r.key = q.key /\ r.Callback
      <4>1. y = Of(S.queue, q.key) /\ JoinsQueue(z, S.queue, y, v)
        BY <1>5, <3>2 DEF m
      <4> QED BY <1>1, <1>2, <2>1, <3>1, <4>1, JoinedQueue
    <3> QED BY <3>2
  <2>3. V.reused = FALSE
    <3>1. V.reused = (S.reused \/ ~Distinct(L))
      BY <1>1, <1>3 DEF DState
    <3> QED BY <1>1, <1>7, <3>1
  <2>4. /\ V.imgs = k /\ V.queue = z /\ V.page = S.page /\ V.entry = S.entry
        /\ V.size = S.size /\ V.delayed = S.delayed
    BY <1>1, <1>3 DEF DState
  <2>5. V \in DState
    <3>1. V = [S EXCEPT !.imgs = k, !.reused = V.reused, !.queue = z]
      <4>1. V.reused = (S.reused \/ ~Distinct(L))
        BY <1>1, <1>3 DEF DState
      <4> QED BY <1>3, <4>1
    <3> QED BY <1>1, <2>1, <2>2, <2>3, <3>1 DEF DState
  <2>6. Sound(V, X \cup {q.key}, Todo)
    <3>1. Complete(V) = Complete(S)
      BY <2>4 DEF Complete
    <3>2. Good(ToSet(V.imgs), ToSet(V.queue), V.page, V.size, Complete(V),
               X \cup {q.key}, Todo)
      BY <2>1, <2>2, <2>4, <3>1
    <3> QED BY <2>1, <2>2, <2>3, <2>4, <2>5, <3>2 DEF Sound, Listed
  <2>7. Rest(V) = Rest(S)
    BY <2>4 DEF Rest
  <2>8. Calls(S, V, q)
    BY <2>2, <2>4, <2>7 DEF Calls
  <2> QED BY <2>6, <2>8
<1> QED BY <1>6, <1>7

\* Where the version of a dispatched client is.
LEMMA CalledPlace ==
  ASSUME NEW S, NEW X, NEW Todo, Sound(S, X, Todo),
         NEW q \in ToSet(S.queue), q.Callback, NEW i, i = Current(S.imgs),
         NEW e, e = S.imgs[i]
  PROVE  /\ i \in 1 .. Len(S.imgs) /\ e \in ToSet(S.imgs) /\ e \in Imgs
         /\ e.valid /\ i # 0
         /\ Joined(e, q, S.page[q.key], S.size, Complete(S), X, Todo)
<1> DEFINE E == ToSet(S.imgs)
<1>1. /\ S.imgs \in Seq(Imgs) /\ E \subseteq Imgs /\ SoundEntries(E)
      /\ Good(E, ToSet(S.queue), S.page, S.size, Complete(S), X, Todo)
  BY SoundFacts, Fields DEF Good
<1>2. PICK f \in E : /\ f.valid /\ f.RefCount # 0
                     /\ Joined(f, q, S.page[q.key], S.size, Complete(S), X, Todo)
  <2> HIDE DEF E
  <2> QED BY <1>1, CalledEntry
<1>3. f.last
  BY <1>1, <1>2 DEF SoundEntries, EntryOK
<1>4. i \in 1 .. Len(S.imgs) /\ e \in E /\ e.valid /\ i # 0
  BY <1>1, <1>2, <1>3, CurrentPlace
<1>5. e = f
  BY <1>1, <1>2, <1>4, OneValid
<1> QED BY <1>1, <1>2, <1>4, <1>5

\* What Send changes.
SentTo(V, S, k, i, m, e, r, p) ==
  V = [S EXCEPT !.imgs[i] = e, !.queue[m] = r, !.page[k] = p]

(* Send: the version decodes what is new, and the client draws it.         *)
LEMMA SendSound ==
  ASSUME NEW S, NEW X, NEW Todo, Sound(S, X, Todo),
         NEW q \in ToSet(S.queue), q.Callback, X \subseteq {q.key},
         NEW d \in Outcomes, NEW V, V = Send(S, q.key, d)
  PROVE  Sound(V, {}, Todo \ {q.key}) /\ Calls(S, V, q)
<1> DEFINE i == Current(S.imgs)
           m == Of(S.queue, q.key)
           e == S.imgs[i]
           f == IF Behind(e, S.size) THEN Decode(e, d, S.size) ELSE e
           r == SentClient(f, q)
           p == SentPage(f, q, S.page[q.key])
           E == ToSet(S.imgs)
           Q == ToSet(S.queue)
<1>1. /\ S \in DState /\ S.reused = FALSE
      /\ IsInjective(S.imgs) /\ IsInjective(S.queue)
      /\ ByVersion(E) /\ ByKey(Q) /\ q \in Q
      /\ q \in Queued /\ q.key \in Clients /\ ClientOK(q, S.page[q.key])
      /\ Good(E, Q, S.page, S.size, Complete(S), X, Todo)
      /\ SoundEntries(E)
  BY SoundFacts DEF Good
<1>2. /\ S.imgs \in Seq(Imgs) /\ S.queue \in Seq(Queued)
      /\ S.page \in [Clients -> Pages] /\ S.size \in 0 .. MaxData
  BY <1>1, Fields
<1>3. /\ i \in 1 .. Len(S.imgs) /\ e \in E /\ e \in Imgs /\ e.valid /\ i # 0
      /\ Joined(e, q, S.page[q.key], S.size, Complete(S), X, Todo)
  BY CalledPlace
<1>4. m \in 1 .. Len(S.queue) /\ S.queue[m] = q
  BY <1>1, <1>2, OfPlace
<1>5. SentTo(V, S, q.key, i, m, f, r, p)
  <2> DEFINE f1 == IF e.State # "Close" /\ e.DecodedSize < S.size
                   THEN Decode(e, d, S.size) ELSE e
  <2>1. f1 = f
    BY DEF Behind
  <2> HIDE DEF f
  <2>2. CASE ~f.imgbuf
    <3>1. V = [S EXCEPT !.imgs[i] = f1,
                 !.queue[m] = [S.queue[m] EXCEPT
                                 !.Version = IF @ = 0 THEN f1.version ELSE @]]
      BY <1>3, <2>1, <2>2 DEF Send
    <3>2. r = [q EXCEPT !.Version = IF @ = 0 THEN f.version ELSE @]
      BY <2>2 DEF SentClient
    <3>3. p = S.page[q.key]
      BY <2>2 DEF SentPage
    <3> HIDE DEF f1, r, p, i, m
    <3>4. V = [S EXCEPT !.imgs[i] = f, !.queue[m] = r]
      BY <1>4, <2>1, <3>1, <3>2
    <3>5. [S EXCEPT !.imgs[i] = f, !.queue[m] = r] =
            [S EXCEPT !.imgs[i] = f, !.queue[m] = r, !.page[q.key] = p]
      BY <1>1, <1>2, <3>3 DEF DState
    <3> QED BY <3>4, <3>5 DEF SentTo
  <2>3. CASE f.imgbuf
    <3> QED BY <1>3, <1>4, <2>1, <2>3, ZenonT(60) DEF Send, SentTo, SentClient, SentPage
  <2> QED BY <2>2, <2>3
<1>6. /\ Good((E \ {e}) \cup {f}, (Q \ {q}) \cup {r}, WithPage(S.page, q.key, p),
              S.size, Complete(S), {}, Todo \ {q.key})
      /\ f \in Imgs /\ f.version = e.version /\ Sent(f, q, S.page[q.key], r, p)
  <2>1. CanSend(E, Q, S.page, S.size, Complete(S), X, Todo, q, e, d, f, r, p)
    BY <1>1, <1>2, <1>3 DEF CanSend
  <2> HIDE DEF E, Q, e, f, r, p
  <2> QED BY <2>1, SendGood
<1>7. /\ r \in Queued /\ r.key = q.key /\ r.Callback = TRUE /\ p \in Pages
  BY <1>6 DEF Sent
<1> HIDE DEF f, r, p
<1> DEFINE k == [S.imgs EXCEPT ![i] = f]
           z == [S.queue EXCEPT ![m] = r]
<1>8. /\ k \in Seq(Imgs) /\ IsInjective(k) /\ ToSet(k) = (E \ {e}) \cup {f}
  <2>1. Replaces(k, S.imgs, i, f) /\ f \in Imgs /\ f.version = S.imgs[i].version
    BY <1>6 DEF Replaces
  <2> HIDE DEF k, i
  <2> QED BY <1>1, <1>2, <1>3, <2>1, ReplaceEntry
<1>9. /\ z \in Seq(Queued) /\ IsInjective(z) /\ ToSet(z) = (Q \ {q}) \cup {r}
  <2>1. Replaces(z, S.queue, m, r)
    BY DEF Replaces
  <2> HIDE DEF z
  <2> QED BY <1>1, <1>2, <1>7, <2>1, ReplaceClient
<1>10. V = [S EXCEPT !.imgs = k, !.queue = z, !.page = WithPage(S.page, q.key, p)]
  BY <1>5 DEF SentTo, WithPage
<1> HIDE DEF k, z, e, i, m
<1>11. WithPage(S.page, q.key, p) \in [Clients -> Pages]
  BY <1>2, <1>7 DEF WithPage
<1>12. V \in DState /\ V.reused = FALSE
  BY <1>1, <1>8, <1>9, <1>10, <1>11 DEF DState
<1>13. /\ V.imgs = k /\ V.queue = z /\ V.page = WithPage(S.page, q.key, p)
       /\ V.entry = S.entry /\ V.size = S.size /\ V.delayed = S.delayed
  BY <1>1, <1>10 DEF DState
<1>14. Sound(V, {}, Todo \ {q.key})
  <2>1. Complete(V) = Complete(S)
    BY <1>13 DEF Complete
  <2>2. Good(ToSet(V.imgs), ToSet(V.queue), V.page, V.size, Complete(V),
             {}, Todo \ {q.key})
    BY <1>6, <1>8, <1>9, <1>13, <2>1
  <2> QED BY <1>8, <1>9, <1>12, <1>13, <2>2 DEF Sound, Listed
<1>15. Calls(S, V, q)
  BY <1>7, <1>9, <1>13 DEF Calls, Rest
<1> QED BY <1>14, <1>15

(* A number that was given out twice stays so until the handler is over.   *)
LEMMA ReusedSend ==
  ASSUME NEW S, Reused(S), NEW k, NEW d
  PROVE  Reused(Send(S, k, d))
<1> DEFINE V == Send(S, k, d)
<1>1. \/ V = S
      \/ \E i, m, e, r : V = [S EXCEPT !.imgs[i] = e, !.queue[m] = r]
      \/ \E i, m, e, r, p : V = [S EXCEPT !.imgs[i] = e, !.queue[m] = r, !.page[k] = p]
  BY ZenonT(60) DEF Send
<1> HIDE DEF V
<1>2. Reused(V)
  BY <1>1 DEF Reused
<1> QED BY <1>2 DEF V

LEMMA ReusedClose ==
  ASSUME NEW S, Reused(S), NEW k
  PROVE  Reused(Close(S, k))
<1> DEFINE i == Current(S.imgs)
           L == a_Dicache_unref([S.imgs EXCEPT ![i].State = "Close"], S.imgs[i].version)
           T == IF i = 0 THEN S ELSE [S EXCEPT !.imgs = L]
<1>1. Reused(T)
  <2> HIDE DEF L, i
  <2> QED BY DEF Reused
<1>2. Close(S, k) = Dequeue(T, k, "done")
  BY DEF Close
<1> HIDE DEF T
<1>3. \E z, x, a, b : Dequeue(T, k, "done") =
        [T EXCEPT !.queue = z, !.imgs = x, !.page[k].at = a, !.page[k].drawn = b]
  BY DEF Dequeue
<1> QED BY <1>1, <1>2, <1>3, ZenonT(60) DEF Reused

LEMMA ReusedImage ==
  ASSUME NEW S, Reused(S), NEW k
  PROVE  Reused(Dicache_image(S, k))
<1> DEFINE V == Dicache_image(S, k)
<1>1. \E x, L, z : V = [S EXCEPT !.imgs = x, !.reused = @ \/ ~Distinct(L), !.queue = z]
  BY DEF Dicache_image
<1> HIDE DEF V
<1>2. PICK x, L, z : V = [S EXCEPT !.imgs = x, !.reused = @ \/ ~Distinct(L), !.queue = z]
  BY <1>1
<1>3. "reused" \in DOMAIN V /\ V.reused = (S.reused \/ ~Distinct(L))
  BY <1>2 DEF Reused
<1>4. V.reused = TRUE
  BY <1>3 DEF Reused
<1>5. Reused(V)
  BY <1>3, <1>4 DEF Reused
<1> QED BY <1>5 DEF V

LEMMA ReusedFeed ==
  ASSUME NEW S, Reused(S), NEW k, NEW d
  PROVE  Reused(Feed(S, k, d))
<1> DEFINE D == IF S.queue[Of(S.queue, k)].Callback THEN S ELSE Dicache_image(S, k)
           F == IF S.size > 0 THEN Send(D, k, d) ELSE D
<1>1. Reused(D)
  BY ReusedImage
<1> HIDE DEF D
<1>2. Reused(F)
  BY <1>1, ReusedSend
<1> HIDE DEF F
<1>3. Reused(IF S.entry = "complete" THEN Close(F, k) ELSE F)
  BY <1>2, ReusedClose
<1> QED BY <1>3 DEF Feed, F, D

\* The keys of the queue.
LEMMA CallsKeys ==
  ASSUME NEW S, NEW V, NEW q \in ToSet(S.queue), Calls(S, V, q)
  PROVE  Keys(V) = Keys(S)
BY DEF Calls, Keys

(* Feed: one turn of the loop.  All that the others see is the version.    *)
FedTo(S, V, k, Todo) ==
  /\ Sound(V, {}, Todo \ {k}) /\ Rest(V) = Rest(S)
  /\ Keys(S) \ {k} \subseteq Keys(V) /\ Keys(V) \subseteq Keys(S)

LEMMA FeedSound ==
  ASSUME NEW S, NEW Todo, Sound(S, {}, Todo), NEW q \in ToSet(S.queue),
         S.size > 0 \/ Complete(S), NEW d \in Outcomes,
         NEW V, V = Feed(S, q.key, d)
  PROVE  Reused(V) \/ FedTo(S, V, q.key, Todo)
<1> DEFINE D == IF S.queue[Of(S.queue, q.key)].Callback THEN S
                ELSE Dicache_image(S, q.key)
           F == IF S.size > 0 THEN Send(D, q.key, d) ELSE D
<1>1. V = IF S.entry = "complete" THEN Close(F, q.key) ELSE F
  BY DEF Feed
<1>2. S.queue[Of(S.queue, q.key)] = q
  <2>1. ByKey(ToSet(S.queue)) /\ S.queue \in Seq(Queued)
    BY SoundFacts, Fields
  <2> QED BY <2>1, OfPlace
<1>3. \/ Reused(D)
      \/ \E X : /\ Sound(D, X, Todo) /\ X \subseteq {q.key} /\ Calls(S, D, q)
  <2>1. CASE q.Callback
    <3>1. D = S
      BY <1>2, <2>1
    <3>2. ToSet(S.queue) = (ToSet(S.queue) \ {q}) \cup {q}
      OBVIOUS
    <3>3. Calls(S, S, q)
      BY <2>1, <3>2 DEF Calls
    <3>4. {} \subseteq {q.key}
      OBVIOUS
    <3> HIDE DEF D
    <3> QED BY <3>1, <3>3, <3>4
  <2>2. CASE ~q.Callback
    <3>1. D = Dicache_image(S, q.key)
      BY <1>2, <2>2
    <3> HIDE DEF D
    <3>2. ASSUME NEW X, X = {}
          PROVE  Reused(D) \/ (Sound(D, X \cup {q.key}, Todo) /\ Calls(S, D, q))
      <4>1. Sound(S, X, Todo)
        BY <3>2
      <4> QED BY <4>1, <2>2, <3>1, ImageSound
    <3>3. {} \cup {q.key} \subseteq {q.key}
      OBVIOUS
    <3> QED BY <3>2, <3>3
  <2> QED BY <2>1, <2>2
<1> HIDE DEF D
<1>4. CASE Reused(D)
  <2>1. Reused(F)
    BY <1>4, ReusedSend
  <2> HIDE DEF F
  <2> QED BY <1>1, <2>1, ReusedClose
<1>5. ASSUME NEW X, Sound(D, X, Todo), X \subseteq {q.key}, Calls(S, D, q)
      PROVE  FedTo(S, V, q.key, Todo)
  <2>1. PICK r \in ToSet(D.queue) :
          /\ r.key = q.key /\ r.Callback
          /\ ToSet(D.queue) = (ToSet(S.queue) \ {q}) \cup {r}
    BY <1>5 DEF Calls
  <2>2. Keys(D) = Keys(S) /\ Rest(D) = Rest(S)
    BY <1>5, CallsKeys DEF Calls
  <2>3. CASE S.size > 0
    <3>1. F = Send(D, r.key, d)
      BY <2>1, <2>3
    <3> HIDE DEF F
    <3>2. Sound(F, {}, Todo \ {r.key}) /\ Calls(D, F, r)
      BY <1>5, <2>1, <3>1, SendSound
    <3>3. Rest(F) = Rest(S) /\ Keys(F) = Keys(S)
      BY <2>1, <2>2, <3>2, CallsKeys DEF Calls
    <3>4. CASE S.entry = "complete"
      <4>1. V = Close(F, r.key) /\ Complete(F)
        BY <1>1, <2>1, <3>3, <3>4 DEF Complete, Rest
      <4>2. PICK s \in ToSet(F.queue) : s.key = r.key /\ s.Callback
        BY <3>2 DEF Calls
      <4>3. ASSUME NEW Y, Y = {}, NEW Z, Z = Todo \ {r.key}
            PROVE  /\ Sound(V, Y \ {s.key}, Z \ {s.key})
                   /\ Rest(V) = Rest(F) /\ ToSet(V.queue) = ToSet(F.queue) \ {s}
        <5>1. Sound(F, Y, Z) /\ V = Close(F, s.key)
          BY <3>2, <4>1, <4>2, <4>3
        <5> QED BY <4>1, <4>2, <5>1, CloseSound, SMTT(30)
      <4>4. /\ Sound(V, {} \ {s.key}, (Todo \ {r.key}) \ {s.key})
            /\ Rest(V) = Rest(F) /\ ToSet(V.queue) = ToSet(F.queue) \ {s}
        BY <4>3
      <4>5. {} \ {s.key} = {} /\ (Todo \ {r.key}) \ {s.key} = Todo \ {q.key}
        BY <2>1, <4>2
      <4>6. Sound(V, {}, Todo \ {q.key})
        BY <4>4, <4>5
      <4>7. Keys(F) \ {q.key} \subseteq Keys(V) /\ Keys(V) \subseteq Keys(F)
        BY <2>1, <4>2, <4>4 DEF Keys
      <4> QED BY <3>3, <4>4, <4>6, <4>7 DEF FedTo
    <3>5. CASE S.entry # "complete"
      <4>1. V = F
        BY <1>1, <3>5
      <4> QED BY <2>1, <3>2, <3>3, <4>1 DEF FedTo
    <3> QED BY <3>4, <3>5
  <2>4. CASE ~(S.size > 0)
    <3>1. V = Close(D, r.key) /\ Complete(D)
      BY <1>1, <2>1, <2>2, <2>4 DEF Complete, Rest
    <3> HIDE DEF F
    <3>2. /\ Sound(V, X \ {r.key}, Todo \ {r.key})
          /\ Rest(V) = Rest(D) /\ ToSet(V.queue) = ToSet(D.queue) \ {r}
      BY <1>5, <2>1, <3>1, CloseSound
    <3>3. X \ {r.key} = {}
      BY <1>5, <2>1
    <3>4. Sound(V, {}, Todo \ {q.key})
      BY <2>1, <3>2, <3>3
    <3>5. Keys(D) \ {q.key} \subseteq Keys(V) /\ Keys(V) \subseteq Keys(D)
      BY <2>1, <3>2 DEF Keys
    <3> QED BY <2>2, <3>2, <3>4, <3>5 DEF FedTo
  <2> QED BY <2>3, <2>4
<1> QED BY <1>3, <1>4, <1>5

(***************************************************************************)
(* The loops over the queue.                                               *)
(***************************************************************************)
\* What the loop does for one client, when it is given k.
Turn(kind, T, k, d) ==
  IF kind = "stop" THEN a_Cache_stop_client(T, k) ELSE Feed(T, k, d)

Step(it, s, S, q, kind, d) ==
  IF s = {} THEN S
  ELSE Turn(kind, it[s \ {Max(s)}], q[Max(s)].key, d)

IsLoop(it, S, q, kind, d) ==
  it = [s \in SUBSET DOMAIN q |-> Step(it, s, S, q, kind, d)]

LEMMA LoopExists ==
  ASSUME NEW S, NEW q \in Seq(Queued), NEW kind, NEW d
  PROVE  \E it : IsLoop(it, S, q, kind, d)
<1> DEFINE D == DOMAIN q
           Sub(n) == {s \in SUBSET D : Cardinality(s) <= n}
           Is(g, n) == \A s \in Sub(n) : g[s] = Step(g, s, S, q, kind, d)
           good == {n \in Nat : \E g : Is(g, n)}
<1>1. D = 1 .. Len(q) /\ Len(q) \in Nat /\ IsFiniteSet(D)
  BY ListFinite
<1>2. ASSUME NEW s \in SUBSET D, s # {}
      PROVE  /\ Max(s) \in s /\ s \ {Max(s)} \in SUBSET D
             /\ Cardinality(s) \in Nat /\ Cardinality(s \ {Max(s)}) \in Nat
             /\ Cardinality(s) = Cardinality(s \ {Max(s)}) + 1
  <2>1. Max(s) \in s
    BY <1>1, <1>2, MaxPicks
  <2>3. IsFiniteSet(D)
    BY <1>1
  <2> HIDE DEF D
  <2>2. \A x \in s :
          /\ s \ {x} \in SUBSET D
          /\ Cardinality(s) \in Nat /\ Cardinality(s \ {x}) \in Nat
          /\ Cardinality(s) = Cardinality(s \ {x}) + 1
    BY <2>3, OneLess
  <2> QED BY <2>1, <2>2
<1>3. 0 \in good
  <2> DEFINE g == [s \in SUBSET D |-> S]
  <2>1. ASSUME NEW s \in Sub(0) PROVE s = {}
    <3>1. s \in SUBSET D /\ Cardinality(s) <= 0
      OBVIOUS
    <3> HIDE DEF D
    <3>2. ASSUME s # {}
          PROVE  /\ Cardinality(s) \in Nat /\ Cardinality(s \ {Max(s)}) \in Nat
                 /\ Cardinality(s) = Cardinality(s \ {Max(s)}) + 1
      BY <1>2, <3>1, <3>2
    <3>3. ASSUME s # {} PROVE FALSE
      BY <3>1, <3>2, <3>3
    <3> QED BY <3>3
  <2>2. Is(g, 0)
    BY <2>1 DEF Step
  <2> HIDE DEF g, Is
  <2> QED BY <2>2
<1>4. ASSUME NEW n \in Nat, n \in good PROVE n + 1 \in good
  <2>1. PICK g : Is(g, n)
    BY <1>4
  <2> DEFINE h == [s \in Sub(n + 1) |-> Step(g, s, S, q, kind, d)]
  <2>2. \A s \in Sub(n) : s \in Sub(n + 1) /\ h[s] = g[s]
    <3>1. ASSUME NEW s \in Sub(n) PROVE s \in Sub(n + 1)
      <4>1. Cardinality(s) \in Nat
        BY <1>1, FS_Subset, FS_CardinalityType
      <4> QED BY <4>1
    <3> QED BY <2>1, <3>1
  <2>3. \A s \in Sub(n + 1) : s # {} => s \ {Max(s)} \in Sub(n)
    BY <1>2, SMTT(30)
  <2>4. \A s \in Sub(n + 1) : h[s] = Step(g, s, S, q, kind, d)
    OBVIOUS
  <2> HIDE DEF h, Sub
  <2>5. Is(h, n + 1)
    BY <2>2, <2>3, <2>4 DEF Step
  <2> HIDE DEF Is
  <2> QED BY <2>5
<1> HIDE DEF good
<1>5. \A n \in Nat : n \in good
  BY <1>3, <1>4, NatInd
<1> DEFINE n == Cardinality(D)
<1>6. n \in Nat /\ \A s \in SUBSET D : s \in Sub(n)
  BY <1>1, FS_CardinalityType, FS_Subset
<1>7. PICK g : Is(g, n)
  BY <1>5, <1>6 DEF good
<1> DEFINE it == [s \in SUBSET D |-> g[s]]
<1>8. \A s \in SUBSET D : g[s] = Step(g, s, S, q, kind, d)
  BY <1>6, <1>7
<1>9. \A s \in SUBSET D : Step(g, s, S, q, kind, d) = Step(it, s, S, q, kind, d)
  BY <1>2 DEF Step
<1>10. it = [s \in SUBSET D |-> Step(it, s, S, q, kind, d)]
  <2>1. \A s \in SUBSET D : it[s] = Step(it, s, S, q, kind, d)
    BY <1>8, <1>9
  <2> HIDE DEF Sub, Is, n
  <2> QED BY <2>1
<1> HIDE DEF it
<1> QED BY <1>10 DEF IsLoop

\* The states the loop goes through, by the places it has done.
FeedLoop(it, S, q, d) ==
  /\ it[{}] = S
  /\ \A s \in SUBSET DOMAIN q : s # {} =>
       it[s] = Feed(it[s \ {Max(s)}], q[Max(s)].key, d)

StopLoop(it, S, q) ==
  /\ it[{}] = S
  /\ \A s \in SUBSET DOMAIN q : s # {} =>
       it[s] = a_Cache_stop_client(it[s \ {Max(s)}], q[Max(s)].key)

FeedAll(S, q, d) == FoldLeft(LAMBDA T, x : Feed(T, x.key, d), S, q)

StopAll(S, q) == FoldLeft(LAMBDA T, x : a_Cache_stop_client(T, x.key), S, q)

LEMMA FeedLoopIs ==
  ASSUME NEW S, NEW q \in Seq(Queued), NEW d
  PROVE  \E it : FeedLoop(it, S, q, d) /\ FeedAll(S, q, d) = it[DOMAIN q]
<1> DEFINE turn(T, i) == Feed(T, q[i].key, d)
           D == DOMAIN q
           Is(it) == it = [s \in SUBSET D |->
                             IF s = {} THEN S ELSE turn(it[s \ {Max(s)}], Max(s))]
           it == CHOOSE it : Is(it)
<1>1. \E g : Is(g)
  <2>1. PICK g : IsLoop(g, S, q, "feed", d)
    BY LoopExists
  <2>2. g = [s \in SUBSET D |-> Step(g, s, S, q, "feed", d)]
    BY <2>1 DEF IsLoop
  <2>3. \A s \in SUBSET D :
          Step(g, s, S, q, "feed", d) = IF s = {} THEN S
                                        ELSE turn(g[s \ {Max(s)}], Max(s))
    BY DEF Step, Turn
  <2> HIDE DEF turn, D
  <2>4. [s \in SUBSET D |-> Step(g, s, S, q, "feed", d)] =
          [s \in SUBSET D |-> IF s = {} THEN S ELSE turn(g[s \ {Max(s)}], Max(s))]
    BY <2>3
  <2>5. Is(g)
    BY <2>2, <2>4
  <2> QED BY <2>5
<1>2. Is(it)
  <2> HIDE DEF Is
  <2> QED BY <1>1
<1>3. FeedAll(S, q, d) = it[D]
  BY DEF FeedAll, FoldLeft, MapThenFoldSet
<1> HIDE DEF it
<1>4. FeedLoop(it, S, q, d)
  BY <1>2 DEF FeedLoop
<1> QED BY <1>3, <1>4

LEMMA StopLoopIs ==
  ASSUME NEW S, NEW q \in Seq(Queued)
  PROVE  \E it : StopLoop(it, S, q) /\ StopAll(S, q) = it[DOMAIN q]
<1> DEFINE turn(T, i) == a_Cache_stop_client(T, q[i].key)
           D == DOMAIN q
           Is(it) == it = [s \in SUBSET D |->
                             IF s = {} THEN S ELSE turn(it[s \ {Max(s)}], Max(s))]
           it == CHOOSE it : Is(it)
<1>1. \E g : Is(g)
  <2>1. PICK g : IsLoop(g, S, q, "stop", S)
    BY LoopExists
  <2>2. g = [s \in SUBSET D |-> Step(g, s, S, q, "stop", S)]
    BY <2>1 DEF IsLoop
  <2>3. \A s \in SUBSET D :
          Step(g, s, S, q, "stop", S) = IF s = {} THEN S
                                        ELSE turn(g[s \ {Max(s)}], Max(s))
    BY DEF Step, Turn
  <2> HIDE DEF turn, D
  <2>4. [s \in SUBSET D |-> Step(g, s, S, q, "stop", S)] =
          [s \in SUBSET D |-> IF s = {} THEN S ELSE turn(g[s \ {Max(s)}], Max(s))]
    BY <2>3
  <2>5. Is(g)
    BY <2>2, <2>4
  <2> QED BY <2>5
<1>2. Is(it)
  <2> HIDE DEF Is
  <2> QED BY <1>1
<1>3. StopAll(S, q) = it[D]
  BY DEF StopAll, FoldLeft, MapThenFoldSet
<1> HIDE DEF it
<1>4. StopLoop(it, S, q)
  BY <1>2 DEF StopLoop
<1> QED BY <1>3, <1>4

\* Induction over the places done.
LEMMA PlacesInd ==
  ASSUME NEW n \in Nat, NEW good, {} \in good,
         \A s \in SUBSET (1 .. n) : s # {} /\ s \ {Max(s)} \in good => s \in good
  PROVE  1 .. n \in good
<1> DEFINE D == 1 .. n
           pick == [s \in SUBSET D |-> Max(s)]
           it == [s \in SUBSET D |-> s]
<1>1. IsFiniteSet(D)
  BY FS_Interval
<1>2. Picks(pick, D) /\ \A s \in SUBSET D : pick[s] = Max(s)
  BY MaxPicks DEF Picks
<1>3. it[{}] \in good
  OBVIOUS
<1>4. \A s \in SUBSET D : s # {} /\ it[s \ {pick[s]}] \in good => it[s] \in good
  BY <1>2
<1>5. it[D] = D
  OBVIOUS
<1> HIDE DEF D, pick, it
<1>6. it[D] \in good
  BY <1>1, <1>2, <1>3, <1>4, FoldKeeps
<1> QED BY <1>5, <1>6 DEF D

\* The clients whose turn is still to come.
Remaining(q, s) == {q[i].key : i \in DOMAIN q \ s}

OneByOne(q) ==
  \A s \in SUBSET DOMAIN q, i \in DOMAIN q : i \in s =>
    /\ Remaining(q, s) = Remaining(q, s \ {i}) \ {q[i].key}
    /\ q[i].key \in Remaining(q, s \ {i})

LEMMA RemainingKeys ==
  ASSUME NEW q \in Seq(Queued), IsInjective(q), ByKey(ToSet(q))
  PROVE  /\ OneByOne(q)
         /\ Remaining(q, {}) = {x.key : x \in ToSet(q)}
         /\ Remaining(q, DOMAIN q) = {}
<1>1. \A i, j \in DOMAIN q : q[i].key = q[j].key => i = j
  <2>1. \A i \in DOMAIN q : q[i] \in ToSet(q)
    BY ToSetIn
  <2>2. \A i, j \in DOMAIN q : q[i] = q[j] => i = j
    BY DEF IsInjective
  <2> QED BY <2>1, <2>2 DEF ByKey
<1>2. \A x : x \in ToSet(q) <=> \E i \in DOMAIN q : q[i] = x
  BY ToSetIn
<1>3. OneByOne(q)
  BY <1>1 DEF Remaining, OneByOne
<1>4. Remaining(q, {}) = {x.key : x \in ToSet(q)} /\ Remaining(q, DOMAIN q) = {}
  BY <1>2 DEF Remaining
<1> QED BY <1>3, <1>4

(* Every client gets its turn, and then all have seen the version.         *)
Fed(S, T, q, s) ==
  \/ Reused(T)
  \/ /\ Sound(T, {}, Remaining(q, s)) /\ Rest(T) = Rest(S)
     /\ Remaining(q, s) \subseteq Keys(T)

LEMMA FeedAllSound ==
  ASSUME NEW S, Sound(S, {}, Keys(S)), S.size > 0 \/ Complete(S),
         NEW d \in Outcomes, NEW V, V = FeedAll(S, S.queue, d)
  PROVE  Reused(V) \/ (Sound(V, {}, {}) /\ Rest(V) = Rest(S))
<1> DEFINE q == S.queue
           D == DOMAIN q
<1>0. q \in Seq(Queued) /\ IsInjective(q) /\ ByKey(ToSet(q))
  <2>1. S \in DState /\ IsInjective(q) /\ ByKey(ToSet(q))
    BY SoundFacts
  <2>2. q \in Seq(Queued)
    BY <2>1, Fields
  <2> QED BY <2>1, <2>2
<1>1. /\ q \in Seq(Queued) /\ IsInjective(q) /\ ByKey(ToSet(q))
      /\ D = 1 .. Len(q) /\ Len(q) \in Nat
  BY <1>0
<1>2. PICK it : FeedLoop(it, S, q, d) /\ V = it[D]
  BY <1>1, FeedLoopIs
<1> DEFINE good == {s \in SUBSET D : Fed(S, it[s], q, s)}
<1>3. {} \in good
  <2>1. Remaining(q, {}) = Keys(S)
    BY <1>1, RemainingKeys DEF Keys
  <2>2. Fed(S, S, q, {})
    BY <2>1 DEF Fed
  <2>3. it[{}] = S
    BY <1>2 DEF FeedLoop
  <2> QED BY <2>2, <2>3
<1>4. ASSUME NEW s \in SUBSET D, s # {}, s \ {Max(s)} \in good
      PROVE  s \in good
  <2> DEFINE i == Max(s)
             T == it[s \ {i}]
             k == q[i].key
             R == Remaining(q, s \ {i})
  <2>1. i \in s /\ i \in D
    BY <1>1, <1>4, MaxPicks
  <2>2. it[s] = Feed(T, k, d)
    BY <1>2, <1>4 DEF FeedLoop
  <2>3. Fed(S, T, q, s \ {i})
    BY <1>4
  <2>4. Remaining(q, s) = R \ {k} /\ k \in R
    <3>1. OneByOne(q)
      BY <1>0, RemainingKeys
    <3> HIDE DEF i
    <3> QED BY <2>1, <3>1 DEF OneByOne
  <2> HIDE DEF i, T, k, R, good
  <2>5. CASE Reused(T)
    <3>1. Reused(it[s])
      BY <2>2, <2>5, ReusedFeed
    <3> QED BY <3>1 DEF Fed, good
  <2>6. CASE ~Reused(T)
    <3>1. Sound(T, {}, R) /\ Rest(T) = Rest(S) /\ R \subseteq Keys(T)
      BY <2>3, <2>6 DEF Fed, R
    <3>2. PICK x \in ToSet(T.queue) : x.key = k
      BY <2>4, <3>1 DEF Keys
    <3>3. T.size > 0 \/ Complete(T)
      BY <3>1 DEF Rest, Complete
    <3>4. Reused(it[s]) \/ FedTo(T, it[s], x.key, R)
      BY <2>2, <3>1, <3>2, <3>3, FeedSound
    <3>5. CASE FedTo(T, it[s], x.key, R)
      <4>1. /\ Sound(it[s], {}, R \ {k}) /\ Rest(it[s]) = Rest(T)
            /\ Keys(T) \ {k} \subseteq Keys(it[s])
        BY <3>2, <3>5 DEF FedTo
      <4>2. Sound(it[s], {}, Remaining(q, s)) /\ Remaining(q, s) \subseteq Keys(it[s])
        BY <2>4, <3>1, <4>1
      <4> QED BY <3>1, <4>1, <4>2 DEF Fed, good
    <3> QED BY <3>4, <3>5 DEF Fed, good
  <2> QED BY <2>5, <2>6
<1>5. D \in good
  <2>1. \A s \in SUBSET (1 .. Len(q)) : s # {} /\ s \ {Max(s)} \in good => s \in good
    BY <1>1, <1>4
  <2> HIDE DEF good, D, q
  <2>2. 1 .. Len(q) \in good
    BY <1>1, <1>3, <2>1, PlacesInd
  <2> QED BY <1>1, <2>2
<1>6. Fed(S, V, q, D)
  BY <1>2, <1>5
<1>7. Remaining(q, D) = {}
  BY <1>1, RemainingKeys
<1> QED BY <1>6, <1>7 DEF Fed

(* All clients are stopped: the rest of the state is as it was.            *)
Emptied(S, V) ==
  /\ V.entry = S.entry /\ V.size = S.size
  /\ \A c \in Clients : c \notin Keys(S) => V.page[c] = S.page[c]
  /\ \A f \in ToSet(V.imgs) : \E e \in ToSet(S.imgs) : f.version = e.version

Left(S, T, q, s) ==
  Sound(T, {}, {}) /\ Emptied(S, T) /\ Keys(T) = Remaining(q, s)

LEMMA StopAllSound ==
  ASSUME NEW S, Sound(S, {}, {}), NEW V, V = StopAll(S, S.queue)
  PROVE  Sound(V, {}, {}) /\ Emptied(S, V) /\ Keys(V) = {}
<1> DEFINE q == S.queue
           D == DOMAIN q
<1>0. q \in Seq(Queued) /\ IsInjective(q) /\ ByKey(ToSet(q))
  <2>1. S \in DState /\ IsInjective(q) /\ ByKey(ToSet(q))
    BY SoundFacts
  <2>2. q \in Seq(Queued)
    BY <2>1, Fields
  <2> QED BY <2>1, <2>2
<1>1. /\ q \in Seq(Queued) /\ IsInjective(q) /\ ByKey(ToSet(q))
      /\ D = 1 .. Len(q) /\ Len(q) \in Nat
  BY <1>0
<1>2. PICK it : StopLoop(it, S, q) /\ V = it[D]
  BY <1>1, StopLoopIs
<1> DEFINE good == {s \in SUBSET D : Left(S, it[s], q, s)}
<1>3. {} \in good
  <2>1. Remaining(q, {}) = Keys(S)
    BY <1>1, RemainingKeys DEF Keys
  <2>2. Left(S, S, q, {})
    BY <2>1 DEF Left, Emptied
  <2>3. it[{}] = S
    BY <1>2 DEF StopLoop
  <2> QED BY <2>2, <2>3
<1>4. ASSUME NEW s \in SUBSET D, s # {}, s \ {Max(s)} \in good
      PROVE  s \in good
  <2> DEFINE i == Max(s)
             T == it[s \ {i}]
             k == q[i].key
             R == Remaining(q, s \ {i})
  <2>1. i \in s /\ i \in D
    BY <1>1, <1>4, MaxPicks
  <2>2. it[s] = a_Cache_stop_client(T, k)
    BY <1>2, <1>4 DEF StopLoop
  <2>3. Left(S, T, q, s \ {i})
    BY <1>4
  <2>4. Remaining(q, s) = R \ {k} /\ k \in R
    <3>1. OneByOne(q)
      BY <1>0, RemainingKeys
    <3> HIDE DEF i
    <3> QED BY <2>1, <3>1 DEF OneByOne
  <2>5. k \in Keys(S)
    BY <1>1, <2>1, ToSetIn DEF Keys
  <2> HIDE DEF i, T, k, R, good
  <2>6. Sound(T, {}, {}) /\ Emptied(S, T) /\ Keys(T) = R
    BY <2>3 DEF Left, R
  <2>7. PICK x \in ToSet(T.queue) : x.key = k
    BY <2>4, <2>6 DEF Keys
  <2>8. Sound(it[s], {}, {} \ {x.key}) /\ Stopped(T, it[s], x)
    <3>1. ASSUME NEW Y, Y = {}
          PROVE  Sound(it[s], {}, Y \ {x.key}) /\ Stopped(T, it[s], x)
      <4>1. Sound(T, {}, Y)
        BY <2>6, <3>1
      <4> QED BY <2>2, <2>7, <4>1, StopSound
    <3> QED BY <3>1
  <2>9. Sound(it[s], {}, {})
    <3>1. {} \ {x.key} = {}
      OBVIOUS
    <3> QED BY <2>8, <3>1
  <2>10. Keys(it[s]) = Remaining(q, s)
    <3>1. ByKey(ToSet(T.queue)) /\ ToSet(it[s].queue) = ToSet(T.queue) \ {x}
      BY <2>6, <2>8, SoundFacts DEF Stopped
    <3>2. Keys(it[s]) = Keys(T) \ {k}
      BY <2>7, <3>1 DEF Keys, ByKey
    <3> QED BY <2>4, <2>6, <3>2
  <2>11. Emptied(S, it[s])
    <3>1. \A c \in Clients : c \notin Keys(S) => it[s].page[c] = S.page[c]
      BY <2>5, <2>6, <2>7, <2>8 DEF Emptied, Stopped
    <3>2. \A f \in ToSet(it[s].imgs) : \E e \in ToSet(S.imgs) : f.version = e.version
      <4>1. \A f \in ToSet(it[s].imgs) : \E e \in ToSet(T.imgs) : f.version = e.version
        BY <2>8 DEF Stopped
      <4>2. \A f \in ToSet(T.imgs) : \E e \in ToSet(S.imgs) : f.version = e.version
        BY <2>6 DEF Emptied
      <4> QED BY <4>1, <4>2
    <3>3. it[s].entry = S.entry /\ it[s].size = S.size
      BY <2>6, <2>8 DEF Emptied, Stopped
    <3> QED BY <3>1, <3>2, <3>3 DEF Emptied
  <2> QED BY <2>9, <2>10, <2>11 DEF Left, good
<1>5. D \in good
  <2>1. \A s \in SUBSET (1 .. Len(q)) : s # {} /\ s \ {Max(s)} \in good => s \in good
    BY <1>1, <1>4
  <2> HIDE DEF good, D, q
  <2>2. 1 .. Len(q) \in good
    BY <1>1, <1>3, <2>1, PlacesInd
  <2> QED BY <1>1, <2>2
<1>6. Left(S, V, q, D)
  BY <1>2, <1>5
<1>7. Remaining(q, D) = {}
  BY <1>1, RemainingKeys
<1> QED BY <1>6, <1>7 DEF Left

(***************************************************************************)
(* A clean-up pass: what has clients or is shown stays.                    *)
(***************************************************************************)
Aged(S, e) == IF Unused(S, e) THEN [e EXCEPT !.SurvCleanup = @ - 1] ELSE e

Ages(k, S) ==
  k = [i \in DOMAIN S.imgs |->
         IF Unused(S, S.imgs[i])
         THEN [S.imgs[i] EXCEPT !.SurvCleanup = @ - 1] ELSE S.imgs[i]]

LEMMA AgedFields ==
  ASSUME NEW S, NEW e \in Imgs, NEW f, f = Aged(S, e)
  PROVE  /\ f.version = e.version
         /\ f.SurvCleanup >= 0 => Alike(e, f)
         /\ ~Unused(S, e) => f = e /\ f.SurvCleanup >= 0 /\ Alike(e, f)
<1>1. e.SurvCleanup \in 0 .. SurvPasses
  BY ImgFields
<1>2. CASE Unused(S, e)
  <2>1. f = [e EXCEPT !.SurvCleanup = @ - 1]
    BY <1>2 DEF Aged
  <2>2. f.SurvCleanup = e.SurvCleanup - 1
    BY <2>1 DEF Imgs
  <2>3. f.SurvCleanup >= 0 => e.SurvCleanup - 1 \in 0 .. SurvPasses
    BY <1>1, <2>2, BoundAssumption
  <2>4. f.SurvCleanup >= 0 => f \in Imgs
    BY <2>1, <2>3 DEF Imgs
  <2>5. /\ f.version = e.version /\ f.last = e.last /\ f.valid = e.valid
        /\ f.RefCount = e.RefCount /\ f.State = e.State /\ f.imgbuf = e.imgbuf
        /\ f.ScanNumber = e.ScanNumber /\ f.BitVec = e.BitVec
        /\ f.content = e.content /\ f.DecodedSize = e.DecodedSize
    BY <2>1 DEF Imgs
  <2> QED BY <1>2, <2>4, <2>5 DEF Alike
<1>3. CASE ~Unused(S, e)
  <2>1. f = e
    BY <1>3 DEF Aged
  <2>2. Alike(e, e)
    BY DEF Alike
  <2>3. e.SurvCleanup >= 0
    BY <1>1
  <2> QED BY <1>3, <2>1, <2>2, <2>3
<1> QED BY <1>2, <1>3

LEMMA SeqIn ==
  ASSUME NEW D, NEW k \in Seq(D), NEW E, \A x \in ToSet(k) : x \in E
  PROVE  k \in Seq(E)
<1>1. \A i \in 1 .. Len(k) : k[i] \in E
  BY ToSetIn
<1> QED BY <1>1

LEMMA AgedList ==
  ASSUME NEW S, S.imgs \in Seq(Imgs), IsInjective(S.imgs), ByVersion(ToSet(S.imgs)),
         NEW a, Ages(a, S), NEW P, P = {e \in ToSet(a) : e.SurvCleanup >= 0},
         NEW k, k = Keep(a, P)
  PROVE  /\ k \in Seq(Imgs) /\ IsInjective(k)
         /\ ToSet(k) = {f \in {Aged(S, e) : e \in ToSet(S.imgs)} : f.SurvCleanup >= 0}
<1> DEFINE F == [e \in Imgs |-> Aged(S, e)]
           D == {Aged(S, e) : e \in Imgs}
           E == ToSet(S.imgs)
<1>1. \A e \in E : e \in Imgs
  BY ToSetIn
<1>2. Maps(a, S.imgs, F, Imgs, D)
  <2>1. F \in [Imgs -> D]
    OBVIOUS
  <2>2. \A i \in DOMAIN S.imgs : S.imgs[i] \in Imgs
    OBVIOUS
  <2>3. a = [i \in DOMAIN S.imgs |-> Aged(S, S.imgs[i])]
    BY DEF Ages, Aged
  <2>4. a = [i \in DOMAIN S.imgs |-> F[S.imgs[i]]]
    BY <2>2, <2>3
  <2> QED BY <2>1, <2>4 DEF Maps
<1>3. \A x, y \in E : F[x] = F[y] => x = y
  <2>1. \A x \in E : F[x] = Aged(S, x) /\ F[x].version = x.version
    BY <1>1, AgedFields
  <2> HIDE DEF F
  <2> QED BY <2>1 DEF ByVersion
<1>4. a \in Seq(D) /\ IsInjective(a) /\ ToSet(a) = {F[x] : x \in E}
  <2> HIDE DEF F, D
  <2> QED BY <1>2, <1>3, MapOnce, SMTT(30)
<1>5. {F[x] : x \in E} = {Aged(S, e) : e \in E}
  BY <1>1
<1> HIDE DEF F, D
<1>6. k \in Seq(D) /\ IsInjective(k) /\ ToSet(k) = ToSet(a) \cap P
  <2>1. ASSUME NEW p, k = Keep(a, p)
        PROVE  k \in Seq(D) /\ IsInjective(k) /\ ToSet(k) = ToSet(a) \cap p
    <3>1. a \in Seq(D) /\ IsInjective(a)
      BY <1>4
    <3>2. IsInjective(Keep(a, p))
      BY <3>1, KeepOnce
    <3>3. Keep(a, p) \in Seq(D) /\ ToSet(Keep(a, p)) = ToSet(a) \cap p
      BY <3>1, KeepProperties
    <3> QED BY <2>1, <3>2, <3>3
  <2> QED BY <2>1
<1>7. ToSet(k) = {f \in {Aged(S, e) : e \in E} : f.SurvCleanup >= 0}
  BY <1>4, <1>5, <1>6
<1>8. \A f \in ToSet(k) : f \in Imgs
  <2> SUFFICES ASSUME NEW f \in ToSet(k) PROVE f \in Imgs
    OBVIOUS
  <2>1. PICK e \in E : f = Aged(S, e) /\ f.SurvCleanup >= 0
    BY <1>7
  <2> QED BY <1>1, <2>1, AgedFields DEF Alike
<1>9. k \in Seq(Imgs)
  BY <1>6, <1>8, SeqIn
<1> QED BY <1>6, <1>7, <1>9

LEMMA CleanupSound ==
  ASSUME NEW S, Sound(S, {}, {}), NEW V, V = a_Dicache_cleanup(S)
  PROVE  Sound(V, {}, {}) /\ Rest(V) = Rest(S)
<1> DEFINE a == [i \in DOMAIN S.imgs |->
                   IF Unused(S, S.imgs[i])
                   THEN [S.imgs[i] EXCEPT !.SurvCleanup = @ - 1] ELSE S.imgs[i]]
           k == Keep(a, {e \in ToSet(a) : e.SurvCleanup >= 0})
           E == ToSet(S.imgs)
           Q == ToSet(S.queue)
<1>1. /\ S \in DState /\ S.reused = FALSE
      /\ IsInjective(S.imgs) /\ IsInjective(S.queue) /\ ByVersion(E)
      /\ Good(E, Q, S.page, S.size, Complete(S), {}, {})
  BY SoundFacts
<1>2. S.imgs \in Seq(Imgs) /\ \A e \in E : e \in Imgs
  <2>1. S.imgs \in Seq(Imgs)
    BY <1>1, Fields
  <2> QED BY <2>1, ToSetIn
<1>3. V = [S EXCEPT !.imgs = k]
  BY DEF a_Dicache_cleanup
<1>4. /\ k \in Seq(Imgs) /\ IsInjective(k)
      /\ ToSet(k) = {f \in {Aged(S, e) : e \in E} : f.SurvCleanup >= 0}
  <2>1. Ages(a, S)
    BY DEF Ages
  <2> HIDE DEF a
  <2> QED BY <1>1, <1>2, <2>1, AgedList
<1> HIDE DEF k
<1>5. Good(ToSet(k), Q, S.page, S.size, Complete(S), {}, {})
  <2> DEFINE F == ToSet(k)
  <2>1. \A f \in F : \E e \in E : f = Aged(S, e) /\ f.SurvCleanup >= 0
    BY <1>4
  <2>2. \A f \in F : \E e \in E : Alike(e, f)
    BY <1>2, <2>1, AgedFields
  <2>3. \A f, g \in F : f.version = g.version => f = g
    <3> SUFFICES ASSUME NEW f \in F, NEW g \in F, f.version = g.version
                 PROVE  f = g
      OBVIOUS
    <3>1. PICK x \in E : f = Aged(S, x)
      BY <2>1
    <3>2. PICK y \in E : g = Aged(S, y)
      BY <2>1
    <3>3. x.version = y.version
      BY <1>2, <3>1, <3>2, AgedFields
    <3> QED BY <1>1, <3>1, <3>2, <3>3 DEF ByVersion
  <2>4. \A e \in E : ~Unused(S, e) => \E f \in F : Alike(e, f)
    <3> SUFFICES ASSUME NEW e \in E, ~Unused(S, e) PROVE \E f \in F : Alike(e, f)
      OBVIOUS
    <3> DEFINE f == Aged(S, e)
    <3>1. f.SurvCleanup >= 0 /\ Alike(e, f)
      BY <1>2, AgedFields
    <3> QED BY <1>4, <3>1
  <2>5. \A e \in E : e.imgbuf /\ (\E c \in Clients : S.page[c].shows = e.version)
                       => \E f \in F : Alike(e, f)
    BY <2>4 DEF Unused
  <2>6. \A e \in E : e.valid /\ Called(Q) # {} => \E f \in F : Alike(e, f)
    <3> SUFFICES ASSUME NEW e \in E, e.valid, Called(Q) # {}
                 PROVE  e.RefCount # 0
      BY <2>4 DEF Unused
    <3>1. SoundClients(Q, S.page) /\ e.RefCount = Cardinality(Called(Q))
      BY <1>1 DEF Good
    <3>2. PICK q \in Q : q.Callback
      BY DEF Called
    <3>3. Cardinality(Called(Q)) \in Nat \ {0}
      <4> HIDE DEF Q
      <4> QED BY <3>1, <3>2, CalledLess
    <3> QED BY <3>1, <3>3
  <2> HIDE DEF F, E, Q
  <2>7. Good(F, Q, S.page, S.size, Complete(S), {}, {})
    BY <1>1, <2>2, <2>3, <2>5, <2>6, AlikeEntries
  <2> QED BY <2>7 DEF F
<1>6. V \in DState /\ V.reused = FALSE
  BY <1>1, <1>3, <1>4 DEF DState
<1>7. /\ V.imgs = k /\ V.queue = S.queue /\ V.page = S.page
      /\ V.entry = S.entry /\ V.size = S.size /\ V.delayed = S.delayed
  BY <1>1, <1>3 DEF DState
<1>8. Complete(V) = Complete(S)
  BY <1>7 DEF Complete
<1>9. Good(ToSet(V.imgs), ToSet(V.queue), V.page, V.size, Complete(V), {}, {})
  BY <1>5, <1>7, <1>8
<1> QED BY <1>1, <1>4, <1>6, <1>7, <1>9 DEF Sound, Listed, Rest

(* Cache_process_queue, when there is something to feed the clients.       *)
LEMMA ProcessSound ==
  ASSUME NEW S, Sound(S, {}, Keys(S)), S.size > 0 \/ Complete(S),
         NEW d \in Outcomes, NEW V, V = Cache_process_queue(S, d, FALSE)
  PROVE  Reused(V) \/ (Sound(V, {}, {}) /\ Rest(V) = Rest(S))
<1> DEFINE P == FeedAll(S, S.queue, d)
<1>1. ~(S.size = 0 /\ S.entry = "loading")
  BY DEF Complete
<1>2. V = IF P.queue = <<>> THEN a_Dicache_cleanup(P) ELSE P
  BY <1>1 DEF Cache_process_queue, FeedAll
<1>3. Reused(P) \/ (Sound(P, {}, {}) /\ Rest(P) = Rest(S))
  BY FeedAllSound
<1> HIDE DEF P
<1>4. CASE Reused(P)
  <2>1. \E k : a_Dicache_cleanup(P) = [P EXCEPT !.imgs = k]
    BY DEF a_Dicache_cleanup
  <2>2. Reused(a_Dicache_cleanup(P))
    BY <1>4, <2>1 DEF Reused
  <2> QED BY <1>2, <1>4, <2>2
<1>5. CASE Sound(P, {}, {}) /\ Rest(P) = Rest(S)
  BY <1>2, <1>5, CleanupSound
<1> QED BY <1>3, <1>4, <1>5

(* Cache_entry_remove: all clients are stopped, the version is no longer   *)
(* valid.                                                                  *)
Invalid(e) == [e EXCEPT !.valid = FALSE]

LEMMA InvalidList ==
  ASSUME NEW L \in Seq(Imgs), IsInjective(L), ByVersion(ToSet(L)),
         NEW k, k = a_Dicache_invalidate_entry(L)
  PROVE  \/ k = L
         \/ \E e \in ToSet(L) :
              (Invalid(e) \in Imgs) =>
                /\ k \in Seq(Imgs) /\ IsInjective(k)
                /\ ToSet(k) = (ToSet(L) \ {e}) \cup {Invalid(e)}
<1> DEFINE i == Current(L)
           e == L[i]
           f == Invalid(e)
<1>1. CASE i = 0
  BY <1>1 DEF a_Dicache_invalidate_entry
<1>2. CASE i # 0
  <2>1. i \in 1 .. Len(L) /\ e \in ToSet(L) /\ e \in Imgs
    <3>1. i \in 1 .. Len(L) /\ e \in ToSet(L)
      BY <1>2, CurrentPlace
    <3> QED BY <3>1, ToSetIn
  <2>2. k = [L EXCEPT ![i].valid = FALSE]
    BY <1>2 DEF a_Dicache_invalidate_entry
  <2>3. Replaces(k, L, i, f)
    BY <2>2 DEF Replaces, Invalid
  <2>4. f.version = e.version
    BY <2>1 DEF Imgs, Invalid
  <2> HIDE DEF f
  <2>5. ASSUME f \in Imgs
        PROVE  /\ k \in Seq(Imgs) /\ IsInjective(k)
               /\ ToSet(k) = (ToSet(L) \ {e}) \cup {f}
    <3> HIDE DEF i
    <3> QED BY <2>1, <2>3, <2>4, <2>5, ReplaceEntry
  <2> QED BY <2>1, <2>5 DEF f
<1> QED BY <1>1, <1>2

\* What is left when the entry is gone.
Removed(S, V) ==
  /\ Sound(V, {}, {}) /\ ToSet(V.queue) = {}
  /\ V.entry = "none" /\ V.delayed = FALSE
  /\ \A c \in Clients : c \notin Keys(S) => V.page[c] = S.page[c]

LEMMA RemoveSound ==
  ASSUME NEW S, Sound(S, {}, {}), S.entry # "none",
         \A e \in ToSet(S.imgs) : e.version < MaxVersion,
         NEW V, V = Cache_entry_remove(S)
  PROVE  Removed(S, V)
<1> DEFINE T == StopAll(S, S.queue)
           k == a_Dicache_invalidate_entry(T.imgs)
           E == ToSet(T.imgs)
<1>1. V = [T EXCEPT !.imgs = k, !.entry = "none", !.size = 0, !.delayed = FALSE]
  BY DEF Cache_entry_remove, StopAll
<1>2. Sound(T, {}, {}) /\ Emptied(S, T) /\ Keys(T) = {}
  BY StopAllSound
<1> HIDE DEF T
<1>3. ToSet(T.queue) = {}
  BY <1>2 DEF Keys
<1>4. /\ T \in DState /\ T.reused = FALSE
      /\ IsInjective(T.imgs) /\ IsInjective(T.queue) /\ ByVersion(E)
      /\ Good(E, {}, T.page, T.size, Complete(T), {}, {})
  BY <1>2, <1>3, SoundFacts
<1>5. T.imgs \in Seq(Imgs)
  BY <1>4, Fields
<1>6. \A e \in E : e.version < MaxVersion
  BY <1>2 DEF Emptied
<1>7. ASSUME NEW m, NEW comp2
      PROVE  /\ k \in Seq(Imgs) /\ IsInjective(k)
             /\ Good(ToSet(k), {}, T.page, m, comp2, {}, {})
  <2> HIDE DEF k
  <2>1. \/ k = T.imgs
        \/ \E e \in E :
              (Invalid(e) \in Imgs) =>
                /\ k \in Seq(Imgs) /\ IsInjective(k)
                /\ ToSet(k) = (E \ {e}) \cup {Invalid(e)}
    BY <1>4, <1>5, InvalidList DEF k
  <2>2. CASE k = T.imgs
    <3>1. Good(E, {}, T.page, m, comp2, {}, {})
      BY <1>4, NoQueueGood
    <3> QED BY <1>4, <1>5, <2>2, <3>1
  <2>3. ASSUME NEW e \in E,
               (Invalid(e) \in Imgs) =>
                 /\ k \in Seq(Imgs) /\ IsInjective(k)
                 /\ ToSet(k) = (E \ {e}) \cup {Invalid(e)}
        PROVE  /\ k \in Seq(Imgs) /\ IsInjective(k)
               /\ Good(ToSet(k), {}, T.page, m, comp2, {}, {})
    <3> DEFINE f == [e EXCEPT !.valid = FALSE]
    <3>1. Invalid(e) = f
      BY DEF Invalid
    <3>2. e \in E /\ e.version < MaxVersion
      BY <1>6
    <3> HIDE DEF E
    <3>3. Good((E \ {e}) \cup {f}, {}, T.page, m, comp2, {}, {}) /\ f \in Imgs
      BY <1>4, <3>2, InvalidGood
    <3> HIDE DEF f
    <3> QED BY <2>3, <3>1, <3>3
  <2> QED BY <2>1, <2>2, <2>3
<1> HIDE DEF k
<1>8. V \in DState /\ V.reused = FALSE
  <2>1. 0 \in 0 .. MaxData /\ k \in Seq(Imgs)
    BY <1>7, BoundAssumption
  <2> QED BY <1>1, <1>4, <2>1 DEF DState
<1>9. /\ V.imgs = k /\ V.queue = T.queue /\ V.page = T.page
      /\ V.entry = "none" /\ V.delayed = FALSE
  BY <1>1, <1>4 DEF DState
<1>10. /\ IsInjective(k)
       /\ Good(ToSet(V.imgs), ToSet(V.queue), V.page, V.size, Complete(V), {}, {})
  <2>1. Good(ToSet(k), {}, T.page, V.size, Complete(V), {}, {})
    BY <1>7
  <2> QED BY <1>3, <1>7, <1>9, <2>1
<1>11. Sound(V, {}, {})
  BY <1>4, <1>8, <1>9, <1>10 DEF Sound, Listed
<1>12. \A c \in Clients : c \notin Keys(S) => V.page[c] = S.page[c]
  BY <1>2, <1>9 DEF Emptied
<1> QED BY <1>3, <1>9, <1>11, <1>12 DEF Removed

(***************************************************************************)
(* The handlers.                                                           *)
(***************************************************************************)
\* The state after a handler, when no mishap is let in.
LEMMA BecomeSound ==
  ASSUME Mishaps = {}, NEW V, Become(V), Reused(V) \/ Sound(V, {}, {})
  PROVE  /\ Sound(State', {}, {})
         /\ entry' = V.entry /\ delayed' = V.delayed
<1>1. /\ CachedIMGs' = V.imgs /\ ClientQueue' = V.queue /\ entry' = V.entry
      /\ size' = V.size /\ delayed' = V.delayed /\ page' = V.page
      /\ ~V.reused
  BY DEF Become
<1>2. Sound(V, {}, {})
  BY <1>1 DEF Reused
<1>3. V \in DState /\ V.reused = FALSE
  BY <1>2 DEF Sound, Listed
<1>4. State' = V
  BY <1>1, <1>3 DEF State, DState
<1> QED BY <1>1, <1>2, <1>4

LEMMA StateFields ==
  /\ State.imgs = CachedIMGs /\ State.queue = ClientQueue /\ State.entry = entry
  /\ State.size = size /\ State.delayed = delayed /\ State.page = page
  /\ State.reused = FALSE
BY DEF State

LEMMA DecodableOutcomes ==
  ASSUME NEW S, NEW d \in Decodable(S)
  PROVE  d \in Outcomes
<1>1. Nothing \in Outcomes
  BY DEF Outcomes
<1> QED BY <1>1 DEF Decodable

\* The data grow, or the entry is complete, and every client has its turn.
LEMMA NewsSound ==
  ASSUME NEW S, Sound(S, {}, {}), NEW T,
         \/ T = [S EXCEPT !.size = @ + 1] /\ S.size < MaxData /\ ~Complete(S)
         \/ T = [S EXCEPT !.entry = "complete"]
         \/ T = S
  PROVE  Sound(T, {}, Keys(T)) /\ T.delayed = S.delayed
<1> DEFINE Q == ToSet(S.queue)
<1>1. S \in DState /\ S.size \in 0 .. MaxData
      /\ Good(ToSet(S.imgs), Q, S.page, S.size, Complete(S), {}, {})
      /\ S.reused = FALSE /\ IsInjective(S.imgs) /\ IsInjective(S.queue)
  BY SoundFacts, Fields
<1>2. \/ T.size = S.size
      \/ T.size = S.size + 1 /\ S.size + 1 \in 0 .. MaxData
         /\ Complete(T) = FALSE
  BY <1>1, BoundAssumption DEF DState, Complete
<1>3. /\ T.imgs = S.imgs /\ T.queue = S.queue /\ T.page = S.page
      /\ T.delayed = S.delayed /\ T.reused = S.reused
  BY <1>1 DEF DState
<1>4. T \in DState
  BY <1>1, <1>2 DEF DState
<1>5. Good(ToSet(S.imgs), Q, S.page, T.size, Complete(T), {}, Keys(T))
  <2>1. \A q \in Q : q.key \in Keys(T)
    BY <1>3 DEF Keys
  <2> HIDE DEF Q
  <2>2. ASSUME NEW m, m = T.size, NEW c, c = Complete(T), NEW n, n = S.size
        PROVE  Good(ToSet(S.imgs), Q, S.page, m, c, {}, Keys(T))
    <3>1. m = n \/ (c = FALSE /\ \A q \in Q : q.key \in Keys(T))
      BY <1>2, <2>1, <2>2
    <3>2. Good(ToSet(S.imgs), Q, S.page, n, Complete(S), {}, {})
      BY <1>1, <2>2
    <3> QED BY <3>1, <3>2, MoreData
  <2> QED BY <2>2
<1> QED BY <1>1, <1>3, <1>4, <1>5 DEF Sound, Listed

\* Every handler ends in a state that is handed to Become.
LEMMA BecomeInv ==
  ASSUME Mishaps = {}, NEW V, Become(V), Reused(V) \/ Sound(V, {}, {}),
         V.delayed => V.entry # "none"
  PROVE  IInv'
<1>1. Sound(State', {}, {}) /\ entry' = V.entry /\ delayed' = V.delayed
  BY BecomeSound
<1> QED BY <1>1 DEF IInv

LEMMA InitInv == Init => IInv
<1> SUFFICES ASSUME Init PROVE IInv
  OBVIOUS
<1>1. /\ CachedIMGs = <<>> /\ ClientQueue = <<>> /\ entry = "none" /\ size = 0
      /\ delayed = FALSE /\ page = [c \in Clients |-> NoPage]
  BY DEF Init
<1>2. NoPage \in Pages /\ NoPage.at = "none" /\ NoPage.shows = 0
  <2>1. 0 \in 0 .. MaxVersion /\ Blank \in Content
    BY BoundAssumption DEF Blank, Content
  <2> QED BY <2>1 DEF Pages, NoPage
<1>3. page \in [Clients -> Pages] /\ \A c \in Clients : page[c] = NoPage
  BY <1>1, <1>2
<1>4. ToSet(<<>>) = {} /\ IsInjective(<<>>)
  BY DEF ToSet, IsInjective
<1>5. State \in DState
  <2>1. <<>> \in Seq(Imgs) /\ <<>> \in Seq(Queued) /\ 0 \in 0 .. MaxData
    BY BoundAssumption
  <2> QED BY <1>1, <1>3, <2>1 DEF DState, State
<1>6. Listed(State)
  BY <1>1, <1>4, <1>5, StateFields DEF Listed
<1>7. ASSUME NEW n, NEW complete PROVE Good({}, {}, page, n, complete, {}, {})
  <2>1. SoundEntries({})
    BY DEF SoundEntries
  <2>2. SoundClients({}, page)
    BY <1>2, <1>3, FS_EmptySet DEF SoundClients
  <2>3. SoundPages({}, page)
    BY <1>2, <1>3 DEF SoundPages, PageOK
  <2>4. Called({}) = {}
    BY DEF Called
  <2> QED BY <2>1, <2>2, <2>3, <2>4 DEF Good
<1>8. Good(ToSet(State.imgs), ToSet(State.queue), State.page, State.size,
           Complete(State), {}, {})
  BY <1>1, <1>4, <1>7, StateFields
<1> QED BY <1>1, <1>6, <1>8 DEF IInv, Sound

(* A request joins the queue; the data are fetched, or the queue is run    *)
(* again.                                                                  *)
Asked(R, c) ==
  LET Q == [R EXCEPT !.queue = Append(@, NewClient(c)), !.page[c].at = "queued"]
  IN IF R.entry = "none" THEN [Q EXCEPT !.entry = "loading"]
     ELSE [Q EXCEPT !.delayed = TRUE]

LEMMA AskSound ==
  ASSUME NEW R, Sound(R, {}, {}), R.delayed => R.entry # "none",
         NEW c \in Clients, R.page[c].at = "none", NEW V, V = Asked(R, c)
  PROVE  Sound(V, {}, {}) /\ (V.delayed => V.entry # "none")
<1> DEFINE q == NewClient(c)
           k == Append(R.queue, q)
           pg2 == [R.page EXCEPT ![c].at = "queued"]
           E == ToSet(R.imgs)
           Q == ToSet(R.queue)
<1>1. /\ R \in DState /\ R.reused = FALSE
      /\ IsInjective(R.imgs) /\ IsInjective(R.queue)
      /\ Good(E, Q, R.page, R.size, Complete(R), {}, {})
  BY SoundFacts
<1>2. R.queue \in Seq(Queued)
  BY <1>1, Fields
<1>3. Good(E, Q \cup {q}, pg2, R.size, Complete(R), {}, {}) /\ q \in Queued /\ q \notin Q
  <2> HIDE DEF E, Q, q, pg2
  <2>1. ASSUME NEW pg, pg = R.page
        PROVE  /\ Good(E, Q \cup {q}, pg2, R.size, Complete(R), {}, {})
               /\ q \in Queued /\ q \notin Q
    <3>1. pg2 = [pg EXCEPT ![c].at = "queued"] /\ pg[c].at = "none"
      BY <2>1 DEF pg2
    <3>2. Good(E, Q, pg, R.size, Complete(R), {}, {})
      BY <1>1, <2>1
    <3> QED BY <3>1, <3>2, AskGood DEF q
  <2> QED BY <2>1
<1>4. k \in Seq(Queued) /\ ToSet(k) = Q \cup {q} /\ IsInjective(k)
  <2> HIDE DEF q
  <2> QED BY <1>1, <1>2, <1>3, AppendSet, AppendOnce
<1>5. pg2 \in [Clients -> Pages]
  BY <1>3 DEF Good, SoundPages
<1> HIDE DEF q, k, pg2
<1>6. \/ R.entry = "none" /\ V = [R EXCEPT !.queue = k, !.page = pg2, !.entry = "loading"]
      \/ R.entry # "none" /\ V = [R EXCEPT !.queue = k, !.page = pg2, !.delayed = TRUE]
  BY <1>1 DEF Asked, DState, q, k, pg2
<1>7. /\ V.imgs = R.imgs /\ V.queue = k /\ V.page = pg2 /\ V.size = R.size
      /\ V.reused = FALSE
      /\ \/ V.entry = R.entry /\ R.entry # "none"
         \/ V.entry = "loading" /\ R.entry = "none"
  BY <1>1, <1>6 DEF DState
<1>8. V \in DState
  BY <1>1, <1>4, <1>5, <1>6 DEF DState
<1>9. Complete(V) = Complete(R)
  BY <1>7 DEF Complete
<1>10. Good(ToSet(V.imgs), ToSet(V.queue), V.page, V.size, Complete(V), {}, {})
  BY <1>3, <1>4, <1>7, <1>9
<1>11. Listed(V)
  BY <1>1, <1>4, <1>7, <1>8 DEF Listed
<1> QED BY <1>7, <1>10, <1>11 DEF Sound

\* The bound on the versions lets the entry be removed.
LEMMA MoreToCome ==
  ASSUME IInv, MoreVersions
  PROVE  \A e \in ToSet(State.imgs) : e.version < MaxVersion
BY StateFields DEF MoreVersions, ToSet

LEMMA RequestInv ==
  ASSUME Mishaps = {}, IInv, NEW c \in Clients, NEW reload \in BOOLEAN,
         Request(c, reload)
  PROVE  IInv'
<1> DEFINE R == IF reload THEN Cache_entry_remove(State) ELSE State
<1>1. /\ Sound(State, {}, {}) /\ (delayed => entry # "none")
      /\ page[c].at = "none" /\ (reload => MoreVersions) /\ Become(Asked(R, c))
  BY DEF IInv, Request, Asked
<1>2. c \notin Keys(State)
  <2>1. \A q \in ToSet(State.queue) : ClientOK(q, State.page[q.key])
    BY <1>1, SoundFacts
  <2> QED BY <1>1, <2>1, StateFields DEF Keys, ClientOK
<1>3. /\ Sound(R, {}, {}) /\ (R.delayed => R.entry # "none") /\ R.page[c].at = "none"
  <2>1. CASE ~reload \/ entry = "none"
    <3>1. R = State
      BY <2>1, StateFields DEF Cache_entry_remove
    <3> QED BY <3>1, <1>1, StateFields
  <2>2. CASE reload /\ entry # "none"
    <3>1. \A e \in ToSet(State.imgs) : e.version < MaxVersion
      BY <1>1, <2>2, MoreToCome
    <3>2. R = Cache_entry_remove(State) /\ State.entry # "none"
      BY <2>2, StateFields
    <3> HIDE DEF R
    <3>3. Removed(State, R)
      BY <1>1, <3>1, <3>2, RemoveSound
    <3> QED BY <1>1, <1>2, <3>3, StateFields DEF Removed
  <2> QED BY <2>1, <2>2
<1> HIDE DEF R
<1> DEFINE V == Asked(R, c)
<1>4. Sound(V, {}, {}) /\ (V.delayed => V.entry # "none")
  BY <1>3, AskSound
<1> HIDE DEF V
<1>5. Become(V)
  BY <1>1 DEF V
<1> QED BY <1>4, <1>5, BecomeInv

\* No run of the queue is due once a client was stopped.
LEMMA StopDelayed ==
  ASSUME NEW S \in DState, NEW k, NEW V, V = a_Cache_stop_client(S, k)
  PROVE  V.delayed = FALSE
BY DEF a_Cache_stop_client, Dequeue, DState

LEMMA StopInv ==
  ASSUME Mishaps = {}, IInv, NEW c \in Clients, NEW force \in BOOLEAN, Stop(c, force)
  PROVE  IInv'
<1> DEFINE last == /\ Len(ClientQueue) = 1 /\ entry = "loading"
                   /\ (force \/ ~ClientQueue[1].Callback)
           V == IF last THEN Cache_entry_remove(State) ELSE a_Cache_stop_client(State, c)
<1>1. /\ Sound(State, {}, {}) /\ page[c].at = "queued"
      /\ (last => MoreVersions) /\ Become(V)
  BY DEF IInv, Stop
<1>2. CASE last
  <2>1. \A e \in ToSet(State.imgs) : e.version < MaxVersion
    BY <1>1, <1>2, MoreToCome
  <2>2. V = Cache_entry_remove(State) /\ State.entry # "none"
    BY <1>2, StateFields
  <2> HIDE DEF V
  <2>3. Removed(State, V)
    BY <1>1, <2>1, <2>2, RemoveSound
  <2> QED BY <1>1, <2>3, BecomeInv DEF Removed
<1>3. CASE ~last
  <2>1. V = a_Cache_stop_client(State, c)
    BY <1>3
  <2> HIDE DEF V, last
  <2>2. PICK q \in ToSet(State.queue) : q.key = c
    <3>1. SoundClients(ToSet(State.queue), State.page)
      BY <1>1, SoundFacts DEF Good
    <3> QED BY <1>1, <3>1, StateFields DEF SoundClients
  <2>3. Sound(V, {}, {})
    <3>1. ASSUME NEW Y, Y = {} PROVE Sound(V, {}, Y \ {q.key})
      <4>1. Sound(State, {}, Y)
        BY <1>1, <3>1
      <4> QED BY <2>1, <2>2, <4>1, StopSound
    <3>2. {} \ {q.key} = {}
      OBVIOUS
    <3> QED BY <3>1, <3>2
  <2>4. V.delayed = FALSE
    <3>1. State \in DState
      BY <1>1, SoundFacts
    <3> QED BY <2>1, <3>1, StopDelayed
  <2> QED BY <1>1, <2>3, <2>4, BecomeInv
<1> QED BY <1>2, <1>3

LEMMA LeavePageInv ==
  ASSUME Mishaps = {}, IInv, NEW c \in Clients, LeavePage(c)
  PROVE  IInv'
<1> DEFINE V == [State EXCEPT !.page[c] = NoPage]
           pg2 == [State.page EXCEPT ![c] = NoPage]
<1>1. /\ Sound(State, {}, {}) /\ (delayed => entry # "none")
      /\ page[c].at \in {"done", "stopped"} /\ Become(V)
  BY DEF IInv, LeavePage
<1>2. /\ State \in DState /\ State.reused = FALSE
      /\ IsInjective(State.imgs) /\ IsInjective(State.queue)
      /\ Good(ToSet(State.imgs), ToSet(State.queue), State.page, State.size,
              Complete(State), {}, {})
  BY <1>1, SoundFacts
<1>3. Good(ToSet(State.imgs), ToSet(State.queue), pg2, State.size, Complete(State), {}, {})
  <2> HIDE DEF pg2, V
  <2>1. ASSUME NEW pg, pg = State.page, NEW n, n = State.size,
               NEW E, E = ToSet(State.imgs), NEW Q, Q = ToSet(State.queue),
               NEW complete, complete = Complete(State)
        PROVE  Good(E, Q, pg2, n, complete, {}, {})
    <3>1. Good(E, Q, pg, n, complete, {}, {})
      BY <1>2, <2>1
    <3>2. pg2 = [pg EXCEPT ![c] = NoPage] /\ pg[c].at # "queued"
      BY <1>1, <2>1, StateFields DEF pg2
    <3> QED BY <3>1, <3>2, LeaveGood
  <2> QED BY <2>1
<1>4. pg2 \in [Clients -> Pages]
  BY <1>3 DEF Good, SoundPages
<1> HIDE DEF pg2
<1>5. V = [State EXCEPT !.page = pg2]
  BY <1>2 DEF pg2, DState
<1> HIDE DEF V
<1>6. /\ V.imgs = State.imgs /\ V.queue = State.queue /\ V.page = pg2
      /\ V.size = State.size /\ V.entry = State.entry
      /\ V.delayed = State.delayed /\ V.reused = FALSE /\ V \in DState
  BY <1>2, <1>4, <1>5 DEF DState
<1>7. Good(ToSet(V.imgs), ToSet(V.queue), V.page, V.size, Complete(V), {}, {})
  BY <1>3, <1>6 DEF Complete
<1>8. Sound(V, {}, {})
  BY <1>2, <1>6, <1>7 DEF Sound, Listed
<1> QED BY <1>1, <1>6, <1>8, BecomeInv, StateFields

\* The queue is run: the entry is what it was.
LEMMA RunInv ==
  ASSUME NEW S, Sound(S, {}, Keys(S)), S.size > 0 \/ Complete(S),
         NEW d \in Decodable(S), NEW V, V = Cache_process_queue(S, d, FALSE)
  PROVE  /\ Reused(V) \/ Sound(V, {}, {})
         /\ ~Reused(V) => V.entry = S.entry /\ V.delayed = S.delayed
<1>1. d \in Outcomes
  BY DecodableOutcomes
<1>2. Reused(V) \/ (Sound(V, {}, {}) /\ Rest(V) = Rest(S))
  BY <1>1, ProcessSound
<1> QED BY <1>2 DEF Rest

LEMMA ReceiveInv ==
  ASSUME Mishaps = {}, IInv, NEW attachment \in BOOLEAN, Receive(attachment)
  PROVE  IInv'
<1> DEFINE R == [State EXCEPT !.size = @ + 1]
<1>1. /\ Sound(State, {}, {}) /\ entry = "loading" /\ size < MaxData
      /\ attachment = FALSE
      /\ \E d \in Decodable(R) : Become(Cache_process_queue(R, d, attachment))
  BY DEF IInv, Receive
<1>2. State \in DState /\ size \in 0 .. MaxData
  BY <1>1, SoundFacts, Fields, StateFields
<1>3. R.entry = "loading" /\ R.size = size + 1 /\ R.size > 0
  BY <1>1, <1>2, StateFields, BoundAssumption DEF State
<1>4. Sound(R, {}, Keys(R))
  <2>1. State.size < MaxData /\ ~Complete(State)
    BY <1>1, StateFields DEF Complete
  <2>2. ASSUME NEW T, T = R PROVE Sound(T, {}, Keys(T))
    <3>1. T = [State EXCEPT !.size = @ + 1]
      BY <2>2
    <3> HIDE DEF R
    <3> QED BY <1>1, <2>1, <3>1, NewsSound
  <2> HIDE DEF R
  <2> QED BY <2>2
<1> HIDE DEF R
<1>5. PICK d \in Decodable(R) : Become(Cache_process_queue(R, d, FALSE))
  BY <1>1
<1> DEFINE V == Cache_process_queue(R, d, FALSE)
<1>6. /\ Reused(V) \/ Sound(V, {}, {})
      /\ ~Reused(V) => V.entry = R.entry
  BY <1>3, <1>4, RunInv
<1> HIDE DEF V
<1>7. Become(V)
  BY <1>5 DEF V
<1>8. V.entry # "none"
  BY <1>3, <1>6, <1>7 DEF Become, Reused
<1> QED BY <1>6, <1>7, <1>8, BecomeInv

LEMMA FinishInv ==
  ASSUME Mishaps = {}, IInv, Finish
  PROVE  IInv'
<1> DEFINE R == [State EXCEPT !.entry = "complete"]
<1>1. /\ Sound(State, {}, {})
      /\ \E d \in Decodable(R) : Become(Cache_process_queue(R, d, FALSE))
  BY DEF IInv, Finish
<1>2. R.entry = "complete" /\ Complete(R)
  BY DEF State, Complete
<1>3. Sound(R, {}, Keys(R))
  <2>1. ASSUME NEW T, T = R PROVE Sound(T, {}, Keys(T))
    <3>1. T = [State EXCEPT !.entry = "complete"]
      BY <2>1
    <3> HIDE DEF R
    <3> QED BY <1>1, <3>1, NewsSound
  <2> HIDE DEF R
  <2> QED BY <2>1
<1> HIDE DEF R
<1>4. PICK d \in Decodable(R) : Become(Cache_process_queue(R, d, FALSE))
  BY <1>1
<1> DEFINE V == Cache_process_queue(R, d, FALSE)
<1>5. /\ Reused(V) \/ Sound(V, {}, {})
      /\ ~Reused(V) => V.entry = R.entry
  BY <1>2, <1>3, RunInv
<1> HIDE DEF V
<1>6. Become(V)
  BY <1>4 DEF V
<1>7. V.entry # "none"
  BY <1>2, <1>5, <1>6 DEF Become, Reused
<1> QED BY <1>5, <1>6, <1>7, BecomeInv

\* Only a run that was due is taken off.
LEMMA NotDelayed ==
  ASSUME NEW V, Reused(V) \/ Sound(V, {}, {}), NEW W, W = [V EXCEPT !.delayed = FALSE]
  PROVE  (Reused(W) \/ Sound(W, {}, {})) /\ (~Reused(W) => W.delayed = FALSE)
<1>1. CASE Reused(V)
  <2>1. Reused(W)
    BY <1>1 DEF Reused
  <2> QED BY <2>1
<1>2. CASE Sound(V, {}, {})
  <2>1. /\ V \in DState /\ V.reused = FALSE
        /\ IsInjective(V.imgs) /\ IsInjective(V.queue)
        /\ Good(ToSet(V.imgs), ToSet(V.queue), V.page, V.size, Complete(V), {}, {})
    BY <1>2, SoundFacts
  <2>2. /\ W.imgs = V.imgs /\ W.queue = V.queue /\ W.page = V.page
        /\ W.size = V.size /\ W.entry = V.entry /\ W.delayed = FALSE
        /\ W.reused = FALSE /\ W \in DState
    BY <2>1 DEF DState
  <2>3. Good(ToSet(W.imgs), ToSet(W.queue), W.page, W.size, Complete(W), {}, {})
    BY <2>1, <2>2 DEF Complete
  <2>4. Sound(W, {}, {})
    BY <2>1, <2>2, <2>3 DEF Sound, Listed
  <2> QED BY <2>2, <2>4
<1> QED BY <1>1, <1>2

LEMMA DelayedInv ==
  ASSUME Mishaps = {}, IInv, Delayed
  PROVE  IInv'
<1>1. /\ Sound(State, {}, {}) /\ delayed /\ entry # "none"
      /\ \E d \in Decodable(State) :
           Become([Cache_process_queue(State, d, FALSE) EXCEPT !.delayed = FALSE])
  BY DEF IInv, Delayed
<1>2. PICK d \in Decodable(State) :
        Become([Cache_process_queue(State, d, FALSE) EXCEPT !.delayed = FALSE])
  BY <1>1
<1> DEFINE V == Cache_process_queue(State, d, FALSE)
           W == [V EXCEPT !.delayed = FALSE]
<1>3. Reused(V) \/ Sound(V, {}, {})
  <2>1. CASE size = 0 /\ entry = "loading"
    <3>1. V = State
      BY <2>1, StateFields DEF Cache_process_queue
    <3> QED BY <1>1, <3>1
  <2>2. CASE ~(size = 0 /\ entry = "loading")
    <3>1. State \in DState /\ State.size \in 0 .. MaxData
          /\ State.entry \in {"none", "loading", "complete"}
      BY <1>1, SoundFacts, Fields
    <3>2. State.size > 0 \/ Complete(State)
      BY <1>1, <2>2, <3>1, StateFields, BoundAssumption DEF Complete
    <3>3. Sound(State, {}, Keys(State))
      BY <1>1, NewsSound
    <3> QED BY <3>2, <3>3, RunInv
  <2> QED BY <2>1, <2>2
<1> HIDE DEF V
<1>4. (Reused(W) \/ Sound(W, {}, {})) /\ (~Reused(W) => W.delayed = FALSE)
  BY <1>3, NotDelayed
<1>5. Become(W)
  BY <1>2 DEF V
<1> HIDE DEF W
<1>6. ~W.delayed
  BY <1>4, <1>5 DEF Become, Reused
<1> QED BY <1>4, <1>5, <1>6, BecomeInv

(* The invariant holds in every state: every handler keeps it.             *)
THEOREM Invariance == ASSUME Mishaps = {} PROVE Spec => []IInv
<1>1. IInv /\ [Next]_vars => IInv'
  <2> SUFFICES ASSUME IInv, [Next]_vars PROVE IInv'
    OBVIOUS
  <2>1. CASE \E c \in Clients, reload \in BOOLEAN : Request(c, reload)
    BY <2>1, RequestInv
  <2>2. CASE \E c \in Clients, force \in BOOLEAN : Stop(c, force)
    BY <2>2, StopInv
  <2>3. CASE \E c \in Clients : LeavePage(c)
    BY <2>3, LeavePageInv
  <2>4. CASE \E attachment \in BOOLEAN : Receive(attachment)
    BY <2>4, ReceiveInv
  <2>5. CASE Finish
    BY <2>5, FinishInv
  <2>6. CASE Delayed
    BY <2>6, DelayedInv
  <2>7. CASE UNCHANGED vars
    <3>1. State' = State /\ entry' = entry /\ delayed' = delayed
      BY <2>7 DEF vars, State
    <3> QED BY <3>1 DEF IInv
  <2> QED BY <2>1, <2>2, <2>3, <2>4, <2>5, <2>6, <2>7 DEF Next
<1> QED BY InitInv, <1>1, PTL DEF Spec
-----------------------------------------------------------------------------
(***************************************************************************)
(* The properties.                                                         *)
(***************************************************************************)
\* What the invariant says of the variables.
LEMMA InvFacts ==
  ASSUME IInv, NEW E, E = ToSet(CachedIMGs), NEW Q, Q = ToSet(ClientQueue)
  PROVE  /\ CachedIMGs \in Seq(Imgs) /\ ClientQueue \in Seq(Queued)
         /\ IsInjective(CachedIMGs) /\ IsInjective(ClientQueue)
         /\ entry \in {"none", "loading", "complete"} /\ size \in 0 .. MaxData
         /\ delayed \in BOOLEAN /\ page \in [Clients -> Pages]
         /\ SoundEntries(E) /\ SoundClients(Q, page) /\ SoundPages(E, page)
         /\ Good(E, Q, page, size, Complete(State), {}, {})
<1>1. Sound(State, {}, {})
  BY DEF IInv
<1>2. /\ State \in DState /\ IsInjective(CachedIMGs) /\ IsInjective(ClientQueue)
      /\ Good(E, Q, page, size, Complete(State), {}, {})
  BY <1>1, SoundFacts, StateFields
<1>3. SoundEntries(E) /\ SoundClients(Q, page) /\ SoundPages(E, page)
  BY <1>2 DEF Good
<1>4. /\ CachedIMGs \in Seq(Imgs) /\ ClientQueue \in Seq(Queued)
      /\ entry \in {"none", "loading", "complete"} /\ size \in 0 .. MaxData
      /\ delayed \in BOOLEAN /\ page \in [Clients -> Pages]
  BY <1>2, Fields, StateFields
<1> QED BY <1>2, <1>3, <1>4

\* There are no more dispatched clients than places for the image.
LEMMA FewCalled ==
  ASSUME NEW Q, NEW pg, SoundClients(Q, pg)
  PROVE  /\ Cardinality(Called(Q)) \in 0 .. Cardinality(Clients)
         /\ Cardinality(Clients) \in Nat
<1> DEFINE C == Called(Q)
           f == [q \in C |-> q.key]
<1>1. Cardinality(C) \in Nat
  BY CalledFinite
<1>2. \A q \in C : q \in Q /\ q.key \in Clients
  BY QueuedFields DEF Called, SoundClients
<1>3. \A p, q \in C : p.key = q.key => p = q
  BY <1>2 DEF SoundClients
<1> HIDE DEF C
<1>4. f \in [C -> Clients] /\ \A p, q \in C : f[p] = f[q] => p = q
  BY <1>2, <1>3
<1>5. f \in Injection(C, Clients)
  BY <1>4 DEF Injection, IsInjective
<1> HIDE DEF f
<1>6. Cardinality(C) <= Cardinality(Clients)
  BY <1>5, ClientAssumption, FS_Injection
<1>7. Cardinality(Clients) \in Nat
  BY ClientAssumption, FS_CardinalityType
<1> QED BY <1>1, <1>6, <1>7 DEF C

LEMMA TypeFollows == IInv => TypeOK
<1> SUFFICES ASSUME IInv PROVE TypeOK
  OBVIOUS
<1> DEFINE E == ToSet(CachedIMGs)
           Q == ToSet(ClientQueue)
           Entries == [version : 1 .. MaxVersion, last : BOOLEAN,
             valid : BOOLEAN, RefCount : 0 .. Cardinality(Clients),
             State : {"Empty", "SetParms", "Write", "Close"}, imgbuf : BOOLEAN,
             ScanNumber : 0 .. MaxScan, BitVec : SUBSET Rows, content : Content,
             DecodedSize : 0 .. MaxData, SurvCleanup : 0 .. SurvPasses,
             Image : Clients \cup {Freed, NoImage}]
<1>1. /\ CachedIMGs \in Seq(Imgs) /\ ClientQueue \in Seq(Queued)
      /\ entry \in {"none", "loading", "complete"} /\ size \in 0 .. MaxData
      /\ delayed \in BOOLEAN /\ page \in [Clients -> Pages]
      /\ SoundEntries(E) /\ SoundClients(Q, page)
      /\ Good(E, Q, page, size, Complete(State), {}, {})
  BY InvFacts
<1>2. ASSUME NEW e \in E PROVE e \in Entries
  <2>1. e \in Imgs /\ EntryOK(e)
    BY <1>1 DEF SoundEntries
  <2>2. e.RefCount \in 0 .. Cardinality(Clients)
    <3>1. /\ Cardinality(Called(Q)) \in 0 .. Cardinality(Clients)
          /\ Cardinality(Clients) \in Nat
      BY <1>1, FewCalled
    <3>2. e.valid => e.RefCount = Cardinality(Called(Q))
      BY <1>1 DEF Good
    <3>3. ~e.valid => e.RefCount = 0
      BY <2>1 DEF EntryOK
    <3> HIDE DEF Q
    <3>4. CASE e.valid
      BY <3>1, <3>2, <3>4
    <3>5. CASE ~e.valid
      BY <3>1, <3>3, <3>5
    <3> QED BY <3>4, <3>5
  <2> QED BY <2>1, <2>2 DEF Imgs
<1>3. CachedIMGs \in Seq(Entries)
  <2> HIDE DEF Entries
  <2> QED BY <1>1, <1>2, SeqIn
<1> QED BY <1>1, <1>3 DEF TypeOK, Queued, Pages

LEMMA CountFollows == IInv => RefCountExact
<1> SUFFICES ASSUME IInv, NEW i \in DOMAIN CachedIMGs, NEW e, e = CachedIMGs[i]
             PROVE  /\ e.RefCount = Cardinality(Holders(e.version))
                    /\ e.RefCount > 0 \/ e.imgbuf
  BY DEF RefCountExact
<1> DEFINE E == ToSet(CachedIMGs)
           Q == ToSet(ClientQueue)
           P == {q \in Q : q.Version = e.version}
<1>1. /\ CachedIMGs \in Seq(Imgs) /\ ClientQueue \in Seq(Queued)
      /\ IsInjective(ClientQueue) /\ SoundEntries(E) /\ SoundClients(Q, page)
      /\ Good(E, Q, page, size, Complete(State), {}, {})
  BY InvFacts
<1>2. e \in E /\ e \in Imgs /\ EntryOK(e) /\ e.version \in 1 .. MaxVersion
  <2>1. e \in E
    BY DEF ToSet
  <2>2. e \in Imgs /\ EntryOK(e)
    BY <1>1, <2>1 DEF SoundEntries
  <2> QED BY <2>1, <2>2, ImgFields
<1>3. Cardinality(Holders(e.version)) = Cardinality(P)
  <2>1. \A j \in DOMAIN ClientQueue : ClientQueue[j] \in Q
    BY DEF ToSet
  <2>2. Holders(e.version) = {j \in DOMAIN ClientQueue : ClientQueue[j] \in P}
    BY <2>1 DEF Holders
  <2>3. Q \cap P = P
    OBVIOUS
  <2> HIDE DEF P
  <2>4. Cardinality({j \in DOMAIN ClientQueue : ClientQueue[j] \in P}) = Cardinality(Q \cap P)
    BY <1>1, CountPlaces
  <2> QED BY <2>2, <2>3, <2>4
<1>4. ASSUME NEW q \in Q
      PROVE  \/ ~q.Callback /\ q.Version = 0
             \/ q.Callback /\ \E f \in E : f.valid /\ q.Version = f.version
  <2>1. CASE ~q.Callback
    BY <1>1, <2>1 DEF SoundClients, ClientOK
  <2>2. CASE q.Callback
    <3> HIDE DEF E, Q
    <3>1. \E f \in E : /\ f.valid /\ f.RefCount # 0
                       /\ Joined(f, q, page[q.key], size, Complete(State), {}, {})
      BY <1>1, <2>2, CalledEntry
    <3> QED BY <2>2, <3>1 DEF Joined
  <2> QED BY <2>1, <2>2
<1>5. \A f \in E : f.valid /\ e.valid => f = e
  BY <1>1, <1>2, OneValid
<1>6. \A f \in E : f.version = e.version => f = e
  BY <1>1, <1>2 DEF SoundEntries
<1>7. e.RefCount = Cardinality(P)
  <2>1. CASE e.valid
    <3>1. P = Called(Q)
      BY <1>2, <1>4, <1>5, <2>1 DEF Called
    <3>2. e.RefCount = Cardinality(Called(Q))
      BY <1>1, <1>2, <2>1 DEF Good
    <3> QED BY <3>1, <3>2
  <2>2. CASE ~e.valid
    <3>1. P = {}
      BY <1>2, <1>4, <1>6, <2>2
    <3>2. e.RefCount = 0 /\ Cardinality({}) = 0
      BY <1>2, <2>2, FS_EmptySet DEF EntryOK
    <3> QED BY <3>1, <3>2
  <2> QED BY <2>1, <2>2
<1> QED BY <1>2, <1>3, <1>7 DEF EntryOK

LEMMA CurrentFollows == IInv => ClientsOnCurrent
<1> SUFFICES ASSUME IInv, NEW k \in DOMAIN ClientQueue,
                    NEW q, q = ClientQueue[k], q.Callback,
                    NEW i, i = Current(CachedIMGs)
             PROVE  /\ i # 0 /\ CachedIMGs[i].version = q.Version
                    /\ CachedIMGs[i].State # "Close" => q.CbData = q.Version
  BY DEF ClientsOnCurrent
<1> DEFINE E == ToSet(CachedIMGs)
           Q == ToSet(ClientQueue)
<1>1. /\ CachedIMGs \in Seq(Imgs) /\ SoundEntries(E)
      /\ Good(E, Q, page, size, Complete(State), {}, {})
  BY InvFacts
<1>2. q \in Q
  BY DEF ToSet
<1> HIDE DEF E, Q
<1>3. PICK e \in E : /\ e.valid
                     /\ Joined(e, q, page[q.key], size, Complete(State), {}, {})
  BY <1>1, <1>2, CalledEntry
<1>4. e.last
  BY <1>1, <1>3 DEF SoundEntries, EntryOK
<1>5. i # 0 /\ CachedIMGs[i] \in E /\ CachedIMGs[i].valid
  BY <1>1, <1>3, <1>4, CurrentPlace DEF E
<1>6. CachedIMGs[i] = e
  BY <1>1, <1>3, <1>5, OneValid
<1> QED BY <1>3, <1>5, <1>6 DEF Joined

LEMMA KeptFollows == IInv => ShownIsKept
<1> SUFFICES ASSUME IInv, NEW c \in Clients, page[c].shows # 0
             PROVE  \E i \in DOMAIN CachedIMGs :
                      /\ CachedIMGs[i].version = page[c].shows
                      /\ CachedIMGs[i].imgbuf
  BY DEF ShownIsKept
<1>1. SoundPages(ToSet(CachedIMGs), page)
  BY InvFacts
<1>2. \E e \in ToSet(CachedIMGs) : e.version = page[c].shows /\ e.imgbuf
  BY <1>1 DEF SoundPages, PageOK
<1> QED BY <1>2 DEF ToSet

LEMMA DrawnFollows == IInv => NothingUndrawn
<1> SUFFICES ASSUME IInv, NEW c \in Clients, page[c].at \in {"queued", "done"},
                    page[c].shows # 0, NEW i, i = At(CachedIMGs, page[c].shows)
             PROVE  page[c].drawn = CachedIMGs[i].content
  BY DEF NothingUndrawn
<1> DEFINE E == ToSet(CachedIMGs)
           Q == ToSet(ClientQueue)
           e == CachedIMGs[i]
<1>1. /\ CachedIMGs \in Seq(Imgs) /\ SoundEntries(E) /\ SoundClients(Q, page)
      /\ SoundPages(E, page) /\ Good(E, Q, page, size, Complete(State), {}, {})
  BY InvFacts
<1>2. PageOK(E, page[c])
  BY <1>1 DEF SoundPages
<1>3. e \in E /\ e.version = page[c].shows
  <2>1. \E f \in E : f.version = page[c].shows
    BY <1>2 DEF PageOK
  <2> QED BY <1>1, <2>1, AtPlace
<1> HIDE DEF E, Q, e
<1>4. CASE page[c].at = "done"
  BY <1>2, <1>3, <1>4 DEF PageOK, e
<1>5. CASE page[c].at = "queued"
  <2>1. PICK q \in Q : q.key = c
    BY <1>1, <1>5 DEF SoundClients
  <2>2. q.sized /\ q.Callback
    BY <1>1, <2>1 DEF SoundClients, ClientOK
  <2>3. PICK f \in E : Joined(f, q, page[q.key], size, Complete(State), {}, {})
    BY <1>1, <2>2, CalledEntry
  <2>4. page[c].shows = f.version /\ page[c].drawn = f.content
    BY <2>1, <2>2, <2>3 DEF Joined, Synced
  <2>5. f = e
    BY <1>1, <1>3, <2>4 DEF SoundEntries
  <2> QED BY <2>4, <2>5 DEF e
<1> QED BY <1>4, <1>5

(* Entries, clients and pages have the C types; no version has more        *)
(* references than there are places for the image.                         *)
THEOREM TypeCorrect == ASSUME Mishaps = {} PROVE Spec => []TypeOK
BY Invariance, TypeFollows, PTL

(* Over joins, closes, stops, reloads and clean-up passes, RefCount of     *)
(* every version is the number of the clients that hold it.                *)
THEOREM RefCountIsExact == ASSUME Mishaps = {} PROVE Spec => []RefCountExact
BY Invariance, CountFollows, PTL

(* a_Dicache_callback finds, for each client it is called for, the version *)
(* the client joined and the decoder of it.                                *)
THEOREM ClientsStayOnCurrent == ASSUME Mishaps = {} PROVE Spec => []ClientsOnCurrent
BY Invariance, CurrentFollows, PTL

(* a_Dicache_cleanup and a_Dicache_unref free no buffer a widget shows.    *)
THEOREM ShownIsInCache == ASSUME Mishaps = {} PROVE Spec => []ShownIsKept
BY Invariance, KeptFollows, PTL

(* The rows a_Dicache_callback draws are enough: no row that was decoded   *)
(* is left undrawn when a handler is over.                                 *)
THEOREM NothingIsUndrawn == ASSUME Mishaps = {} PROVE Spec => []NothingUndrawn
BY Invariance, DrawnFollows, PTL
=============================================================================
