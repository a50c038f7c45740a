----------------------------- MODULE NavProofs -----------------------------
(***************************************************************************)
(* Proofs about the navigation of a window.  The stack, its pointer and    *)
(* the counter of style sheets are sound whatever mishaps are let in; that *)
(* a page which is shown is the one the stack names is proved without      *)
(* mishaps, each of which refutes it.                                      *)
(*                                                                         *)
(* The handlers are compositions of operators on windows, so there is one  *)
(* lemma for each operator: what it does to a sound window W.              *)
(***************************************************************************)
EXTENDS Nav, TLAPS

(* The invariant, as a predicate of windows.                               *)
PtrIn(W) == IF Size(W) = 0 THEN W.nav_stack_ptr = -1
            ELSE 0 <= W.nav_stack_ptr /\ W.nav_stack_ptr < Size(W)

Apart(W) == \A i \in 1 .. Size(W) - 1 : W.nav_stack[i] # W.nav_stack[i + 1]

Sound(W) == /\ W \in WindowType
            /\ PtrIn(W)
            /\ Apart(W)
            /\ W.sheets <= W.NumPendingStyleSheets

(* Without mishaps: the client that waits is the one the window expects,   *)
(* nothing is expected without a client, a reload expects the page of the  *)
(* stack, and a redirection that has not run yet expects nothing.          *)
Pending(W) ==
  /\ IF W.root.st = "waiting"
     THEN W.root.url = IF W.expect.url # NoUrl THEN W.expect.url ELSE Top(W)
     ELSE W.expect.url = NoUrl
  /\ (W.expect.url # NoUrl /\ W.expect.flags \cap {"ReloadPage", "ReloadFromCache"} # {})
       => W.expect.url = Top(W)
  /\ W.meta_refresh_status = 2 => W.expect.url = NoUrl /\ W.meta_refresh_url # NoUrl

(* The stack up to the current page of W is also that of V.                *)
Keeps(W, V) == \A i \in 0 .. W.nav_stack_ptr : At(V, i) = At(W, i)

LEMMA AtUrl ==
  ASSUME NEW W \in WindowType, NEW i \in Int
  PROVE  /\ At(W, i) \in Urls \cup {NoUrl}
         /\ At(W, i) # NoUrl => 0 <= i /\ i < Size(W)
         /\ 0 <= i /\ i < Size(W) => At(W, i) \in Urls /\ At(W, i) # NoUrl
BY NavAssumption DEF At, Size, WindowType

LEMMA SameStackKeeps ==
  ASSUME NEW W, NEW V, V.nav_stack = W.nav_stack
  PROVE  Keeps(W, V)
BY DEF Keeps, At, Size

LEMMA MoveSound ==
  ASSUME NEW W, Sound(W), NEW offset \in Int
  PROVE  LET V == Nav_stack_move_ptr(W, offset) IN
         /\ Sound(V)
         /\ V = [W EXCEPT !.nav_stack_ptr = V.nav_stack_ptr]
         /\ At(W, W.nav_stack_ptr + offset) # NoUrl
              => V.nav_stack_ptr = W.nav_stack_ptr + offset
<1> DEFINE n == W.nav_stack_ptr + offset
<1>1. W \in WindowType /\ W.nav_stack \in Seq(Urls) /\ n \in Int /\ Size(W) \in Nat
  BY DEF Sound, WindowType, Size
<1>2. CASE 0 <= n /\ n < Size(W)
  <2>1. Nav_stack_move_ptr(W, offset) = [W EXCEPT !.nav_stack_ptr = n]
    BY <1>2 DEF Nav_stack_move_ptr
  <2> DEFINE V == [W EXCEPT !.nav_stack_ptr = n]
  <2>2. V \in WindowType
    BY <1>1 DEF WindowType
  <2>3. /\ V.nav_stack = W.nav_stack /\ V.nav_stack_ptr = n
        /\ V.sheets = W.sheets /\ V.NumPendingStyleSheets = W.NumPendingStyleSheets
    BY <1>1 DEF WindowType
  <2> HIDE DEF V
  <2>4. Sound(V)
    BY <1>1, <1>2, <2>2, <2>3 DEF Sound, PtrIn, Apart, Size
  <2> HIDE DEF n
  <2> QED BY <2>1, <2>3, <2>4 DEF n, V
<1>3. CASE ~(0 <= n /\ n < Size(W))
  <2>1. Nav_stack_move_ptr(W, offset) = W
    BY <1>3 DEF Nav_stack_move_ptr
  <2> QED BY <2>1, <1>1, <1>3, AtUrl DEF WindowType
<1> QED BY <1>2, <1>3

LEMMA SameStackSound ==
  ASSUME NEW W, Sound(W), NEW V \in WindowType,
         V.nav_stack = W.nav_stack, V.nav_stack_ptr = W.nav_stack_ptr,
         V.sheets <= V.NumPendingStyleSheets
  PROVE  Sound(V)
BY DEF Sound, PtrIn, Apart, Size

LEMMA Cancel ==
  ASSUME NEW W \in WindowType
  PROVE  LET V == a_Nav_cancel_expect(W) IN
         /\ V \in WindowType
         /\ V.expect = Nothing
         /\ V.meta_refresh_status \in {0, 1}
         /\ V.meta_refresh_url = W.meta_refresh_url
         /\ V.nav_stack = W.nav_stack /\ V.nav_stack_ptr = W.nav_stack_ptr
         /\ V.root = W.root
         /\ V.sheets = W.sheets /\ V.NumPendingStyleSheets = W.NumPendingStyleSheets
<1> DEFINE V == a_Nav_cancel_expect(W)
           k == IF W.meta_refresh_status > 0 THEN W.meta_refresh_status - 1 ELSE 0
<1>1. V = [W EXCEPT !.expect = Nothing, !.meta_refresh_status = k]
  BY DEF a_Nav_cancel_expect
<1>2. Nothing \in [url : Urls \cup {NoUrl}, flags : SUBSET (Reload \cup FromCache)]
  BY DEF Nothing
<1>3. k \in {0, 1} /\ k \in 0 .. 2
  BY DEF WindowType
<1> HIDE DEF k, V
<1>4. V \in WindowType
  BY <1>1, <1>2, <1>3 DEF WindowType
<1>5. /\ V.expect = Nothing
      /\ V.meta_refresh_status \in {0, 1}
      /\ V.meta_refresh_url = W.meta_refresh_url
      /\ V.nav_stack = W.nav_stack /\ V.nav_stack_ptr = W.nav_stack_ptr
      /\ V.root = W.root
      /\ V.sheets = W.sheets /\ V.NumPendingStyleSheets = W.NumPendingStyleSheets
  BY <1>1, <1>3 DEF WindowType
<1> QED BY <1>4, <1>5 DEF V

LEMMA CancelSound ==
  ASSUME NEW W, Sound(W)
  PROVE  LET V == a_Nav_cancel_expect(W) IN
         /\ Sound(V)
         /\ V.expect = Nothing
         /\ V.meta_refresh_status \in {0, 1}
         /\ V.meta_refresh_url = W.meta_refresh_url
         /\ V.nav_stack = W.nav_stack /\ V.nav_stack_ptr = W.nav_stack_ptr
         /\ V.root = W.root
<1>1. W \in WindowType /\ W.sheets <= W.NumPendingStyleSheets
  BY DEF Sound
<1> QED BY <1>1, Cancel, SameStackSound

(* Whatever becomes of the client of the page, the window stays sound.     *)
LEMMA RootSound ==
  ASSUME NEW W, Sound(W), NEW r \in [url : Urls \cup {NoUrl},
                                    st : {"none", "waiting", "parsing", "stopped"}]
  PROVE  LET V == [W EXCEPT !.root = r] IN
         /\ Sound(V)
         /\ V.root = r /\ V.expect = W.expect
         /\ V.nav_stack = W.nav_stack /\ V.nav_stack_ptr = W.nav_stack_ptr
         /\ V.meta_refresh_status = W.meta_refresh_status
         /\ V.meta_refresh_url = W.meta_refresh_url
<1> DEFINE V == [W EXCEPT !.root = r]
<1>1. W \in WindowType /\ W.sheets <= W.NumPendingStyleSheets
  BY DEF Sound
<1>2. V \in WindowType
  BY <1>1 DEF WindowType
<1>3. /\ V.root = r /\ V.expect = W.expect
      /\ V.nav_stack = W.nav_stack /\ V.nav_stack_ptr = W.nav_stack_ptr
      /\ V.meta_refresh_status = W.meta_refresh_status
      /\ V.meta_refresh_url = W.meta_refresh_url
      /\ V.sheets = W.sheets /\ V.NumPendingStyleSheets = W.NumPendingStyleSheets
  BY <1>1 DEF WindowType
<1> HIDE DEF V
<1>4. Sound(V)
  BY <1>1, <1>2, <1>3, SameStackSound
<1> QED BY <1>3, <1>4 DEF V

LEMMA ClientsGone ==
  ASSUME NEW W, Sound(W)
  PROVE  LET V == a_Bw_stop_clients(W) IN
         /\ Sound(V)
         /\ V.root = Nowhere /\ V.sheets = 0 /\ V.expect = W.expect
         /\ V.nav_stack = W.nav_stack /\ V.nav_stack_ptr = W.nav_stack_ptr
         /\ V.meta_refresh_status = W.meta_refresh_status
         /\ V.meta_refresh_url = W.meta_refresh_url
<1> DEFINE V == a_Bw_stop_clients(W)
<1>1. W \in WindowType
  BY DEF Sound
<1>2. Nowhere \in [url : Urls \cup {NoUrl}, st : {"none", "waiting", "parsing", "stopped"}]
  BY DEF Nowhere
<1>3. V \in WindowType
  BY <1>1, <1>2 DEF WindowType, a_Bw_stop_clients
<1>4. /\ V.root = Nowhere /\ V.expect = W.expect
      /\ V.nav_stack = W.nav_stack /\ V.nav_stack_ptr = W.nav_stack_ptr
      /\ V.meta_refresh_status = W.meta_refresh_status
      /\ V.meta_refresh_url = W.meta_refresh_url
      /\ V.sheets = 0 /\ V.NumPendingStyleSheets \in Nat
  BY <1>1 DEF WindowType, a_Bw_stop_clients
<1> HIDE DEF V
<1>5. Sound(V)
  BY <1>3, <1>4, SameStackSound
<1> QED BY <1>4, <1>5 DEF V

LEMMA PageGone ==
  ASSUME NEW W, Sound(W)
  PROVE  LET V == a_Bw_cleanup(a_Bw_stop_clients(W)) IN
         /\ Sound(V)
         /\ V.root = Nowhere /\ V.expect = W.expect
         /\ V.nav_stack = W.nav_stack /\ V.nav_stack_ptr = W.nav_stack_ptr
         /\ V.meta_refresh_status = W.meta_refresh_status
         /\ V.meta_refresh_url = W.meta_refresh_url
<1> DEFINE U == a_Bw_stop_clients(W)
           V == a_Bw_cleanup(U)
<1>1. /\ Sound(U)
      /\ U.root = Nowhere /\ U.sheets = 0 /\ U.expect = W.expect
      /\ U.nav_stack = W.nav_stack /\ U.nav_stack_ptr = W.nav_stack_ptr
      /\ U.meta_refresh_status = W.meta_refresh_status
      /\ U.meta_refresh_url = W.meta_refresh_url
  BY ClientsGone
<1> HIDE DEF U
<1>2. U \in WindowType
  BY <1>1 DEF Sound
<1>3. V \in WindowType
  BY <1>2 DEF WindowType, a_Bw_cleanup
<1>4. /\ V.root = U.root /\ V.expect = U.expect
      /\ V.nav_stack = U.nav_stack /\ V.nav_stack_ptr = U.nav_stack_ptr
      /\ V.meta_refresh_status = U.meta_refresh_status
      /\ V.meta_refresh_url = U.meta_refresh_url
      /\ V.sheets = U.sheets /\ V.NumPendingStyleSheets = 0
  BY <1>2 DEF WindowType, a_Bw_cleanup
<1> HIDE DEF V
<1>5. Sound(V)
  BY <1>1, <1>3, <1>4, SameStackSound
<1> QED BY <1>1, <1>4, <1>5 DEF U, V

(* The client that a granted request for u leaves.                         *)
Client(u, granted) == IF granted THEN [url |-> u, st |-> "waiting"] ELSE Nowhere

(* Nav_open_url moves the pointer, and fetches the page when it must.      *)
LEMMA OpenUrl ==
  ASSUME NEW W, Sound(W), NEW u \in Urls \cup {NoUrl}, NEW flags, NEW offset \in Int,
         NEW granted \in BOOLEAN
  PROVE  LET V == Nav_open_url(W, u, flags, offset, granted)
             P == Nav_stack_move_ptr(W, offset) IN
         /\ Sound(V)
         /\ V.nav_stack = W.nav_stack /\ V.nav_stack_ptr = P.nav_stack_ptr
         /\ V.expect = W.expect
         /\ V.meta_refresh_status = W.meta_refresh_status
         /\ V.meta_refresh_url = W.meta_refresh_url
         /\ V.root = IF MustLoad(W, u, flags) THEN Client(u, granted) ELSE W.root
<1> DEFINE P == Nav_stack_move_ptr(W, offset)
           C == a_Bw_cleanup(a_Bw_stop_clients(P))
           R == [C EXCEPT !.root = [url |-> u, st |-> "waiting"]]
           V == Nav_open_url(W, u, flags, offset, granted)
<1>1. W \in WindowType
  BY DEF Sound
<1>2. /\ Sound(P)
      /\ P = [W EXCEPT !.nav_stack_ptr = P.nav_stack_ptr]
  BY MoveSound
<1>3. V = IF ~MustLoad(W, u, flags) THEN P ELSE IF granted THEN R ELSE C
  BY DEF Nav_open_url
<1> HIDE DEF V, P
<1>4. /\ P.nav_stack = W.nav_stack /\ P.root = W.root /\ P.expect = W.expect
      /\ P.meta_refresh_status = W.meta_refresh_status
      /\ P.meta_refresh_url = W.meta_refresh_url
  BY <1>1, <1>2 DEF WindowType
<1>5. /\ Sound(C)
      /\ C.root = Nowhere /\ C.expect = P.expect
      /\ C.nav_stack = P.nav_stack /\ C.nav_stack_ptr = P.nav_stack_ptr
      /\ C.meta_refresh_status = P.meta_refresh_status
      /\ C.meta_refresh_url = P.meta_refresh_url
  BY <1>2, PageGone
<1> HIDE DEF C
<1>6. [url |-> u, st |-> "waiting"]
        \in [url : Urls \cup {NoUrl}, st : {"none", "waiting", "parsing", "stopped"}]
  OBVIOUS
<1>7. /\ Sound(R)
      /\ R.root = [url |-> u, st |-> "waiting"] /\ R.expect = C.expect
      /\ R.nav_stack = C.nav_stack /\ R.nav_stack_ptr = C.nav_stack_ptr
      /\ R.meta_refresh_status = C.meta_refresh_status
      /\ R.meta_refresh_url = C.meta_refresh_url
  BY <1>5, <1>6, RootSound
<1> HIDE DEF R
<1>8. /\ Sound(V)
      /\ V.nav_stack = W.nav_stack /\ V.nav_stack_ptr = P.nav_stack_ptr
      /\ V.expect = W.expect
      /\ V.meta_refresh_status = W.meta_refresh_status
      /\ V.meta_refresh_url = W.meta_refresh_url
      /\ V.root = IF MustLoad(W, u, flags) THEN Client(u, granted) ELSE W.root
  <2>1. CASE ~MustLoad(W, u, flags)
    BY <2>1, <1>2, <1>3, <1>4
  <2>2. CASE MustLoad(W, u, flags) /\ granted
    BY <2>2, <1>3, <1>4, <1>5, <1>7 DEF Client
  <2>3. CASE MustLoad(W, u, flags) /\ ~granted
    BY <2>3, <1>3, <1>4, <1>5 DEF Client
  <2> QED BY <2>1, <2>2, <2>3
<1> QED BY <1>8 DEF V, P

(* The same for a request that is granted.                                 *)
LEMMA OpenGranted ==
  ASSUME NEW W, Sound(W), NEW u \in Urls \cup {NoUrl}, NEW flags, NEW offset \in Int
  PROVE  LET V == Nav_open_url(W, u, flags, offset, TRUE)
             P == Nav_stack_move_ptr(W, offset) IN
         /\ Sound(V)
         /\ V.nav_stack = W.nav_stack /\ V.nav_stack_ptr = P.nav_stack_ptr
         /\ V.expect = W.expect
         /\ V.meta_refresh_status = W.meta_refresh_status
         /\ V.meta_refresh_url = W.meta_refresh_url
         /\ V.root = IF MustLoad(W, u, flags) THEN [url |-> u, st |-> "waiting"] ELSE W.root
<1>1. ASSUME NEW granted \in BOOLEAN
      PROVE  LET V == Nav_open_url(W, u, flags, offset, granted)
                 P == Nav_stack_move_ptr(W, offset) IN
             /\ Sound(V)
             /\ V.nav_stack = W.nav_stack /\ V.nav_stack_ptr = P.nav_stack_ptr
             /\ V.expect = W.expect
             /\ V.meta_refresh_status = W.meta_refresh_status
             /\ V.meta_refresh_url = W.meta_refresh_url
             /\ V.root = IF MustLoad(W, u, flags) THEN Client(u, granted) ELSE W.root
  BY OpenUrl, ZenonT(40)
<1>2. Client(u, TRUE) = [url |-> u, st |-> "waiting"]
  BY DEF Client
<1> QED BY <1>1, <1>2, Zenon

(* a_Nav_push expects the page, unless it is expected already.             *)
LEMMA Push ==
  ASSUME NEW W, Sound(W), NEW u \in Urls \cup {NoUrl},
         NEW flags \in SUBSET (Reload \cup FromCache), NEW granted \in BOOLEAN
  PROVE  LET V == a_Nav_push(W, u, flags, granted) IN
         /\ Sound(V)
         /\ V.nav_stack = W.nav_stack /\ V.nav_stack_ptr = W.nav_stack_ptr
         /\ V.meta_refresh_url = W.meta_refresh_url
         /\ W.expect.url = u => V = W
         /\ W.expect.url # u =>
              /\ V.expect = [url |-> u, flags |-> flags]
              /\ V.meta_refresh_status \in {0, 1}
              /\ V.root = IF MustLoad(W, u, flags) THEN Client(u, granted) ELSE W.root
<1> DEFINE C == a_Nav_cancel_expect(W)
           E == [C EXCEPT !.expect = [url |-> u, flags |-> flags]]
           V == a_Nav_push(W, u, flags, granted)
<1>1. CASE W.expect.url = u
  BY <1>1 DEF a_Nav_push
<1>2. CASE W.expect.url # u
  <2>1. V = Nav_open_url(E, u, flags, 0, granted)
    BY <1>2 DEF a_Nav_push
  <2> HIDE DEF V
  <2>2. /\ Sound(C)
        /\ C.meta_refresh_status \in {0, 1}
        /\ C.meta_refresh_url = W.meta_refresh_url
        /\ C.nav_stack = W.nav_stack /\ C.nav_stack_ptr = W.nav_stack_ptr
        /\ C.root = W.root
    BY CancelSound
  <2> HIDE DEF C
  <2>3. C \in WindowType /\ C.sheets <= C.NumPendingStyleSheets
    BY <2>2 DEF Sound
  <2>4. [url |-> u, flags |-> flags]
          \in [url : Urls \cup {NoUrl}, flags : SUBSET (Reload \cup FromCache)]
    OBVIOUS
  <2>5. E \in WindowType
    BY <2>3, <2>4 DEF WindowType
  <2>6. /\ E.expect = [url |-> u, flags |-> flags]
        /\ E.meta_refresh_status = C.meta_refresh_status
        /\ E.meta_refresh_url = C.meta_refresh_url
        /\ E.nav_stack = C.nav_stack /\ E.nav_stack_ptr = C.nav_stack_ptr
        /\ E.root = C.root
        /\ E.sheets = C.sheets /\ E.NumPendingStyleSheets = C.NumPendingStyleSheets
    BY <2>3 DEF WindowType
  <2> HIDE DEF E
  <2>7. Sound(E)
    BY <2>2, <2>3, <2>5, <2>6, SameStackSound
  <2>8. MustLoad(E, u, flags) <=> MustLoad(W, u, flags)
    BY <2>2, <2>6 DEF MustLoad, Top, At, Size
  <2>9. Nav_stack_move_ptr(E, 0).nav_stack_ptr = E.nav_stack_ptr
    BY <2>5 DEF Nav_stack_move_ptr, WindowType
  <2>10. /\ Sound(V)
         /\ V.nav_stack = E.nav_stack /\ V.nav_stack_ptr = E.nav_stack_ptr
         /\ V.expect = E.expect
         /\ V.meta_refresh_status = E.meta_refresh_status
         /\ V.meta_refresh_url = E.meta_refresh_url
         /\ V.root = IF MustLoad(E, u, flags) THEN Client(u, granted) ELSE E.root
    BY <2>1, <2>7, <2>9, OpenUrl
  <2> QED BY <1>2, <2>2, <2>6, <2>8, <2>10 DEF V
<1> QED BY <1>1, <1>2

LEMMA PushGranted ==
  ASSUME NEW W, Sound(W), NEW u \in Urls \cup {NoUrl},
         NEW flags \in SUBSET (Reload \cup FromCache)
  PROVE  LET V == a_Nav_push(W, u, flags, TRUE) IN
         /\ Sound(V)
         /\ V.nav_stack = W.nav_stack
         /\ W.expect.url = u => V.root = W.root
         /\ W.expect.url # u =>
              /\ V.expect = [url |-> u, flags |-> flags]
              /\ V.meta_refresh_status \in {0, 1}
              /\ V.root = IF MustLoad(W, u, flags) THEN [url |-> u, st |-> "waiting"]
                         ELSE W.root
<1>1. ASSUME NEW granted \in BOOLEAN
      PROVE  LET V == a_Nav_push(W, u, flags, granted) IN
             /\ Sound(V)
             /\ V.nav_stack = W.nav_stack
             /\ W.expect.url = u => V.root = W.root
             /\ W.expect.url # u =>
                  /\ V.expect = [url |-> u, flags |-> flags]
                  /\ V.meta_refresh_status \in {0, 1}
                  /\ V.root = IF MustLoad(W, u, flags) THEN Client(u, granted) ELSE W.root
  BY Push
<1>2. Client(u, TRUE) = [url |-> u, st |-> "waiting"]
  BY DEF Client
<1> QED BY <1>1, <1>2, Zenon

(* A window whose last two items alone may be equal.                       *)
NearlySound(W) == /\ W \in WindowType
                  /\ PtrIn(W)
                  /\ \A i \in 1 .. Size(W) - 2 : W.nav_stack[i] # W.nav_stack[i + 1]
                  /\ W.sheets <= W.NumPendingStyleSheets

(* The new page is put after the current one, and becomes the current one. *)
LEMMA Put ==
  ASSUME NEW W, Sound(W), NEW u \in Urls
  PROVE  LET V == Nav_stack_move_ptr(Nav_stack_put(W, u), 1) IN
         /\ NearlySound(V)
         /\ V.nav_stack_ptr = W.nav_stack_ptr + 1 /\ Size(V) = W.nav_stack_ptr + 2
         /\ Keeps(W, V) /\ Top(V) = u
         /\ V.root = W.root
<1> DEFINE ptr == W.nav_stack_ptr
           old == SubSeq(W.nav_stack, 1, ptr + 1)
           new == Append(old, u)
           U == Nav_stack_put(W, u)
           V == [U EXCEPT !.nav_stack_ptr = ptr + 1]
<1>1. W \in WindowType /\ W.nav_stack \in Seq(Urls) /\ ptr \in Int /\ Len(W.nav_stack) \in Nat
  BY DEF Sound, WindowType
<1>2. -1 <= ptr /\ ptr < Len(W.nav_stack)
  BY <1>1 DEF Sound, PtrIn, Size
<1>3. /\ old \in Seq(Urls) /\ Len(old) = ptr + 1
      /\ \A i \in 1 .. ptr + 1 : old[i] = W.nav_stack[i]
  BY <1>1, <1>2
<1> HIDE DEF old
<1>4. /\ new \in Seq(Urls) /\ Len(new) = ptr + 2
      /\ \A i \in 1 .. ptr + 1 : new[i] = W.nav_stack[i]
      /\ new[ptr + 2] = u
  BY <1>1, <1>2, <1>3
<1>5. U = [W EXCEPT !.nav_stack = new]
  BY DEF Nav_stack_put, old
<1> HIDE DEF new, U
<1>6. /\ U \in WindowType
      /\ U.nav_stack = new /\ U.nav_stack_ptr = ptr /\ U.root = W.root
      /\ U.sheets = W.sheets /\ U.NumPendingStyleSheets = W.NumPendingStyleSheets
  BY <1>1, <1>4, <1>5 DEF WindowType
<1>7. Nav_stack_move_ptr(U, 1) = V
  BY <1>1, <1>2, <1>4, <1>6 DEF Nav_stack_move_ptr, Size
<1>8. /\ V \in WindowType
      /\ V.nav_stack = new /\ V.nav_stack_ptr = ptr + 1 /\ V.root = W.root
      /\ V.sheets = W.sheets /\ V.NumPendingStyleSheets = W.NumPendingStyleSheets
  <2>1. ptr + 1 \in Int
    BY <1>1
  <2>2. V \in WindowType
    BY <1>6, <2>1 DEF WindowType
  <2>3. V.nav_stack_ptr = ptr + 1
    BY <1>6 DEF WindowType
  <2>4. /\ V.nav_stack = U.nav_stack /\ V.root = U.root
        /\ V.sheets = U.sheets /\ V.NumPendingStyleSheets = U.NumPendingStyleSheets
    BY <1>6 DEF WindowType
  <2> QED BY <1>6, <2>2, <2>3, <2>4
<1> HIDE DEF V
<1>9. \A i \in 1 .. Size(V) - 2 : V.nav_stack[i] # V.nav_stack[i + 1]
  <2>1. \A i \in 1 .. Len(W.nav_stack) - 1 : W.nav_stack[i] # W.nav_stack[i + 1]
    BY DEF Sound, Apart, Size
  <2>2. Size(V) = ptr + 2
    BY <1>4, <1>8 DEF Size
  <2> SUFFICES ASSUME NEW i \in 1 .. Size(V) - 2
               PROVE  V.nav_stack[i] # V.nav_stack[i + 1]
    OBVIOUS
  <2>3. i \in 1 .. Len(W.nav_stack) - 1 /\ i \in 1 .. ptr + 1 /\ i + 1 \in 1 .. ptr + 1
    BY <1>1, <1>2, <2>2
  <2> QED BY <1>4, <1>8, <2>1, <2>3
<1>10. NearlySound(V)
  BY <1>1, <1>2, <1>4, <1>8, <1>9 DEF NearlySound, PtrIn, Size, Sound
<1>11. Top(V) = u /\ Size(V) = ptr + 2
  BY <1>1, <1>2, <1>4, <1>8 DEF Top, At, Size
<1>12. Keeps(W, V)
  <2> SUFFICES ASSUME NEW i \in 0 .. ptr
               PROVE  At(V, i) = At(W, i)
    BY DEF Keeps
  <2>1. /\ i + 1 \in 1 .. ptr + 1
        /\ 0 <= i /\ i < Size(V) /\ i < Size(W)
    BY <1>1, <1>2, <1>11 DEF Size
  <2> QED BY <1>4, <1>8, <2>1 DEF At
<1> QED BY <1>7, <1>8, <1>10, <1>11, <1>12 DEF U

LEMMA Clean ==
  ASSUME NEW W, NearlySound(W)
  PROVE  LET V == Nav_stack_clean(W) IN
         /\ Sound(V)
         /\ Apart(W) => V = W
         /\ \A i \in 0 .. Size(W) - 2 : At(V, i) = At(W, i)
         /\ Top(V) = Top(W)
         /\ V.root = W.root /\ V.expect = W.expect
         /\ V.meta_refresh_status = W.meta_refresh_status
         /\ V.meta_refresh_url = W.meta_refresh_url
<1> DEFINE n == Size(W)
           V == Nav_stack_clean(W)
           new == SubSeq(W.nav_stack, 1, n - 1)
           ptr == IF W.nav_stack_ptr >= n - 1 THEN n - 2 ELSE W.nav_stack_ptr
<1>1. /\ W \in WindowType /\ W.nav_stack \in Seq(Urls) /\ n \in Nat
      /\ n = Len(W.nav_stack) /\ W.nav_stack_ptr \in Int
      /\ \A i \in 1 .. n : W.nav_stack[i] \in Urls
  BY DEF NearlySound, WindowType, Size
<1>2. CASE n >= 2 /\ At(W, n - 2) = At(W, n - 1)
  <2>1. V = [W EXCEPT !.nav_stack = new, !.nav_stack_ptr = ptr]
    BY <1>2 DEF Nav_stack_clean
  <2>2. /\ new \in Seq(Urls) /\ Len(new) = n - 1
        /\ \A i \in 1 .. n - 1 : new[i] = W.nav_stack[i]
    BY <1>1, <1>2
  <2>3. /\ ptr \in 0 .. n - 2
        /\ W.nav_stack_ptr # ptr => W.nav_stack_ptr = n - 1 /\ ptr = n - 2
    BY <1>1, <1>2 DEF NearlySound, PtrIn
  <2>4. W.nav_stack[n - 1] = W.nav_stack[n]
    BY <1>1, <1>2 DEF At
  <2> HIDE DEF V, new, ptr
  <2>5. V \in WindowType
    <3>1. W \in WindowType /\ new \in Seq(Urls) /\ ptr \in Int
      BY <1>1, <2>2, <2>3
    <3> QED BY <2>1, <3>1 DEF WindowType
  <2>6. /\ V.nav_stack = new /\ V.nav_stack_ptr = ptr
        /\ V.root = W.root /\ V.expect = W.expect
        /\ V.meta_refresh_status = W.meta_refresh_status
        /\ V.meta_refresh_url = W.meta_refresh_url
        /\ V.sheets = W.sheets /\ V.NumPendingStyleSheets = W.NumPendingStyleSheets
    BY <1>1, <2>1 DEF WindowType
  <2>7. Size(V) = n - 1
    BY <2>2, <2>6 DEF Size
  <2> HIDE DEF n
  <2>8. Sound(V)
    <3>1. \A i \in 1 .. n - 2 : W.nav_stack[i] # W.nav_stack[i + 1]
      BY DEF NearlySound, n
    <3>2. Apart(V)
      <4> SUFFICES ASSUME NEW i \in 1 .. Size(V) - 1
                   PROVE  V.nav_stack[i] # V.nav_stack[i + 1]
        BY DEF Apart
      <4>1. i \in 1 .. n - 2 /\ i \in 1 .. n - 1 /\ i + 1 \in 1 .. n - 1
        BY <1>1, <2>7
      <4> QED BY <2>2, <2>6, <3>1, <4>1
    <3> QED BY <1>1, <1>2, <2>3, <2>5, <2>6, <2>7, <3>2 DEF Sound, PtrIn, NearlySound
  <2>9. ~Apart(W)
    BY <1>1, <1>2, <2>4 DEF Apart, n
  <2>10. \A i \in 0 .. n - 2 : At(V, i) = At(W, i)
    BY <1>1, <2>2, <2>6, <2>7 DEF At, n
  <2>11. Top(V) = Top(W)
    BY <1>1, <1>2, <2>3, <2>6, <2>10 DEF Top
  <2> QED BY <2>6, <2>8, <2>9, <2>10, <2>11 DEF n, V
<1>3. CASE ~(n >= 2 /\ At(W, n - 2) = At(W, n - 1))
  <2>1. V = W
    BY <1>3 DEF Nav_stack_clean
  <2>2. Apart(W)
    <3> SUFFICES ASSUME NEW i \in 1 .. n - 1
                 PROVE  W.nav_stack[i] # W.nav_stack[i + 1]
      BY DEF Apart
    <3>1. CASE i = n - 1
      BY <1>1, <1>3, <3>1 DEF At
    <3>2. CASE i # n - 1
      BY <1>1, <3>2 DEF NearlySound
    <3> QED BY <3>1, <3>2
  <2> QED BY <2>1, <2>2 DEF Sound, NearlySound
<1> QED BY <1>2, <1>3

(* The page that is expected arrives: it takes its place on the stack, and *)
(* the page the window waited for is the current one.                      *)
LEMMA Done ==
  ASSUME NEW W, Sound(W)
  PROVE  LET V == a_Nav_expect_done(W) IN
         /\ Sound(V)
         /\ Keeps(W, V)
         /\ V.root = W.root /\ V.expect.url = NoUrl
         /\ V.meta_refresh_status = 2 =>
              /\ W.meta_refresh_status = 2
              /\ V.meta_refresh_url = W.meta_refresh_url
         /\ Pending(W) /\ W.root.st = "waiting" => Top(V) = W.root.url
<1> DEFINE V == a_Nav_expect_done(W)
           new == W.expect.flags \cap {"ReloadPage", "ReloadFromCache"} = {}
           P == IF new THEN Nav_stack_move_ptr(Nav_stack_put(W, W.expect.url), 1) ELSE W
           C == a_Nav_cancel_expect(P)
<1>1. W \in WindowType /\ W.nav_stack_ptr \in Int /\ W.expect.url \in Urls \cup {NoUrl}
  BY DEF Sound, WindowType
<1>2. NearlySound(W) /\ Apart(W) /\ Size(W) \in Nat
  BY <1>1 DEF Sound, NearlySound, Apart, Size, WindowType
<1>3. CASE W.expect.url = NoUrl
  <2>1. V = Nav_stack_clean(W)
    BY <1>3 DEF a_Nav_expect_done
  <2>2. V = W
    BY <1>2, <2>1, Clean
  <2> QED BY <1>3, <2>2 DEF Keeps, Pending
<1>4. CASE W.expect.url # NoUrl
  <2>1. V = Nav_stack_clean(C)
    BY <1>4 DEF a_Nav_expect_done
  <2>2. /\ NearlySound(P)
        /\ P.root = W.root
        /\ Size(P) \in Nat
        /\ \A i \in 0 .. W.nav_stack_ptr : At(P, i) = At(W, i)
        /\ Pending(W) /\ W.root.st = "waiting" => Top(P) = W.root.url
        /\ new => Size(P) = W.nav_stack_ptr + 2
        /\ ~new => P = W
    <3>1. CASE new
      <4>1. /\ NearlySound(P)
            /\ Size(P) = W.nav_stack_ptr + 2
            /\ Keeps(W, P) /\ Top(P) = W.expect.url
            /\ P.root = W.root
        BY <1>1, <1>4, <3>1, Put
      <4>2. Size(P) \in Nat
        BY <4>1 DEF NearlySound, WindowType, Size
      <4> HIDE DEF P, new
      <4> QED BY <1>4, <3>1, <4>1, <4>2 DEF Keeps, Pending
    <3>2. CASE ~new
      BY <1>2, <1>4, <3>2 DEF Pending
    <3> QED BY <3>1, <3>2
  <2> HIDE DEF P, V
  <2>3. P \in WindowType
    BY <2>2 DEF NearlySound
  <2>4. /\ C \in WindowType
        /\ C.expect = Nothing
        /\ C.meta_refresh_status \in {0, 1}
        /\ C.nav_stack = P.nav_stack /\ C.nav_stack_ptr = P.nav_stack_ptr
        /\ C.root = P.root
        /\ C.sheets = P.sheets /\ C.NumPendingStyleSheets = P.NumPendingStyleSheets
    BY <2>3, Cancel
  <2> HIDE DEF C
  <2>5. /\ NearlySound(C)
        /\ Size(C) = Size(P) /\ Top(C) = Top(P)
        /\ \A i : At(C, i) = At(P, i)
        /\ Apart(C) <=> Apart(P)
    BY <2>2, <2>4 DEF NearlySound, PtrIn, Apart, Size, Top, At
  <2>6. /\ Sound(V)
        /\ Apart(C) => V = C
        /\ \A i \in 0 .. Size(C) - 2 : At(V, i) = At(C, i)
        /\ Top(V) = Top(C)
        /\ V.root = C.root /\ V.expect = C.expect
        /\ V.meta_refresh_status = C.meta_refresh_status
    BY <2>1, <2>5, Clean
  <2>7. Keeps(W, V)
    <3>1. CASE new
      <4>1. Size(C) - 2 = W.nav_stack_ptr
        BY <1>1, <2>2, <2>5, <3>1
      <4> HIDE DEF new
      <4> QED BY <2>2, <2>5, <2>6, <4>1 DEF Keeps
    <3>2. CASE ~new
      <4>1. Apart(C)
        BY <1>2, <2>2, <2>5, <3>2
      <4> HIDE DEF new
      <4> QED BY <2>2, <2>5, <2>6, <4>1 DEF Keeps
    <3> QED BY <3>1, <3>2
  <2> HIDE DEF new
  <2>8. V.expect.url = NoUrl /\ V.meta_refresh_status # 2
    BY <2>4, <2>6 DEF Nothing
  <2> QED BY <2>2, <2>4, <2>5, <2>6, <2>7, <2>8 DEF V
<1> QED BY <1>1, <1>3, <1>4
-----------------------------------------------------------------------------
(***************************************************************************)
(* The handlers.  Each keeps a window sound and the way back as it was,    *)
(* and, without mishaps, leaves nothing waiting under a wrong name.        *)
(***************************************************************************)
Kept == /\ Sound(bw')
        /\ Keeps(bw, bw')
        /\ Mishaps = {} /\ Pending(bw) => Pending(bw')

(* No client that waited is parsed: only Deliver does this.                *)
Quiet == bw.root.st = "waiting" => bw'.root.st # "parsing"

Preserved == Kept /\ Quiet

LEMMA OpenLinkPreserves ==
  ASSUME Sound(bw), NEW u \in Urls, NEW granted \in Grants, OpenLink(u, granted)
  PROVE  Preserved
<1>1. bw \in WindowType
  BY DEF Sound
<1>2. granted \in BOOLEAN /\ (Mishaps = {} => granted = TRUE)
  BY DEF Grants, IsMishap
<1>3. bw' = a_Nav_push(bw, u, {}, granted)
  BY DEF OpenLink
<1>4. /\ Sound(bw')
      /\ bw'.nav_stack = bw.nav_stack /\ bw'.nav_stack_ptr = bw.nav_stack_ptr
      /\ bw'.meta_refresh_url = bw.meta_refresh_url
      /\ bw.expect.url = u => bw' = bw
      /\ bw.expect.url # u =>
           /\ bw'.expect = [url |-> u, flags |-> {}]
           /\ bw'.meta_refresh_status \in {0, 1}
           /\ bw'.root = IF MustLoad(bw, u, {}) THEN Client(u, granted) ELSE bw.root
  BY <1>2, <1>3, Push
<1>5. Keeps(bw, bw')
  BY <1>4, SameStackKeeps
<1>6. ASSUME Mishaps = {}, Pending(bw) PROVE Pending(bw')
  <2>1. MustLoad(bw, u, {})
    BY <1>6 DEF OpenLink, IsMishap
  <2> QED BY <1>2, <1>4, <1>6, <2>1, NavAssumption DEF Pending, Client
<1>7. Quiet
  BY <1>2, <1>4 DEF Quiet, Client, Nowhere
<1> QED BY <1>4, <1>5, <1>6, <1>7 DEF Preserved, Kept

LEMMA StepPreserves ==
  ASSUME Sound(bw), NEW step \in {-1, 1}, Step(step)
  PROVE  Preserved
<1> DEFINE C == a_Nav_cancel_expect(bw)
           u == At(bw, bw.nav_stack_ptr + step)
           P == Nav_stack_move_ptr(C, step)
<1>1. bw \in WindowType /\ bw.nav_stack_ptr \in Int
  BY DEF Sound, WindowType
<1>2. u \in Urls \cup {NoUrl}
  BY <1>1, AtUrl
<1>3. /\ Sound(C)
      /\ C.expect = Nothing
      /\ C.meta_refresh_status \in {0, 1}
      /\ C.nav_stack = bw.nav_stack /\ C.nav_stack_ptr = bw.nav_stack_ptr
      /\ C.root = bw.root
  BY CancelSound
<1>4. bw' = IF u = NoUrl THEN C ELSE Nav_open_url(C, u, {}, step, TRUE)
  BY DEF Step
<1>5. CASE u = NoUrl
  <2>1. bw' = C
    BY <1>4, <1>5
  <2>2. Keeps(bw, bw')
    BY <1>3, <2>1, SameStackKeeps
  <2>3. Mishaps = {} => bw.root.st # "waiting"
    BY <1>5 DEF Step, IsMishap, Waiting
  <2> QED BY <1>3, <2>1, <2>2, <2>3 DEF Preserved, Kept, Quiet, Pending, Nothing
<1>6. CASE u # NoUrl
  <2>1. At(C, C.nav_stack_ptr + step) = u
    BY <1>3 DEF At, Size
  <2>2. P.nav_stack_ptr = bw.nav_stack_ptr + step
    BY <1>3, <1>6, <2>1, MoveSound
  <2> HIDE DEF C, P
  <2>3. /\ Sound(bw')
        /\ bw'.nav_stack = C.nav_stack /\ bw'.nav_stack_ptr = P.nav_stack_ptr
        /\ bw'.expect = C.expect
        /\ bw'.meta_refresh_status = C.meta_refresh_status
        /\ bw'.root = IF MustLoad(C, u, {}) THEN [url |-> u, st |-> "waiting"] ELSE C.root
    <3> DEFINE V == Nav_open_url(C, u, {}, step, TRUE)
    <3>1. step \in Int /\ u \in Urls \cup {NoUrl} /\ Sound(C)
      BY <1>2, <1>3, <1>6
    <3>2. /\ Sound(V)
         /\ V.nav_stack = C.nav_stack
         /\ V.nav_stack_ptr = Nav_stack_move_ptr(C, step).nav_stack_ptr
         /\ V.expect = C.expect
         /\ V.meta_refresh_status = C.meta_refresh_status
         /\ V.root = IF MustLoad(C, u, {}) THEN [url |-> u, st |-> "waiting"] ELSE C.root
      BY <3>1, OpenGranted, ZenonT(40)
    <3>3. bw' = V
      BY <1>4, <1>6
    <3> HIDE DEF V
    <3> QED BY <3>2, <3>3 DEF P
  <2>4. Keeps(bw, bw')
    BY <1>3, <2>3, SameStackKeeps
  <2>5. Top(bw') = u
    BY <1>3, <2>2, <2>3 DEF Top, At, Size
  <2>6. Top(C) # u
    <3>1. /\ 0 <= bw.nav_stack_ptr /\ bw.nav_stack_ptr < Size(bw)
          /\ 0 <= bw.nav_stack_ptr + step /\ bw.nav_stack_ptr + step < Size(bw)
          /\ Size(bw) \in Nat
      BY <1>1, <1>6, AtUrl DEF Sound, PtrIn, At, Size, WindowType
    <3>2. Apart(bw)
      BY DEF Sound
    <3>3. Top(C) = bw.nav_stack[bw.nav_stack_ptr + 1]
      BY <1>3, <3>1 DEF Top, At, Size
    <3>4. u = bw.nav_stack[bw.nav_stack_ptr + step + 1]
      BY <3>1 DEF At
    <3>5. CASE step = 1
      <4>1. bw.nav_stack_ptr + 1 \in 1 .. Size(bw) - 1
        BY <1>1, <3>1, <3>5
      <4> QED BY <1>1, <3>2, <3>3, <3>4, <3>5, <4>1 DEF Apart
    <3>6. CASE step = -1
      <4>1. bw.nav_stack_ptr \in 1 .. Size(bw) - 1 /\ bw.nav_stack_ptr + step + 1 = bw.nav_stack_ptr
        BY <1>1, <3>1, <3>6
      <4> HIDE DEF u
      <4> QED BY <3>2, <3>3, <3>4, <4>1 DEF Apart
    <3> QED BY <3>5, <3>6
  <2>7. MustLoad(C, u, {})
    BY <2>6 DEF MustLoad
  <2>8. Pending(bw')
    BY <1>3, <2>3, <2>5, <2>7 DEF Pending, Nothing
  <2>9. Quiet
    BY <1>3, <2>3 DEF Quiet
  <2> QED BY <2>3, <2>4, <2>8, <2>9 DEF Preserved, Kept
<1> QED BY <1>5, <1>6

LEMMA JumpPreserves ==
  ASSUME Sound(bw), NEW i \in 0 .. Size(bw) - 1, Jump(i)
  PROVE  Preserved
<1> DEFINE C == a_Nav_cancel_expect(bw)
           u == At(bw, i)
           offset == i - bw.nav_stack_ptr
           P == Nav_stack_move_ptr(C, offset)
<1>1. bw \in WindowType /\ bw.nav_stack_ptr \in Int /\ i \in Int /\ offset \in Int
  <2>1. Size(bw) \in Nat
    BY DEF Sound, WindowType, Size
  <2> QED BY <2>1 DEF Sound, WindowType
<1>2. u \in Urls /\ u # NoUrl
  BY <1>1, AtUrl DEF Jump
<1>3. /\ Sound(C)
      /\ C.expect = Nothing
      /\ C.meta_refresh_status \in {0, 1}
      /\ C.nav_stack = bw.nav_stack /\ C.nav_stack_ptr = bw.nav_stack_ptr
      /\ C.root = bw.root
  BY CancelSound
<1>4. bw' = Nav_open_url(C, u, {}, offset, TRUE)
  BY DEF Jump
<1>5. At(C, C.nav_stack_ptr + offset) = u /\ C.nav_stack_ptr + offset = i
  BY <1>1, <1>3 DEF At, Size
<1> HIDE DEF C, offset, u
<1>6. P.nav_stack_ptr = i
  BY <1>1, <1>2, <1>3, <1>5, MoveSound
<1>7. /\ Sound(bw')
      /\ bw'.nav_stack = C.nav_stack /\ bw'.nav_stack_ptr = P.nav_stack_ptr
      /\ bw'.expect = C.expect
      /\ bw'.meta_refresh_status = C.meta_refresh_status
      /\ bw'.root = IF MustLoad(C, u, {}) THEN [url |-> u, st |-> "waiting"] ELSE C.root
  <2> DEFINE V == Nav_open_url(C, u, {}, offset, TRUE)
  <2>1. offset \in Int /\ u \in Urls \cup {NoUrl} /\ Sound(C)
    BY <1>1, <1>2, <1>3
  <2>2. /\ Sound(V)
       /\ V.nav_stack = C.nav_stack
       /\ V.nav_stack_ptr = Nav_stack_move_ptr(C, offset).nav_stack_ptr
       /\ V.expect = C.expect
       /\ V.meta_refresh_status = C.meta_refresh_status
       /\ V.root = IF MustLoad(C, u, {}) THEN [url |-> u, st |-> "waiting"] ELSE C.root
    BY <2>1, OpenGranted, ZenonT(40)
  <2>3. bw' = V
    BY <1>4
  <2> HIDE DEF V
  <2> QED BY <2>2, <2>3 DEF P
<1> HIDE DEF P
<1>8. Keeps(bw, bw')
  BY <1>3, <1>7, SameStackKeeps
<1>9. Top(bw') = u
  BY <1>3, <1>6, <1>7 DEF Top, At, Size, u
<1>10. ASSUME Mishaps = {} PROVE Pending(bw')
  <2>1. MustLoad(C, u, {}) \/ bw.root.st # "waiting"
    <3>1. MustLoad(C, u, {}) <=> MustLoad(bw, u, {})
      BY <1>3 DEF MustLoad, Top, At, Size
    <3> QED BY <1>10, <3>1 DEF Jump, IsMishap, Waiting, u
  <2> QED BY <1>3, <1>7, <1>9, <2>1 DEF Pending, Nothing
<1>11. Quiet
  BY <1>3, <1>7 DEF Quiet
<1> QED BY <1>7, <1>8, <1>10, <1>11 DEF Preserved, Kept

(* Nav_repush and Nav_reload_callback.                                     *)
LEMMA LoadPreserves ==
  ASSUME Sound(bw), NEW flags \in {Reload, FromCache}, bw' = Load(flags), Again
  PROVE  Preserved
<1> DEFINE C == a_Nav_cancel_expect(bw)
           u == Top(C)
           E == [C EXCEPT !.expect = [url |-> u, flags |-> flags]]
           V == Nav_open_url(E, u, flags, 0, TRUE)
<1>1. /\ Sound(C)
      /\ C.expect = Nothing
      /\ C.meta_refresh_status \in {0, 1}
      /\ C.nav_stack = bw.nav_stack /\ C.nav_stack_ptr = bw.nav_stack_ptr
      /\ C.root = bw.root
  BY CancelSound
<1>2. bw' = IF Size(C) = 0 THEN C ELSE V
  BY DEF Load
<1>3. Size(C) = Size(bw)
  BY <1>1 DEF Size
<1> HIDE DEF C, V
<1>4. CASE Size(C) = 0
  <2>1. Keeps(bw, bw')
    BY <1>1, <1>2, <1>4, SameStackKeeps
  <2>2. Mishaps = {} => bw.root.st # "waiting"
    BY <1>3, <1>4 DEF Again, IsMishap, Waiting
  <2> QED BY <1>1, <1>2, <1>4, <2>1, <2>2 DEF Preserved, Kept, Quiet, Pending, Nothing
<1>5. CASE Size(C) # 0
  <2>1. C \in WindowType /\ C.sheets <= C.NumPendingStyleSheets /\ C.nav_stack_ptr \in Int
    BY <1>1 DEF Sound, WindowType
  <2>2. u \in Urls /\ u # NoUrl
    <3>1. 0 <= C.nav_stack_ptr /\ C.nav_stack_ptr < Size(C)
      BY <1>1, <1>5 DEF Sound, PtrIn
    <3> QED BY <2>1, <3>1, AtUrl DEF Top
  <2>3. [url |-> u, flags |-> flags]
          \in [url : Urls \cup {NoUrl}, flags : SUBSET (Reload \cup FromCache)]
    BY <2>2
  <2> HIDE DEF u
  <2>4. E \in WindowType
    BY <2>1, <2>3 DEF WindowType
  <2>5. /\ E.expect = [url |-> u, flags |-> flags]
        /\ E.meta_refresh_status = C.meta_refresh_status
        /\ E.nav_stack = C.nav_stack /\ E.nav_stack_ptr = C.nav_stack_ptr
        /\ E.sheets = C.sheets /\ E.NumPendingStyleSheets = C.NumPendingStyleSheets
    BY <2>1 DEF WindowType
  <2> HIDE DEF E
  <2>6. Sound(E)
    BY <1>1, <2>1, <2>4, <2>5, SameStackSound
  <2>7. MustLoad(E, u, flags)
    BY DEF MustLoad, Reload, FromCache
  <2>8. Nav_stack_move_ptr(E, 0).nav_stack_ptr = E.nav_stack_ptr
    BY <2>4 DEF Nav_stack_move_ptr, WindowType
  <2>9. /\ Sound(V)
        /\ V.nav_stack = E.nav_stack
        /\ V.nav_stack_ptr = Nav_stack_move_ptr(E, 0).nav_stack_ptr
        /\ V.expect = E.expect
        /\ V.meta_refresh_status = E.meta_refresh_status
        /\ V.root = IF MustLoad(E, u, flags) THEN [url |-> u, st |-> "waiting"] ELSE E.root
    <3>1. 0 \in Int /\ u \in Urls \cup {NoUrl}
      BY <2>2
    <3> QED BY <2>6, <3>1, OpenGranted, ZenonT(40) DEF V
  <2>10. bw' = V
    BY <1>2, <1>5
  <2>11. Keeps(bw, bw')
    BY <1>1, <2>5, <2>9, <2>10, SameStackKeeps
  <2>12. Top(bw') = u
    BY <1>1, <2>5, <2>8, <2>9, <2>10 DEF Top, At, Size, u
  <2>13. Pending(bw')
    BY <1>1, <2>2, <2>5, <2>7, <2>9, <2>10, <2>12 DEF Pending
  <2>14. Quiet
    BY <2>7, <2>9, <2>10 DEF Quiet
  <2> QED BY <2>9, <2>10, <2>11, <2>13, <2>14 DEF Preserved, Kept
<1> QED BY <1>4, <1>5

LEMMA RunReloadPreserves ==
  ASSUME Sound(bw), NEW confirmed \in BOOLEAN, RunReload(confirmed)
  PROVE  Preserved
<1>1. CASE confirmed
  <2>1. Again /\ bw' = Load(Reload)
    BY <1>1 DEF RunReload
  <2> QED BY <2>1, LoadPreserves
<1>2. CASE ~confirmed
  <2>1. bw' = a_Nav_cancel_expect(bw) /\ Mishaps # {}
    BY <1>2 DEF RunReload, IsMishap
  <2>2. Sound(bw') /\ bw'.nav_stack = bw.nav_stack /\ bw'.root = bw.root
    BY <2>1, CancelSound
  <2> QED BY <2>1, <2>2, SameStackKeeps DEF Preserved, Kept, Quiet
<1> QED BY <1>1, <1>2

(* The end of Nav_redirection0_callback: no redirection waits any more.    *)
LEMMA RefreshOver ==
  ASSUME NEW W, Sound(W)
  PROVE  LET V == [W EXCEPT !.meta_refresh_url = NoUrl, !.meta_refresh_status = 0] IN
         /\ Sound(V)
         /\ V.nav_stack = W.nav_stack /\ V.nav_stack_ptr = W.nav_stack_ptr
         /\ V.expect = W.expect /\ V.root = W.root /\ V.meta_refresh_status = 0
<1> DEFINE V == [W EXCEPT !.meta_refresh_url = NoUrl, !.meta_refresh_status = 0]
<1>1. W \in WindowType /\ W.sheets <= W.NumPendingStyleSheets
  BY DEF Sound
<1>2. V \in WindowType
  <2>1. NoUrl \in Urls \cup {NoUrl} /\ 0 \in 0 .. 2
    OBVIOUS
  <2> QED BY <1>1, <2>1 DEF WindowType
<1>3. /\ V.nav_stack = W.nav_stack /\ V.nav_stack_ptr = W.nav_stack_ptr
      /\ V.expect = W.expect /\ V.root = W.root /\ V.meta_refresh_status = 0
      /\ V.sheets = W.sheets /\ V.NumPendingStyleSheets = W.NumPendingStyleSheets
  BY <1>1 DEF WindowType
<1> HIDE DEF V
<1>4. Sound(V)
  BY <1>1, <1>2, <1>3, SameStackSound
<1> QED BY <1>3, <1>4 DEF V

LEMMA RunRedirection0Preserves ==
  ASSUME Sound(bw), RunRedirection0
  PROVE  Preserved
<1> DEFINE M == Nav_stack_move_ptr(bw, -1)
           u == bw.meta_refresh_url
           R == Redirection0(bw)
<1>1. bw \in WindowType /\ u \in Urls \cup {NoUrl} /\ -1 \in Int
  BY DEF Sound, WindowType
<1>2. /\ Sound(M)
      /\ M = [bw EXCEPT !.nav_stack_ptr = M.nav_stack_ptr]
  BY <1>1, MoveSound
<1>3. R = IF bw.meta_refresh_status = 2 THEN a_Nav_push(M, u, {"E2EQuery"}, TRUE) ELSE bw
  BY DEF Redirection0
<1>4. bw' = [R EXCEPT !.meta_refresh_url = NoUrl, !.meta_refresh_status = 0]
  BY DEF RunRedirection0
<1> HIDE DEF M, u, R
<1>5. M.nav_stack = bw.nav_stack /\ M.expect = bw.expect /\ M.root = bw.root
  BY <1>1, <1>2 DEF WindowType
<1>6. {"E2EQuery"} \in SUBSET (Reload \cup FromCache)
  BY DEF Reload
<1>7. ASSUME bw.meta_refresh_status = 2
      PROVE  /\ Sound(R)
             /\ R.nav_stack = M.nav_stack
             /\ M.expect.url = u => R.root = M.root
             /\ M.expect.url # u =>
                  /\ R.expect = [url |-> u, flags |-> {"E2EQuery"}]
                  /\ R.meta_refresh_status \in {0, 1}
                  /\ R.root = IF MustLoad(M, u, {"E2EQuery"})
                             THEN [url |-> u, st |-> "waiting"] ELSE M.root
  <2> DEFINE V == a_Nav_push(M, u, {"E2EQuery"}, TRUE)
  <2>1. /\ Sound(V)
        /\ V.nav_stack = M.nav_stack
        /\ M.expect.url = u => V.root = M.root
        /\ M.expect.url # u =>
             /\ V.expect = [url |-> u, flags |-> {"E2EQuery"}]
             /\ V.meta_refresh_status \in {0, 1}
             /\ V.root = IF MustLoad(M, u, {"E2EQuery"})
                        THEN [url |-> u, st |-> "waiting"] ELSE M.root
    BY <1>1, <1>2, <1>6, PushGranted, Zenon
  <2>2. R = V
    BY <1>3, <1>7
  <2> HIDE DEF V
  <2> QED BY <2>1, <2>2
<1>8. Sound(R) /\ R.nav_stack = bw.nav_stack
  BY <1>3, <1>5, <1>7
<1>9. /\ Sound(bw')
      /\ bw'.nav_stack = R.nav_stack /\ bw'.nav_stack_ptr = R.nav_stack_ptr
      /\ bw'.expect = R.expect /\ bw'.root = R.root /\ bw'.meta_refresh_status = 0
  BY <1>4, <1>8, RefreshOver
<1>10. Keeps(bw, bw')
  BY <1>8, <1>9, SameStackKeeps
<1>11. ASSUME Pending(bw) PROVE Pending(bw')
  <2>1. Top(bw') = Top(R)
    BY <1>9 DEF Top, At, Size
  <2>2. CASE bw.meta_refresh_status = 2
    <3>1. bw.expect.url = NoUrl /\ u # NoUrl
      BY <1>11, <2>2 DEF Pending, u
    <3>2. MustLoad(M, u, {"E2EQuery"})
      BY DEF MustLoad
    <3>3. /\ R.expect = [url |-> u, flags |-> {"E2EQuery"}]
          /\ R.root = [url |-> u, st |-> "waiting"]
      BY <1>5, <1>7, <2>2, <3>1, <3>2
    <3> QED BY <1>9, <3>1, <3>3 DEF Pending
  <2>3. CASE bw.meta_refresh_status # 2
    <3>1. R = bw
      BY <1>3, <2>3
    <3> QED BY <1>9, <1>11, <2>1, <3>1 DEF Pending
  <2> QED BY <2>2, <2>3
<1>12. Quiet
  <2>1. R.root \in {bw.root, [url |-> u, st |-> "waiting"]}
    BY <1>3, <1>5, <1>7
  <2> QED BY <1>9, <2>1 DEF Quiet
<1> QED BY <1>9, <1>10, <1>11, <1>12 DEF Preserved, Kept

LEMMA StopPreserves ==
  ASSUME Sound(bw), Stop
  PROVE  Preserved
<1> DEFINE C == a_Nav_cancel_expect(bw)
<1>1. /\ Sound(C)
      /\ C.expect = Nothing
      /\ C.meta_refresh_status \in {0, 1}
      /\ C.nav_stack = bw.nav_stack
  BY CancelSound
<1>2. bw' = a_Bw_stop_clients(C)
  BY DEF Stop
<1> HIDE DEF C
<1>3. /\ Sound(bw')
      /\ bw'.root = Nowhere /\ bw'.expect = C.expect
      /\ bw'.nav_stack = C.nav_stack
      /\ bw'.meta_refresh_status = C.meta_refresh_status
  BY <1>1, <1>2, ClientsGone
<1>4. Keeps(bw, bw')
  BY <1>1, <1>3, SameStackKeeps
<1>5. Pending(bw')
  BY <1>1, <1>3 DEF Pending, Nothing, Nowhere
<1> QED BY <1>3, <1>4, <1>5 DEF Preserved, Kept, Quiet, Nowhere
-----------------------------------------------------------------------------
(* A page that is shown is the one the stack names.                        *)
LEMMA DeliverPreserves ==
  ASSUME Sound(bw), NEW attachment \in BOOLEAN, Deliver(attachment)
  PROVE  /\ Kept
         /\ Pending(bw) => Top(bw') = bw.root.url
<1> DEFINE D == a_Nav_expect_done(bw)
           r == IF attachment THEN Nowhere ELSE [bw.root EXCEPT !.st = "parsing"]
<1>1. bw \in WindowType /\ bw.root.st = "waiting"
  BY DEF Sound, Deliver, Waiting
<1>2. /\ Sound(D)
      /\ Keeps(bw, D)
      /\ D.root = bw.root /\ D.expect.url = NoUrl
      /\ D.meta_refresh_status = 2 =>
           /\ bw.meta_refresh_status = 2
           /\ D.meta_refresh_url = bw.meta_refresh_url
      /\ Pending(bw) /\ bw.root.st = "waiting" => Top(D) = bw.root.url
  BY Done
<1>3. bw' = [D EXCEPT !.root = IF attachment THEN Nowhere ELSE [@ EXCEPT !.st = "parsing"],
                      !.redirect_level = 0]
  BY DEF Deliver
<1> HIDE DEF D
<1>4. D \in WindowType /\ D.sheets <= D.NumPendingStyleSheets
  BY <1>2 DEF Sound
<1>5. /\ r \in [url : Urls \cup {NoUrl}, st : {"none", "waiting", "parsing", "stopped"}]
      /\ r.st # "waiting"
  BY <1>1 DEF WindowType, Nowhere
<1>6. bw' = [D EXCEPT !.root = r, !.redirect_level = 0]
  BY <1>2, <1>3
<1> HIDE DEF r
<1>7. bw' \in WindowType
  BY <1>4, <1>5, <1>6 DEF WindowType
<1>8. /\ bw'.nav_stack = D.nav_stack /\ bw'.nav_stack_ptr = D.nav_stack_ptr
      /\ bw'.root = r /\ bw'.expect = D.expect
      /\ bw'.meta_refresh_status = D.meta_refresh_status
      /\ bw'.meta_refresh_url = D.meta_refresh_url
      /\ bw'.sheets = D.sheets /\ bw'.NumPendingStyleSheets = D.NumPendingStyleSheets
  BY <1>4, <1>6 DEF WindowType
<1>9. Sound(bw')
  BY <1>2, <1>4, <1>7, <1>8, SameStackSound
<1>10. Keeps(bw, bw') /\ Top(bw') = Top(D)
  BY <1>2, <1>8 DEF Keeps, Top, At, Size
<1>11. Pending(bw) => Pending(bw')
  BY <1>2, <1>5, <1>8 DEF Pending
<1> QED BY <1>1, <1>2, <1>9, <1>10, <1>11 DEF Kept

LEMMA RedirectPreserves ==
  ASSUME Sound(bw), NEW u \in Urls, NEW temp \in BOOLEAN, NEW granted \in Grants,
         Redirect(u, temp, granted)
  PROVE  Preserved
<1> DEFINE flags == IF temp THEN {"E2EQuery"} ELSE {}
           W == [bw EXCEPT !.root = Nowhere, !.redirect_level = @ + 1]
           L == [W EXCEPT !.redirect_level = 0]
           looping == W.redirect_level >= MaxRedirects
<1>1. bw \in WindowType /\ bw.sheets <= bw.NumPendingStyleSheets /\ bw.root.st = "waiting"
  BY DEF Sound, Redirect, Waiting
<1>2. granted \in BOOLEAN /\ (Mishaps = {} => granted = TRUE)
  BY DEF Grants, IsMishap
<1>3. flags \in SUBSET (Reload \cup FromCache)
  BY DEF Reload
<1>4. bw' = IF looping THEN L ELSE a_Nav_push(W, u, flags, granted)
  BY DEF Redirect
<1>5. Nowhere \in [url : Urls \cup {NoUrl}, st : {"none", "waiting", "parsing", "stopped"}]
  BY DEF Nowhere
<1>6. bw.redirect_level + 1 \in Nat
  BY <1>1 DEF WindowType
<1>7. W \in WindowType
  BY <1>1, <1>5, <1>6 DEF WindowType
<1>8. /\ W.root = Nowhere /\ W.expect = bw.expect
      /\ W.nav_stack = bw.nav_stack /\ W.nav_stack_ptr = bw.nav_stack_ptr
      /\ W.sheets = bw.sheets /\ W.NumPendingStyleSheets = bw.NumPendingStyleSheets
  BY <1>1 DEF WindowType
<1> HIDE DEF W, flags
<1>9. Sound(W)
  BY <1>1, <1>7, <1>8, SameStackSound
<1>10. CASE looping
  <2>1. L \in WindowType
    BY <1>7 DEF WindowType
  <2>2. /\ L.nav_stack = W.nav_stack /\ L.nav_stack_ptr = W.nav_stack_ptr
        /\ L.sheets = W.sheets /\ L.NumPendingStyleSheets = W.NumPendingStyleSheets
    BY <1>7 DEF WindowType
  <2>3. bw' = L
    BY <1>4, <1>10
  <2> HIDE DEF L
  <2>4. Sound(bw')
    BY <1>1, <1>8, <1>9, <2>1, <2>2, <2>3, SameStackSound
  <2>5. Keeps(bw, bw')
    BY <1>8, <2>2, <2>3, SameStackKeeps
  <2>6. Mishaps # {}
    BY <1>10 DEF Redirect, IsMishap, W
  <2>7. bw'.root = Nowhere
    BY <1>7, <1>8, <2>3 DEF L, WindowType
  <2> QED BY <2>4, <2>5, <2>6, <2>7 DEF Preserved, Kept, Quiet, Nowhere
<1>11. CASE ~looping
  <2>1. bw' = a_Nav_push(W, u, flags, granted)
    BY <1>4, <1>11
  <2>2. /\ Sound(bw')
        /\ bw'.nav_stack = W.nav_stack
        /\ W.expect.url = u => bw' = W
        /\ W.expect.url # u =>
             /\ bw'.expect = [url |-> u, flags |-> flags]
             /\ bw'.meta_refresh_status \in {0, 1}
             /\ bw'.root = IF MustLoad(W, u, flags) THEN Client(u, granted) ELSE W.root
    BY <1>2, <1>3, <1>9, <2>1, Push
  <2>3. Keeps(bw, bw')
    BY <1>8, <2>2, SameStackKeeps
  <2>4. ASSUME Mishaps = {}, Pending(bw) PROVE Pending(bw')
    <3>1. u # bw.root.url /\ MustLoad(bw, u, flags)
      BY <1>11, <2>4 DEF Redirect, IsMishap, W, flags
    <3>2. MustLoad(W, u, flags)
      BY <1>8, <3>1 DEF MustLoad, Top, At, Size
    <3>3. W.expect.url # u
      BY <1>1, <1>8, <2>4, <3>1, NavAssumption DEF Pending
    <3>4. flags \cap {"ReloadPage", "ReloadFromCache"} = {}
      BY DEF flags
    <3>5. u # NoUrl /\ granted = TRUE
      BY <1>2, <2>4, NavAssumption
    <3>6. Client(u, granted) = [url |-> u, st |-> "waiting"]
      BY <3>5 DEF Client
    <3>7. /\ bw'.expect = [url |-> u, flags |-> flags]
          /\ bw'.meta_refresh_status \in {0, 1}
          /\ bw'.root = [url |-> u, st |-> "waiting"]
      BY <2>2, <3>2, <3>3, <3>6
    <3> QED BY <3>4, <3>5, <3>7 DEF Pending
  <2>5. Quiet
    BY <1>2, <1>8, <2>2 DEF Quiet, Client, Nowhere
  <2> QED BY <2>2, <2>3, <2>4, <2>5 DEF Preserved, Kept
<1> QED BY <1>10, <1>11

LEMMA FailPreserves ==
  ASSUME Sound(bw), NEW owner \in BOOLEAN, Fail(owner)
  PROVE  Preserved
<1> DEFINE W == [bw EXCEPT !.root = Nowhere]
<1>1. bw.root.st = "waiting" /\ (Mishaps = {} => owner)
  BY DEF Fail, Waiting, IsMishap
<1>2. Nowhere \in [url : Urls \cup {NoUrl}, st : {"none", "waiting", "parsing", "stopped"}]
  BY DEF Nowhere
<1>3. /\ Sound(W)
      /\ W.root = Nowhere /\ W.expect = bw.expect
      /\ W.nav_stack = bw.nav_stack /\ W.nav_stack_ptr = bw.nav_stack_ptr
      /\ W.meta_refresh_status = bw.meta_refresh_status
      /\ W.meta_refresh_url = bw.meta_refresh_url
  BY <1>2, RootSound
<1>4. bw' = IF owner /\ W.expect.url = bw.root.url THEN a_Nav_cancel_expect(W) ELSE W
  BY DEF Fail
<1> HIDE DEF W
<1>5. CASE owner /\ W.expect.url = bw.root.url
  <2>1. /\ Sound(bw')
        /\ bw'.expect = Nothing
        /\ bw'.meta_refresh_status \in {0, 1}
        /\ bw'.nav_stack = W.nav_stack
        /\ bw'.root = W.root
    BY <1>3, <1>4, <1>5, CancelSound
  <2> QED BY <1>3, <2>1, SameStackKeeps DEF Preserved, Kept, Quiet, Pending, Nothing, Nowhere
<1>6. CASE ~(owner /\ W.expect.url = bw.root.url)
  <2>1. bw' = W
    BY <1>4, <1>6
  <2>2. Mishaps = {} /\ Pending(bw) => W.expect.url = NoUrl
    BY <1>1, <1>3, <1>6 DEF Pending
  <2>3. Keeps(bw, bw')
    BY <1>3, <2>1, SameStackKeeps
  <2>4. ASSUME Mishaps = {}, Pending(bw) PROVE Pending(bw')
    <3>1. bw'.expect.url = NoUrl /\ bw'.root.st = "none"
      BY <1>3, <2>1, <2>2, <2>4 DEF Nowhere
    <3> QED BY <1>3, <2>1, <2>4, <3>1 DEF Pending
  <2> QED BY <1>3, <2>1, <2>3, <2>4 DEF Preserved, Kept, Quiet, Nowhere
<1> QED BY <1>5, <1>6

LEMMA GonePreserves ==
  ASSUME Sound(bw), Lose \/ Complete
  PROVE  Preserved
<1>1. bw' = [bw EXCEPT !.root = Nowhere] /\ (Mishaps = {} => bw.root.st # "waiting")
  BY DEF Lose, Complete, Waiting, IsMishap
<1>2. Nowhere \in [url : Urls \cup {NoUrl}, st : {"none", "waiting", "parsing", "stopped"}]
  BY DEF Nowhere
<1>3. /\ Sound(bw')
      /\ bw'.root = Nowhere /\ bw'.expect = bw.expect
      /\ bw'.nav_stack = bw.nav_stack
      /\ bw'.meta_refresh_status = bw.meta_refresh_status
      /\ bw'.meta_refresh_url = bw.meta_refresh_url
  BY <1>1, <1>2, RootSound
<1>4. Keeps(bw, bw')
  BY <1>3, SameStackKeeps
<1>5. Mishaps = {} /\ Pending(bw) => Pending(bw')
  BY <1>1, <1>3 DEF Pending, Nowhere
<1> QED BY <1>3, <1>4, <1>5 DEF Preserved, Kept, Quiet, Nowhere

(* What the head of a page does: the parser may be stopped.                *)
LEMMA HeadPreserves ==
  ASSUME Sound(bw),
         \/ \E u \in Urls : MetaRefresh(u)
         \/ MetaCharset \/ LoadSheet \/ SheetArrives \/ SheetMissing
  PROVE  Preserved
<1>1. bw \in WindowType /\ bw.sheets <= bw.NumPendingStyleSheets
  BY DEF Sound
<1>2. bw.sheets \in Nat /\ bw.NumPendingStyleSheets \in Nat
  BY <1>1 DEF WindowType
<1> SUFFICES /\ bw' \in WindowType
             /\ bw'.sheets <= bw'.NumPendingStyleSheets
             /\ bw'.nav_stack = bw.nav_stack /\ bw'.nav_stack_ptr = bw.nav_stack_ptr
             /\ bw'.expect = bw.expect
             /\ Pending(bw) => Pending(bw')
             /\ Quiet
  BY SameStackSound, SameStackKeeps DEF Preserved, Kept
<1>3. ASSUME NEW u \in Urls, MetaRefresh(u)
      PROVE  /\ bw' \in WindowType
             /\ bw'.sheets <= bw'.NumPendingStyleSheets
             /\ bw'.nav_stack = bw.nav_stack /\ bw'.nav_stack_ptr = bw.nav_stack_ptr
             /\ bw'.expect = bw.expect
             /\ Pending(bw) => Pending(bw')
             /\ Quiet
  <2> DEFINE r == [bw.root EXCEPT !.st = "stopped"]
  <2>2. /\ bw' = [bw EXCEPT !.root = r, !.meta_refresh_url = u, !.meta_refresh_status = 2]
        /\ bw.root.st = "parsing"
    BY <1>3 DEF MetaRefresh
  <2>1. /\ r \in [url : Urls \cup {NoUrl}, st : {"none", "waiting", "parsing", "stopped"}]
        /\ r.st = "stopped"
    BY <1>1 DEF WindowType
  <2> HIDE DEF r
  <2>3. u \in Urls \cup {NoUrl} /\ 2 \in 0 .. 2
    OBVIOUS
  <2>4. bw' \in WindowType
    BY <1>1, <2>1, <2>2, <2>3 DEF WindowType
  <2>5. /\ bw'.sheets = bw.sheets /\ bw'.NumPendingStyleSheets = bw.NumPendingStyleSheets
         /\ bw'.nav_stack = bw.nav_stack /\ bw'.nav_stack_ptr = bw.nav_stack_ptr
         /\ bw'.expect = bw.expect
    BY <1>1, <2>2, <2>1 DEF WindowType
  <2>6. bw'.root.st = "stopped" /\ bw'.meta_refresh_url = u
    BY <1>1, <2>2, <2>1 DEF WindowType
  <2> QED BY <1>1, <2>2, <2>4, <2>5, <2>6, NavAssumption DEF Pending, Quiet
<1>4. ASSUME MetaCharset
      PROVE  /\ bw' \in WindowType
             /\ bw'.sheets <= bw'.NumPendingStyleSheets
             /\ bw'.nav_stack = bw.nav_stack /\ bw'.nav_stack_ptr = bw.nav_stack_ptr
             /\ bw'.expect = bw.expect
             /\ Pending(bw) => Pending(bw')
             /\ Quiet
  <2>1. bw' = [bw EXCEPT !.root.st = "stopped"] /\ bw.root.st = "parsing"
    BY <1>4 DEF MetaCharset
  <2>2. /\ bw' \in WindowType
        /\ bw'.sheets = bw.sheets /\ bw'.NumPendingStyleSheets = bw.NumPendingStyleSheets
        /\ bw'.nav_stack = bw.nav_stack /\ bw'.nav_stack_ptr = bw.nav_stack_ptr
        /\ bw'.expect = bw.expect
        /\ bw'.meta_refresh_status = bw.meta_refresh_status
        /\ bw'.meta_refresh_url = bw.meta_refresh_url
    BY <1>1, <2>1 DEF WindowType
  <2>3. bw'.root.st = "stopped"
    BY <1>1, <2>1 DEF WindowType
  <2> QED BY <1>1, <2>1, <2>2, <2>3 DEF Pending, Quiet
<1>5. ASSUME LoadSheet \/ SheetArrives \/ SheetMissing
      PROVE  /\ bw' \in WindowType
             /\ bw'.sheets <= bw'.NumPendingStyleSheets
             /\ bw'.nav_stack = bw.nav_stack /\ bw'.nav_stack_ptr = bw.nav_stack_ptr
             /\ bw'.expect = bw.expect
             /\ Pending(bw) => Pending(bw')
             /\ Quiet
  <2>1. PICK n \in Nat, k \in Nat :
          k <= n /\ bw' = [bw EXCEPT !.sheets = k, !.NumPendingStyleSheets = n]
    <3>1. CASE LoadSheet
      <4>1. bw' = [bw EXCEPT !.sheets = bw.sheets + 1,
                             !.NumPendingStyleSheets = bw.NumPendingStyleSheets + 1]
        BY <1>1, <3>1 DEF LoadSheet, WindowType
      <4>2. /\ bw.sheets + 1 \in Nat /\ bw.NumPendingStyleSheets + 1 \in Nat
            /\ bw.sheets + 1 <= bw.NumPendingStyleSheets + 1
        BY <1>1, <1>2, <4>1
      <4> QED BY <4>1, <4>2
    <3>2. CASE SheetArrives
      <4>1. /\ bw' = [bw EXCEPT !.sheets = bw.sheets - 1,
                                !.NumPendingStyleSheets = bw.NumPendingStyleSheets - 1]
            /\ bw.sheets > 0
        BY <1>1, <3>2 DEF SheetArrives, WindowType
      <4>2. /\ bw.sheets - 1 \in Nat /\ bw.NumPendingStyleSheets - 1 \in Nat
            /\ bw.sheets - 1 <= bw.NumPendingStyleSheets - 1
        BY <1>1, <1>2, <4>1
      <4> QED BY <4>1, <4>2
    <3>3. CASE SheetMissing
      <4>1. /\ bw' = [bw EXCEPT !.sheets = bw.sheets - 1,
                                !.NumPendingStyleSheets = bw.NumPendingStyleSheets]
            /\ bw.sheets > 0
        BY <1>1, <3>3 DEF SheetMissing, WindowType
      <4>2. /\ bw.sheets - 1 \in Nat /\ bw.NumPendingStyleSheets \in Nat
            /\ bw.sheets - 1 <= bw.NumPendingStyleSheets
        BY <1>1, <1>2, <4>1
      <4> QED BY <4>1, <4>2
    <3> QED BY <1>5, <3>1, <3>2, <3>3
  <2>2. /\ bw' \in WindowType
        /\ bw'.sheets <= bw'.NumPendingStyleSheets
        /\ bw'.nav_stack = bw.nav_stack /\ bw'.nav_stack_ptr = bw.nav_stack_ptr
        /\ bw'.expect = bw.expect /\ bw'.root = bw.root
        /\ bw'.meta_refresh_status = bw.meta_refresh_status
        /\ bw'.meta_refresh_url = bw.meta_refresh_url
    BY <1>1, <2>1 DEF WindowType
  <2>3. Quiet
    BY <1>5, <2>2 DEF Quiet
  <2> QED BY <2>2, <2>3 DEF Pending, Top, At, Size
<1> QED BY <1>3, <1>4, <1>5
-----------------------------------------------------------------------------
LEMMA StepSound ==
  ASSUME Sound(bw), timeouts \in Seq(Callbacks), Next
  PROVE  /\ Kept /\ timeouts' \in Seq(Callbacks)
         /\ Quiet \/ (Pending(bw) => Top(bw') = bw.root.url)
<1>1. timeouts' \in Seq(Callbacks)
  <2>1. ASSUME NEW t \in Callbacks, Timeouts(t) PROVE timeouts' \in Seq(Callbacks)
    BY <2>1 DEF Timeouts
  <2>2. ASSUME NEW t, Due(t) PROVE timeouts' \in Seq(Callbacks)
    BY <2>2 DEF Due
  <2> QED BY <2>1, <2>2 DEF Next, OpenLink, Step, Jump, Ask, Stop, RunRepush, RunReload,
             RunRedirection0, Answer, Deliver, Redirect, Fail, Lose, Complete,
             MetaRefresh, MetaCharset, LoadSheet, SheetArrives, SheetMissing, Callbacks
<1>2. Kept /\ (Quiet \/ (Pending(bw) => Top(bw') = bw.root.url))
  <2>1. CASE \E u \in Urls, g \in Grants : OpenLink(u, g)
    BY <2>1, OpenLinkPreserves DEF Preserved
  <2>2. CASE \E s \in {-1, 1} : Step(s)
    BY <2>2, StepPreserves DEF Preserved
  <2>3. CASE \E i \in 0 .. Size(bw) - 1 : Jump(i)
    BY <2>3, JumpPreserves DEF Preserved
  <2>4. CASE \E w \in {"reload", "repush"} : Ask(w)
    <3>1. bw' = bw
      BY <2>4 DEF Ask
    <3> QED BY <3>1 DEF Kept, Keeps, Quiet, Pending, Top, At, Size
  <2>5. CASE Stop
    BY <2>5, StopPreserves DEF Preserved
  <2>6. CASE RunRepush
    <3>1. Again /\ bw' = Load(FromCache)
      BY <2>6 DEF RunRepush
    <3> QED BY <3>1, LoadPreserves DEF Preserved
  <2>7. CASE RunRedirection0
    BY <2>7, RunRedirection0Preserves DEF Preserved
  <2>8. CASE \E c \in BOOLEAN : RunReload(c)
    BY <2>8, RunReloadPreserves DEF Preserved
  <2>9. CASE Answer
    <3>1. CASE \E a \in BOOLEAN : Deliver(a)
      BY <3>1, DeliverPreserves
    <3>2. CASE \E u \in Urls, t \in BOOLEAN, g \in Grants : Redirect(u, t, g)
      BY <3>2, RedirectPreserves DEF Preserved
    <3>3. CASE \E owner \in BOOLEAN : Fail(owner)
      BY <3>3, FailPreserves DEF Preserved
    <3> QED BY <2>9, <3>1, <3>2, <3>3 DEF Answer
  <2>10. CASE Lose \/ Complete
    BY <2>10, GonePreserves DEF Preserved
  <2>11. CASE \/ \E u \in Urls : MetaRefresh(u)
              \/ MetaCharset \/ LoadSheet \/ SheetArrives \/ SheetMissing
    BY <2>11, HeadPreserves DEF Preserved
  <2> QED BY <2>1, <2>2, <2>3, <2>4, <2>5, <2>6, <2>7, <2>8, <2>9, <2>10, <2>11 DEF Next
<1> QED BY <1>1, <1>2

SoundInv == Sound(bw) /\ timeouts \in Seq(Callbacks)

LEMMA InitSound == Init => SoundInv /\ Pending(bw)
<1> SUFFICES ASSUME Init PROVE SoundInv /\ Pending(bw)
  OBVIOUS
<1>1. bw \in WindowType
  BY DEF Init, WindowType, Nothing, Nowhere
<1>2. Sound(bw)
  BY <1>1 DEF Init, Sound, PtrIn, Apart, Size
<1>3. timeouts \in Seq(Callbacks)
  BY DEF Init
<1>4. Pending(bw)
  BY DEF Init, Pending, Nothing, Nowhere
<1> QED BY <1>2, <1>3, <1>4 DEF SoundInv

(* Whatever mishaps are let in, the window stays sound.                    *)
THEOREM Invariance == Spec => []SoundInv
<1>1. Init => SoundInv
  BY InitSound
<1>2. SoundInv /\ [Next]_vars => SoundInv'
  <2> SUFFICES ASSUME SoundInv, [Next]_vars PROVE SoundInv'
    OBVIOUS
  <2>1. CASE Next
    <3>1. Kept /\ timeouts' \in Seq(Callbacks)
      BY <2>1, StepSound DEF SoundInv
    <3> QED BY <3>1 DEF SoundInv, Kept
  <2>2. CASE UNCHANGED vars
    <3>1. bw' = bw /\ timeouts' = timeouts
      BY <2>2 DEF vars
    <3> QED BY <3>1 DEF SoundInv
  <2> QED BY <2>1, <2>2
<1> QED BY <1>1, <1>2, PTL DEF Spec

(* The fields of BrowserWindow that nav.c changes keep their types.        *)
THEOREM TypeCorrect == Spec => []TypeOK
<1>1. SoundInv => TypeOK
  BY DEF SoundInv, Sound, TypeOK
<1> QED BY <1>1, Invariance, PTL

(* The pointer never leaves the stack, and the stack never holds the same  *)
(* page twice in a row, whatever handlers run in whatever order.           *)
THEOREM StackIsSound == Spec => []StackSound
<1>1. SoundInv => StackSound
  BY DEF SoundInv, Sound, StackSound, PtrInStack, PtrIn, NoAdjacentEqual, Apart
<1> QED BY <1>1, Invariance, PTL

(* No client waits for a style sheet that is not counted.                  *)
THEOREM SheetsAreCounted == Spec => []SheetsCounted
<1>1. SoundInv => SheetsCounted
  BY DEF SoundInv, Sound, SheetsCounted
<1> QED BY <1>1, Invariance, PTL

(* No handler changes the stack up to the current page.                    *)
THEOREM PastIsKept == Spec => PastKept
<1>1. SoundInv /\ [Next]_vars => [\A i \in 0 .. bw.nav_stack_ptr : At(bw', i) = At(bw, i)]_vars
  <2> SUFFICES ASSUME SoundInv, Next
               PROVE  \A i \in 0 .. bw.nav_stack_ptr : At(bw', i) = At(bw, i)
    OBVIOUS
  <2> QED BY StepSound DEF SoundInv, Kept, Keeps
<1> QED BY <1>1, Invariance, PTL DEF Spec, PastKept

(* Without mishaps a page that is shown is the one the stack names.        *)
THEOREM DeliveredNamed == ASSUME Mishaps = {} PROVE Spec => DeliveredIsNamed
<1> DEFINE Inv == SoundInv /\ Pending(bw)
           Named == (Waiting /\ bw'.root.st = "parsing") => Top(bw') = bw.root.url
<1>1. Init => Inv
  BY InitSound
<1>2. Inv /\ [Next]_vars => Inv'
  <2> SUFFICES ASSUME Inv, [Next]_vars PROVE Inv'
    OBVIOUS
  <2>1. CASE Next
    <3>1. Kept /\ timeouts' \in Seq(Callbacks)
      BY <2>1, StepSound DEF SoundInv
    <3> QED BY <3>1 DEF SoundInv, Kept
  <2>2. CASE UNCHANGED vars
    <3>1. bw' = bw /\ timeouts' = timeouts
      BY <2>2 DEF vars
    <3> QED BY <3>1 DEF SoundInv, Pending, Top, At, Size
  <2> QED BY <2>1, <2>2
<1>3. Inv /\ [Next]_vars => [Named]_vars
  <2> SUFFICES ASSUME Inv, Next, Waiting, bw'.root.st = "parsing"
               PROVE  Top(bw') = bw.root.url
    OBVIOUS
  <2> QED BY StepSound DEF SoundInv, Quiet, Waiting
<1> QED BY <1>1, <1>2, <1>3, PTL DEF Spec, DeliveredIsNamed
=============================================================================
