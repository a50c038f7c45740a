-------------------------------- MODULE Nav --------------------------------
(***************************************************************************)
(* The navigation of one browser window (src/src/nav.c, bw.c), with the    *)
(* steps of its surroundings that change it: the user (uicmd.cc), the      *)
(* answers for its page (cache.c, web.cc, capi.c), and what the parser     *)
(* finds in the head of that page (html.cc).                               *)
(*                                                                         *)
(* One handler runs at a time and is one action.  What it does to the      *)
(* window is a composition of operators on the record W of its fields, in  *)
(* the order of the calls.  "root" is the client of the page in the cache: *)
(* it waits for an answer, is parsed, or its parser has been stopped by a  *)
(* META element.  A url is a value with an equality, its fragment          *)
(* included; so is its place in the global history, which holds no url     *)
(* twice.  Scrolling and images are left out.                              *)
(***************************************************************************)
EXTENDS Integers, Sequences

CONSTANTS Urls,
          NoUrl,
          MaxStack,      \* bound on the navigation stack
          MaxTimeouts,   \* bound on the timeouts that wait to run
          MaxSheets,     \* bound on the style sheets a page asks for
          MaxRedirects,  \* answers "redirect" in a row (5)
          Mishaps        \* events let in, see IsMishap

ASSUME NavAssumption ==
  /\ NoUrl \notin Urls
  /\ MaxStack \in Nat /\ MaxStack >= 2
  /\ MaxTimeouts \in Nat /\ MaxSheets \in Nat /\ MaxRedirects \in Nat
  /\ Mishaps \subseteq {"edge", "same_page", "declined", "refused", "loop",
                        "elsewhere"}

VARIABLES bw,        \* the fields of BrowserWindow, see WindowType
          timeouts   \* callbacks for this window that wait to run, in order

vars == <<bw, timeouts>>

Reload    == {"ReloadPage", "E2EQuery"}
FromCache == {"ReloadFromCache"}

Nowhere == [url |-> NoUrl, st |-> "none"]
Nothing == [url |-> NoUrl, flags |-> {}]

WindowType ==
  [nav_stack : Seq(Urls), nav_stack_ptr : Int,
   expect : [url : Urls \cup {NoUrl}, flags : SUBSET (Reload \cup FromCache)],
   root : [url : Urls \cup {NoUrl}, st : {"none", "waiting", "parsing", "stopped"}],
   meta_refresh_status : 0 .. 2, meta_refresh_url : Urls \cup {NoUrl},
   redirect_level : Nat,
   NumPendingStyleSheets : Nat,
   sheets : Nat]    \* clients for style sheets that wait for an answer

Callbacks == {"repush", "reload", "redirection0"}

\* a_Bw_new
Init ==
  /\ bw = [nav_stack |-> <<>>, nav_stack_ptr |-> -1, expect |-> Nothing,
           root |-> Nowhere, meta_refresh_status |-> 0,
           meta_refresh_url |-> NoUrl, redirect_level |-> 0,
           NumPendingStyleSheets |-> 0, sheets |-> 0]
  /\ timeouts = <<>>

(***************************************************************************)
(* The stack.                                                              *)
(***************************************************************************)
Size(W) == Len(W.nav_stack)

\* a_Nav_get_uidx: positions count from 0
At(W, i) == IF 0 <= i /\ i < Size(W) THEN W.nav_stack[i + 1] ELSE NoUrl

Top(W) == At(W, W.nav_stack_ptr)

Nav_stack_move_ptr(W, offset) ==
  LET n == W.nav_stack_ptr + offset
  IN IF 0 <= n /\ n < Size(W) THEN [W EXCEPT !.nav_stack_ptr = n] ELSE W

\* Mutant: the current page is cut off with what follows it.
Nav_stack_put_cut(W, u) ==
  [W EXCEPT !.nav_stack = Append(SubSeq(@, 1, W.nav_stack_ptr), u)]

\* Mutant: what follows the current page stays.
Nav_stack_put_after(W, u) == [W EXCEPT !.nav_stack = Append(@, u)]

\* Nav_stack_truncate(ptr + 1) and Nav_stack_append
Nav_stack_put(W, u) ==
  [W EXCEPT !.nav_stack = Append(SubSeq(@, 1, W.nav_stack_ptr + 1), u)]

\* Mutant: the pointer stays on the item that is removed.
Nav_stack_clean_ptr(W) ==
  LET n == Size(W) IN
    IF n >= 2 /\ At(W, n - 2) = At(W, n - 1)
    THEN [W EXCEPT !.nav_stack = SubSeq(@, 1, n - 1)] ELSE W

Nav_stack_clean(W) ==
  LET n == Size(W) IN
    IF n >= 2 /\ At(W, n - 2) = At(W, n - 1)
    THEN [W EXCEPT !.nav_stack = SubSeq(@, 1, n - 1),
                   !.nav_stack_ptr = IF @ >= n - 1 THEN n - 2 ELSE @]
    ELSE W

(***************************************************************************)
(* Clients and expectations.                                               *)
(***************************************************************************)
\* Mutant: only the client of the page is stopped.
a_Bw_stop_root(W) == [W EXCEPT !.root = Nowhere]

\* a_Bw_stop_clients(BW_Root + BW_Img)
a_Bw_stop_clients(W) == [W EXCEPT !.root = Nowhere, !.sheets = 0]

\* a_Bw_cleanup
a_Bw_cleanup(W) == [W EXCEPT !.NumPendingStyleSheets = 0]

\* Mutant: the status of a redirection is not looked at.
a_Nav_cancel_expect_below(W) ==
  [W EXCEPT !.expect = Nothing, !.meta_refresh_status = @ - 1]

a_Nav_cancel_expect(W) ==
  [W EXCEPT !.expect = Nothing,
            !.meta_refresh_status = IF @ > 0 THEN @ - 1 ELSE 0]

\* Must Nav_open_url fetch url u, or is it the page of the stack already?
MustLoad(W, u, flags) ==
  \/ flags \cap {"E2EQuery", "ReloadFromCache"} # {}
  \/ Top(W) # u

(* a_Capi_open_url may refuse the url: then there is no client.            *)
Nav_open_url(W, u, flags, offset, granted) ==
  LET P == Nav_stack_move_ptr(W, offset)
      C == a_Bw_cleanup(a_Bw_stop_clients(P))
  IN IF ~MustLoad(W, u, flags) THEN P
     ELSE IF granted THEN [C EXCEPT !.root = [url |-> u, st |-> "waiting"]]
     ELSE C

a_Nav_push(W, u, flags, granted) ==
  IF W.expect.url = u THEN W
  ELSE Nav_open_url([a_Nav_cancel_expect(W) EXCEPT !.expect = [url |-> u, flags |-> flags]],
                    u, flags, 0, granted)

\* Mutant: the expectation stays when the page is here.
a_Nav_expect_done_kept(W) ==
  LET new == W.expect.flags \cap {"ReloadPage", "ReloadFromCache"} = {}
      P == IF new THEN Nav_stack_move_ptr(Nav_stack_put(W, W.expect.url), 1)
           ELSE W
  IN IF W.expect.url = NoUrl THEN Nav_stack_clean(W) ELSE Nav_stack_clean(P)

(* The expected page is here: unless it was on the stack already, it       *)
(* replaces what comes after the current one.                              *)
a_Nav_expect_done(W) ==
  LET new == W.expect.flags \cap {"ReloadPage", "ReloadFromCache"} = {}
      P == IF new THEN Nav_stack_move_ptr(Nav_stack_put(W, W.expect.url), 1)
           ELSE W
  IN IF W.expect.url = NoUrl THEN Nav_stack_clean(W)
     ELSE Nav_stack_clean(a_Nav_cancel_expect(P))

(***************************************************************************)
(* What is let in.  Without mishaps a client that waits is never left      *)
(* behind by a cancelled expectation, and an expectation never without a   *)
(* client:                                                                 *)
(*   "edge"       back and forward at the end of the stack                 *)
(*   "same_page"  the url asked for is the one of the stack already        *)
(*   "declined"   a form is not posted again on reload                     *)
(*   "refused"    the url is refused (domain rules, unknown schemes)       *)
(*   "loop"       too many redirections in a row                           *)
(*   "elsewhere"  another window fetches the url again, or owns the        *)
(*                connection that fails                                    *)
(***************************************************************************)
IsMishap(m) == m \in Mishaps

Waiting == bw.root.st = "waiting"
Grants  == IF IsMishap("refused") THEN BOOLEAN ELSE {TRUE}
HasRoom == bw.nav_stack_ptr + 2 <= MaxStack

Timeouts(t) == Len(timeouts) < MaxTimeouts /\ timeouts' = Append(timeouts, t)

(***************************************************************************)
(* The user.                                                               *)
(***************************************************************************)
\* a_UIcmd_open_url: a link, the location bar, the home button
OpenLink(u, granted) ==
  /\ HasRoom
  /\ MustLoad(bw, u, {}) \/ IsMishap("same_page")
  /\ bw' = a_Nav_push(bw, u, {}, granted)
  /\ UNCHANGED timeouts

\* a_Nav_back and a_Nav_forw (step -1 and 1)
Step(step) ==
  LET u == At(bw, bw.nav_stack_ptr + step)
      C == a_Nav_cancel_expect(bw)
  IN /\ u # NoUrl \/ ~Waiting \/ IsMishap("edge")
     /\ bw' = IF u = NoUrl THEN C ELSE Nav_open_url(C, u, {}, step, TRUE)
     /\ UNCHANGED timeouts

\* a_Nav_jump, from the menus of the back and forward buttons
Jump(i) ==
  LET u == At(bw, i)
  IN /\ u # NoUrl /\ i # bw.nav_stack_ptr
     /\ MustLoad(bw, u, {}) \/ ~Waiting \/ IsMishap("same_page")
     /\ bw' = Nav_open_url(a_Nav_cancel_expect(bw), u, {}, i - bw.nav_stack_ptr, TRUE)
     /\ UNCHANGED timeouts

\* a_Nav_reload and a_Nav_repush (the zoom commands, dilloc)
Ask(what) == Timeouts(what) /\ UNCHANGED bw

\* a_UIcmd_stop: the counter of style sheets stays
Stop ==
  /\ bw' = a_Bw_stop_clients(a_Nav_cancel_expect(bw))
  /\ UNCHANGED timeouts

(***************************************************************************)
(* The timeouts, in the order in which they were set.                      *)
(***************************************************************************)
Due(what) ==
  /\ timeouts # <<>> /\ Head(timeouts) = what
  /\ timeouts' = Tail(timeouts)

\* Without a page there is nothing to do but to cancel the expectation.
Again == Size(bw) > 0 \/ ~Waiting \/ IsMishap("edge")

\* Nav_repush and Nav_reload_callback: fetch the current page again
Load(flags) ==
  LET C == a_Nav_cancel_expect(bw)
      E == [C EXCEPT !.expect = [url |-> Top(C), flags |-> flags]]
  IN IF Size(C) = 0 THEN C ELSE Nav_open_url(E, Top(C), flags, 0, TRUE)

RunRepush == Due("repush") /\ Again /\ bw' = Load(FromCache)

RunReload(confirmed) ==
  /\ Due("reload") /\ Again
  /\ confirmed \/ IsMishap("declined")
  /\ bw' = IF confirmed THEN Load(Reload) ELSE a_Nav_cancel_expect(bw)

\* Nav_redirection0_callback: the new page takes the place of the current
Redirection0(W) ==
  IF W.meta_refresh_status = 2
  THEN a_Nav_push(Nav_stack_move_ptr(W, -1), W.meta_refresh_url, {"E2EQuery"}, TRUE)
  ELSE W

RunRedirection0 ==
  /\ Due("redirection0")
  /\ bw' = [Redirection0(bw) EXCEPT !.meta_refresh_url = NoUrl,
                                    !.meta_refresh_status = 0]

(***************************************************************************)
(* The answers for the page.                                               *)
(***************************************************************************)
\* a_Web_dispatch_by_type: the page is shown; a file offered for download
\* ("attachment") is shown empty, and its client let go
Deliver(attachment) ==
  /\ Waiting
  /\ bw' = [a_Nav_expect_done(bw) EXCEPT
              !.root = IF attachment THEN Nowhere ELSE [@ EXCEPT !.st = "parsing"],
              !.redirect_level = 0]
  /\ UNCHANGED timeouts

\* Cache_redirect: the answer is another url, or one redirection too many
Redirect(u, temp, granted) ==
  LET flags == IF temp THEN {"E2EQuery"} ELSE {}
      W == [bw EXCEPT !.root = Nowhere, !.redirect_level = @ + 1]
      looping == W.redirect_level >= MaxRedirects
  IN /\ Waiting
     /\ IF looping THEN IsMishap("loop")
        ELSE /\ HasRoom
             /\ (u # bw.root.url /\ MustLoad(bw, u, flags)) \/ IsMishap("same_page")
     /\ bw' = IF looping THEN [W EXCEPT !.redirect_level = 0]
              ELSE a_Nav_push(W, u, flags, granted)
     /\ UNCHANGED timeouts

(* The connection ends without data, or the type of the answer cannot be   *)
(* shown.  The expectation of the window that owns the connection is       *)
(* cancelled.                                                              *)
Fail(owner) ==
  LET W == [bw EXCEPT !.root = Nowhere]
  IN /\ Waiting
     /\ owner \/ IsMishap("elsewhere")
     /\ bw' = IF owner /\ W.expect.url = bw.root.url THEN a_Nav_cancel_expect(W)
              ELSE W
     /\ UNCHANGED timeouts

\* Cache_entry_remove, on behalf of another window
Lose ==
  /\ bw.root.st # "none" /\ (~Waiting \/ IsMishap("elsewhere"))
  /\ bw' = [bw EXCEPT !.root = Nowhere] /\ UNCHANGED timeouts

\* CA_Close: the whole page has been received
Complete ==
  /\ bw.root.st \in {"parsing", "stopped"}
  /\ bw' = [bw EXCEPT !.root = Nowhere] /\ UNCHANGED timeouts

(***************************************************************************)
(* The head of the page.                                                   *)
(***************************************************************************)
\* Html_tag_open_meta, a zero-delay refresh: a_Nav_redirection0
MetaRefresh(u) ==
  /\ bw.root.st = "parsing" /\ u # bw.root.url
  /\ Timeouts("redirection0")
  /\ bw' = [bw EXCEPT !.root.st = "stopped", !.meta_refresh_url = u,
                      !.meta_refresh_status = 2]

\* Html_update_content_type: the page has to be decoded again
MetaCharset ==
  /\ bw.root.st = "parsing"
  /\ Timeouts("repush")
  /\ bw' = [bw EXCEPT !.root.st = "stopped"]

\* a_Html_load_stylesheet
LoadSheet ==
  /\ bw.root.st = "parsing" /\ bw.NumPendingStyleSheets < MaxSheets
  /\ bw' = [bw EXCEPT !.sheets = @ + 1, !.NumPendingStyleSheets = @ + 1]
  /\ UNCHANGED timeouts

\* Html_css_load_callback: with the last one the page is shown again
SheetArrives ==
  /\ bw.sheets > 0
  /\ bw' = [bw EXCEPT !.sheets = @ - 1, !.NumPendingStyleSheets = @ - 1]
  /\ IF bw.NumPendingStyleSheets = 1 THEN Timeouts("repush")
     ELSE UNCHANGED timeouts

(* The answer is a redirection or "404": Cache_null_client takes the place *)
(* of the callback.  Or there is no answer: a_Bw_remove_client.            *)
SheetMissing ==
  /\ bw.sheets > 0
  /\ bw' = [bw EXCEPT !.sheets = @ - 1] /\ UNCHANGED timeouts

Answer ==
  \/ \E a \in BOOLEAN : Deliver(a)
  \/ \E u \in Urls, t \in BOOLEAN, g \in Grants : Redirect(u, t, g)
  \/ \E owner \in BOOLEAN : Fail(owner)

Next ==
  \/ \E u \in Urls, g \in Grants : OpenLink(u, g)
  \/ \E s \in {-1, 1} : Step(s)
  \/ \E i \in 0 .. Size(bw) - 1 : Jump(i)
  \/ \E w \in {"reload", "repush"} : Ask(w)
  \/ Stop
  \/ RunRepush \/ RunRedirection0
  \/ \E c \in BOOLEAN : RunReload(c)
  \/ Answer \/ Lose \/ Complete
  \/ \E u \in Urls : MetaRefresh(u)
  \/ MetaCharset \/ LoadSheet \/ SheetArrives \/ SheetMissing

Spec == Init /\ [][Next]_vars

(* A request is answered or fails at last.                                 *)
FairSpec == Spec /\ WF_vars(Answer)

(***************************************************************************)
(* Properties.                                                             *)
(***************************************************************************)
(* The fields have their types.                                            *)
TypeOK == bw \in WindowType /\ timeouts \in Seq(Callbacks)

(* The pointer names an item of the stack, or the stack is empty, whatever *)
(* is pushed, redirected, stepped over or cleaned away: every caller of    *)
(* a_Nav_get_uidx relies on it (nav.c:83-182).                             *)
PtrInStack ==
  IF Size(bw) = 0 THEN bw.nav_stack_ptr = -1
  ELSE 0 <= bw.nav_stack_ptr /\ bw.nav_stack_ptr < Size(bw)

(* Back never leads to the page that is shown already: equal neighbours do *)
(* not stay on the stack (Nav_stack_clean).                                *)
NoAdjacentEqual ==
  \A i \in 1 .. Size(bw) - 1 : bw.nav_stack[i] # bw.nav_stack[i + 1]

(* Back and forward always lead to another page of the stack, and reload   *)
(* to the one that is shown.                                               *)
StackSound == PtrInStack /\ NoAdjacentEqual

(* A client that waits is the one the window expects; without expectation  *)
(* it is for the page the stack names (nav.c:193-241).                     *)
PendingIsNamed ==
  Waiting => bw.root.url = IF bw.expect.url # NoUrl THEN bw.expect.url ELSE Top(bw)

(* A page that is shown is the one the stack names, so that reload, back,  *)
(* save and "view source" are about what the user sees.                    *)
DeliveredIsNamed ==
  [][(Waiting /\ bw'.root.st = "parsing") => Top(bw') = bw.root.url]_vars

(* The way back is never rewritten: no handler changes the stack up to the *)
(* current page, wherever it moves the pointer.                            *)
PastKept ==
  [][\A i \in 0 .. bw.nav_stack_ptr : At(bw', i) = At(bw, i)]_vars

(* The page is shown again only when no style sheet is on its way: no      *)
(* client waits for one that is not counted (html.cc:3252).                *)
SheetsCounted == bw.sheets <= bw.NumPendingStyleSheets

(* ChangeLog:568 "Disable form widgets while stylesheets are loading":     *)
(* they are disabled while NumPendingStyleSheets > 0 (html.cc:671).        *)
FormsWaitForSheets == bw.NumPendingStyleSheets > 0 => bw.sheets > 0

(* An expected page arrives, is replaced, or is given up: until then the   *)
(* window does not count as loaded (a_UIcmd_has_finished).                 *)
ExpectationEnds == bw.expect.url # NoUrl ~> bw.expect.url = NoUrl
=============================================================================
