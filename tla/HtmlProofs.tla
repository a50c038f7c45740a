---------------------------- MODULE HtmlProofs ----------------------------
(***************************************************************************)
(* Proofs about the stack of open elements (Html.tla) for pages of any     *)
(* length, with any of the tags, nested in any way.                        *)
(*                                                                         *)
(* The invariant says of the fields of the parser, H:                      *)
(*   Sections, Begun   what html, head and body have to do with one        *)
(*                     another, their flags and their counters             *)
(*   Apart             links and controls, and the flags that need an      *)
(*                     open element                                        *)
(*   Options           where options are, and what they are in             *)
(*   Verbatim          which elements take their text as it is             *)
(* A tag is a composition of operators on H: a section is opened, the      *)
(* stack is cleaned up, the element is pushed, opened, shown and perhaps   *)
(* closed again.  There are lemmas for each, which say what of H is left   *)
(* as it was (Cut, Grown, Kept, Rest, Back).                               *)
(***************************************************************************)
EXTENDS Html, ListProofs

Items == [tag : Tags, display_none : BOOLEAN, verbatim : BOOLEAN]

Flags == {"HTML", "HEAD", "BODY", "FORM", "SELECT", "OPTION", "OPTGROUP",
          "TEXTAREA", "BUTTON", "A", "PRE", "EOF"}

Tag(H, k) == H.stack[k].tag

On(H, t) == \E k \in 1 .. Depth(H) : Tag(H, k) = t

Once(H, t) == \A i, j \in 1 .. Depth(H) : Tag(H, i) = t /\ Tag(H, j) = t => i = j

(* Before there is a body only these elements are on the stack.            *)
Early == {"html", "head", "title", "script"}

(* The sections of the page, their flags and their counters.               *)
Sections(H) ==
  /\ Once(H, "html") /\ Once(H, "head") /\ Once(H, "body")
  /\ In(H, "HEAD") <=> On(H, "head")
  /\ In(H, "HEAD") => H.Num["head"] = 1 /\ ~On(H, "body")
  /\ \A k \in 1 .. Depth(H) :
       \/ Tag(H, k) \in Early
       \/ \E j \in 1 .. k : Tag(H, j) = "body"

(* Until the page ends, what was begun is on the stack.  A title or a script
   needs a head or a body.                                                  *)
Begun(H) ==
  ~In(H, "EOF") =>
    /\ In(H, "BODY") <=> On(H, "body")
    /\ In(H, "HTML") <=> H.Num["html"] > 0
    /\ In(H, "BODY") <=> H.Num["body"] > 0
    /\ H.stack # <<>> => In(H, "HTML")
    /\ On(H, "title") \/ On(H, "script") => In(H, "BODY") \/ H.Num["head"] > 0

(* The links and controls, and the flags that need an element.             *)
Apart(H) ==
  /\ \A c, d \in ControlTags : In(H, Flag[c]) /\ In(H, Flag[d]) => c = d
  /\ Once(H, "a") /\ (On(H, "a") <=> In(H, "A"))
  /\ Once(H, "button") /\ (On(H, "button") <=> In(H, "BUTTON"))
  /\ In(H, "SELECT") => On(H, "select")
  /\ In(H, "TEXTAREA") => On(H, "textarea")
  /\ In(H, "FORM") => On(H, "form")
  /\ In(H, "PRE") => On(H, "pre")

(* Options are at the top only, and an open one is in the current select.  *)
Options(H) ==
  /\ \A k \in 1 .. Depth(H) : Tag(H, k) = "option" => k = Depth(H)
  /\ \A k \in 1 .. Depth(H) : Tag(H, k) = "optgroup" =>
       k = Depth(H) \/ (k + 1 = Depth(H) /\ Tag(H, k + 1) = "option")
  /\ In(H, "OPTION") => On(H, "option") /\ In(H, "SELECT")
  /\ In(H, "OPTGROUP") => On(H, "optgroup") /\ In(H, "SELECT")
  /\ In(H, "SELECT") => Html_get_current_input(H) \in {"select", "options"}
  /\ In(H, "OPTION") \/ In(H, "OPTGROUP") => Html_get_current_input(H) = "options"

(* Only the top may take its text as it is: a script does, and an open text
   area may. *)
Verbatim(H) ==
  /\ \A k \in 1 .. Depth(H) : Tag(H, k) = "script" => H.stack[k].verbatim
  /\ \A k \in 1 .. Depth(H) - 1 : ~H.stack[k].verbatim
  /\ Top(H).verbatim =>
       \/ Top(H).tag = "script"
       \/ /\ Top(H).tag = "textarea" /\ In(H, "TEXTAREA")
          /\ Html_get_current_input(H) = "textarea"

Sound(H) == H \in ParserType /\ Sections(H) /\ Begun(H) /\ Apart(H) /\ Options(H) /\ Verbatim(H)

\* No tag leaves a request to close behind.
IInv ==
  /\ Sound(html) /\ ~html.ReqTagClose /\ Depth(html) <= MaxDepth
  /\ "title" \notin Occurring => ~On(html, "title")
-----------------------------------------------------------------------------
(***************************************************************************)
(* The fields, and the changes of one of them.                             *)
(***************************************************************************)
Kinds == [{"html", "head", "body"} -> 0 .. 2]

LEMMA Fields ==
  ASSUME NEW H \in ParserType
  PROVE  /\ H.stack \in Seq(Items) /\ H.InFlags \in SUBSET Flags /\ H.Num \in Kinds
         /\ H.ReqTagClose \in BOOLEAN /\ H.html5 \in BOOLEAN
         /\ H.form \in Inputs /\ H.outside \in Inputs
         /\ Depth(H) \in Nat /\ Depth(H) = Len(H.stack)
         /\ \A k \in 1 .. Depth(H) : H.stack[k] \in Items /\ Tag(H, k) \in Tags
<1>1. /\ H.stack \in Seq(Items) /\ H.InFlags \in SUBSET Flags /\ H.Num \in Kinds
      /\ H.ReqTagClose \in BOOLEAN /\ H.html5 \in BOOLEAN
      /\ H.form \in Inputs /\ H.outside \in Inputs
  BY DEF ParserType, Items, Flags, Kinds
<1>2. Depth(H) \in Nat /\ Depth(H) = Len(H.stack)
  BY <1>1 DEF Depth
<1>3. \A k \in 1 .. Depth(H) : H.stack[k] \in Items
  BY <1>1, <1>2
<1>4. \A k \in 1 .. Depth(H) : Tag(H, k) \in Tags
  BY <1>3 DEF Items, Tag
<1> QED BY <1>1, <1>2, <1>3, <1>4

(* R is H with other flags, counters and inputs, the stack is the same.    *)
Kept(H, R) ==
  /\ R \in ParserType /\ R.stack = H.stack /\ Depth(R) = Depth(H)
  /\ R.html5 = H.html5

(* Only the stack and the flags differ.                                     *)
Rest(H, R) ==
  /\ R.Num = H.Num /\ R.ReqTagClose = H.ReqTagClose
  /\ R.form = H.form /\ R.outside = H.outside

LEMMA LowerFacts ==
  ASSUME NEW H \in ParserType, NEW fs
  PROVE  /\ Kept(H, Lower(H, fs)) /\ Rest(H, Lower(H, fs))
         /\ Lower(H, fs).InFlags = H.InFlags \ fs
BY DEF ParserType, Lower, Kept, Rest, Depth

LEMMA RaiseFacts ==
  ASSUME NEW H \in ParserType, NEW f \in Flags
  PROVE  /\ Kept(H, Raise(H, f)) /\ Rest(H, Raise(H, f))
         /\ Raise(H, f).InFlags = H.InFlags \cup {f}
BY DEF ParserType, Raise, Kept, Rest, Depth, Flags

(* What the close function of an element lowers.                           *)
Lowered(H, t) ==
  IF t = "head" THEN {"HEAD"}
  ELSE IF t = "form" THEN {"FORM", "SELECT", "OPTION", "TEXTAREA"}
  ELSE IF t = "select" THEN IF In(H, "SELECT") THEN {"SELECT", "OPTION"} ELSE {}
  ELSE IF t = "optgroup" THEN IF In(H, "OPTGROUP") THEN {"OPTGROUP", "OPTION"} ELSE {}
  ELSE IF t = "option" THEN {"OPTION"}
  ELSE IF t = "button" THEN {"BUTTON"}
  ELSE IF t = "textarea" THEN {"TEXTAREA"}
  ELSE IF t = "a" THEN {"A"}
  ELSE IF t = "pre" THEN {"PRE"}
  ELSE {}

LEMMA CloseFacts ==
  ASSUME NEW H \in ParserType, NEW t, In(H, "HEAD") /\ t = "head" => H.Num["head"] = 1
  PROVE  /\ Kept(H, Close(H, t)) /\ Rest(H, Close(H, t))
         /\ Close(H, t).InFlags = H.InFlags \ Lowered(H, t)
<1> DEFINE C == Close(H, t)
<1>0. Kept(H, H) /\ Rest(H, H)
  BY Fields DEF Kept, Rest
<1>1. CASE t = "head"
  <2>1. C = Html_tag_close_head(H) /\ Lowered(H, t) = {"HEAD"}
    BY <1>1 DEF Close, Lowered
  <2>2. CASE In(H, "HEAD")
    <3>1. C = Lower(H, {"HEAD"})
      BY <1>1, <2>1, <2>2 DEF Html_tag_close_head
    <3>2. Kept(H, C) /\ Rest(H, C) /\ C.InFlags = H.InFlags \ {"HEAD"}
      BY <3>1, LowerFacts
    <3> QED BY <3>2, <2>1
  <2>3. CASE ~In(H, "HEAD")
    <3>1. C = H
      BY <2>1, <2>3 DEF Html_tag_close_head
    <3> QED BY <3>1, <2>1, <2>3, <1>0 DEF In
  <2> QED BY <2>2, <2>3
<1>2. CASE t = "form"
  <2>1. C = Lower(H, {"FORM", "SELECT", "OPTION", "TEXTAREA"})
        /\ Lowered(H, t) = {"FORM", "SELECT", "OPTION", "TEXTAREA"}
    BY <1>2 DEF Close, Lowered, Html_tag_close_form
  <2> QED BY <2>1, LowerFacts
<1>3. CASE t = "select"
  <2>1. /\ C = IF In(H, "SELECT") THEN Lower(H, {"SELECT", "OPTION"}) ELSE H
        /\ Lowered(H, t) = IF In(H, "SELECT") THEN {"SELECT", "OPTION"} ELSE {}
    BY <1>3 DEF Close, Lowered, Html_tag_close_select
  <2> QED BY <2>1, <1>0, LowerFacts
<1>4. CASE t = "optgroup"
  <2>1. /\ C = IF In(H, "OPTGROUP") THEN Lower(H, {"OPTGROUP", "OPTION"}) ELSE H
        /\ Lowered(H, t) = IF In(H, "OPTGROUP") THEN {"OPTGROUP", "OPTION"} ELSE {}
    BY <1>4 DEF Close, Lowered, Html_tag_close_optgroup
  <2> QED BY <2>1, <1>0, LowerFacts
<1>5. CASE t \in {"option", "button", "textarea", "a", "pre"}
  <2>1. C = Lower(H, Lowered(H, t))
    BY <1>5 DEF Close, Lowered
  <2> QED BY <2>1, LowerFacts
<1>6. CASE t \notin {"head", "form", "select", "optgroup", "option", "button",
                     "textarea", "a", "pre"}
  <2>1. C = H /\ Lowered(H, t) = {}
    BY <1>6 DEF Close, Lowered
  <2> QED BY <2>1, <1>0
<1> QED BY <1>1, <1>2, <1>3, <1>4, <1>5, <1>6

(* The top is gone and its close function has run.                         *)
Popped(H, R) ==
  /\ R \in ParserType /\ Depth(R) = Depth(H) - 1
  /\ \A k \in 1 .. Depth(R) : R.stack[k] = H.stack[k] /\ Tag(R, k) = Tag(H, k)
  /\ R.InFlags = H.InFlags \ Lowered(H, Tag(H, Depth(H)))
  /\ Rest(H, R) /\ R.html5 = H.html5

LEMMA PopFacts ==
  ASSUME NEW H \in ParserType, Depth(H) > 0,
         In(H, "HEAD") /\ Tag(H, Depth(H)) = "head" => H.Num["head"] = 1
  PROVE  Popped(H, Pop(H))
<1> DEFINE C == Close(H, Tag(H, Depth(H)))
           s == SubSeq(C.stack, 1, Len(C.stack) - 1)
<1>1. H.stack # <<>> /\ Top(H).tag = Tag(H, Depth(H))
  BY Fields DEF Top, Last, Tag, Depth
<1>2. Pop(H) = [C EXCEPT !.stack = s]
  BY <1>1 DEF Pop, Front
<1>3. /\ Kept(H, C) /\ Rest(H, C)
      /\ C.InFlags = H.InFlags \ Lowered(H, Tag(H, Depth(H)))
  BY CloseFacts
<1> HIDE DEF C
<1>4. /\ s \in Seq(Items) /\ Len(s) = Depth(H) - 1
      /\ \A k \in 1 .. Len(s) : s[k] = H.stack[k]
  BY <1>3, Fields DEF Kept
<1> HIDE DEF s
<1>5. /\ Pop(H) \in ParserType /\ Pop(H).stack = s /\ Pop(H).InFlags = C.InFlags
      /\ Rest(C, Pop(H)) /\ Pop(H).html5 = C.html5
  BY <1>2, <1>3, <1>4 DEF Kept, ParserType, Rest, Items
<1>6. Depth(Pop(H)) = Depth(H) - 1
  BY <1>4, <1>5 DEF Depth
<1> QED BY <1>3, <1>4, <1>5, <1>6 DEF Popped, Rest, Kept, Tag

-----------------------------------------------------------------------------
(***************************************************************************)
(* One pop.                                                                *)
(***************************************************************************)
\* The top may go: the body only does at the end of the page.
Poppable(H) ==
  /\ H \in ParserType /\ Depth(H) > 0
  /\ In(H, "EOF") \/ Tag(H, Depth(H)) # "body"

LEMMA PopOn ==
  ASSUME NEW H \in ParserType, Depth(H) > 0, NEW R, Popped(H, R), NEW u
  PROVE  /\ On(R, u) => On(H, u)
         /\ On(H, u) /\ u # Tag(H, Depth(H)) => On(R, u)
         /\ Once(H, u) => Once(R, u)
         /\ Once(H, u) /\ u = Tag(H, Depth(H)) => ~On(R, u)
<1>1. /\ Depth(H) \in Nat /\ Depth(R) = Depth(H) - 1
      /\ \A k \in 1 .. Depth(R) : Tag(R, k) = Tag(H, k) /\ k \in 1 .. Depth(H)
  BY Fields DEF Popped
<1> QED BY <1>1 DEF On, Once

LEMMA PopSections ==
  ASSUME NEW H, Poppable(H), NEW R, Popped(H, R), Sections(H)
  PROVE  Sections(R)
<1>0. H \in ParserType /\ Depth(H) \in Nat /\ Depth(H) > 0
  BY Fields DEF Poppable
<1>1. \A u \in {"html", "head", "body"} : Once(R, u)
  BY <1>0, PopOn DEF Sections
<1>2. In(R, "HEAD") <=> In(H, "HEAD") /\ Tag(H, Depth(H)) # "head"
  BY DEF Popped, Lowered, In
<1>3. On(R, "head") <=> On(H, "head") /\ Tag(H, Depth(H)) # "head"
  BY <1>0, PopOn DEF Sections
<1>4. On(R, "body") => On(H, "body")
  BY <1>0, PopOn
<1>5. R.Num = H.Num
  BY DEF Popped, Rest
<1>6. ASSUME NEW k \in 1 .. Depth(R)
      PROVE  Tag(R, k) \in Early \/ \E j \in 1 .. k : Tag(R, j) = "body"
  <2>1. k \in 1 .. Depth(H) /\ \A j \in 1 .. k : j \in 1 .. Depth(R) /\ Tag(R, j) = Tag(H, j)
    BY <1>0 DEF Popped
  <2>2. Tag(H, k) \in Early \/ \E j \in 1 .. k : Tag(H, j) = "body"
    BY <2>1 DEF Sections
  <2> QED BY <2>1, <2>2
<1> QED BY <1>1, <1>2, <1>3, <1>4, <1>5, <1>6 DEF Sections

LEMMA PopBegun ==
  ASSUME NEW H, Poppable(H), NEW R, Popped(H, R), Begun(H)
  PROVE  Begun(R)
<1>0. H \in ParserType /\ Depth(H) \in Nat /\ Depth(H) > 0
  BY Fields DEF Poppable
<1> SUFFICES ASSUME ~In(R, "EOF") PROVE Begun(R)
  BY DEF Begun
<1>1. \A f \in {"EOF", "BODY", "HTML"} : In(R, f) <=> In(H, f)
  BY DEF Popped, Lowered, In
<1>2. Tag(H, Depth(H)) # "body"
  BY <1>1 DEF Poppable
<1>3. On(R, "body") <=> On(H, "body")
  BY <1>0, <1>2, PopOn
<1>4. (On(R, "title") => On(H, "title")) /\ (On(R, "script") => On(H, "script"))
  BY <1>0, PopOn
<1>5. R.Num = H.Num
  BY DEF Popped, Rest
<1>6. H.stack # <<>>
  BY <1>0 DEF Depth
<1> QED BY <1>1, <1>3, <1>4, <1>5, <1>6 DEF Begun

LEMMA PopApart ==
  ASSUME NEW H, Poppable(H), NEW R, Popped(H, R), Apart(H)
  PROVE  Apart(R)
<1>0. H \in ParserType /\ Depth(H) > 0
  BY DEF Poppable
<1> DEFINE t == Tag(H, Depth(H))
<1>1. \A f : In(R, f) => In(H, f)
  BY DEF Popped, In
<1>2. \A c, d \in ControlTags : In(R, Flag[c]) /\ In(R, Flag[d]) => c = d
  BY <1>1 DEF Apart
<1>3. Once(R, "a") /\ (On(R, "a") <=> On(H, "a") /\ t # "a")
  BY <1>0, PopOn DEF Apart
<1>4. Once(R, "button") /\ (On(R, "button") <=> On(H, "button") /\ t # "button")
  BY <1>0, PopOn DEF Apart
<1>5. (In(R, "A") <=> In(H, "A") /\ t # "a") /\ (In(R, "BUTTON") <=> In(H, "BUTTON") /\ t # "button")
  BY DEF Popped, Lowered, In
<1>6. /\ In(R, "SELECT") => In(H, "SELECT") /\ t # "select"
      /\ In(R, "TEXTAREA") => In(H, "TEXTAREA") /\ t # "textarea"
      /\ In(R, "FORM") => In(H, "FORM") /\ t # "form"
      /\ In(R, "PRE") => In(H, "PRE") /\ t # "pre"
  BY DEF Popped, Lowered, In
<1>7. \A u \in {"select", "textarea", "form", "pre"} : On(H, u) /\ u # t => On(R, u)
  BY <1>0, PopOn
<1> QED BY <1>2, <1>3, <1>4, <1>5, <1>6, <1>7 DEF Apart

LEMMA PopOptions ==
  ASSUME NEW H, Poppable(H), NEW R, Popped(H, R), Options(H)
  PROVE  Options(R)
<1>0. H \in ParserType /\ Depth(H) \in Nat /\ Depth(H) > 0 /\ Depth(R) = Depth(H) - 1
  BY Fields DEF Poppable, Popped
<1> DEFINE t == Tag(H, Depth(H))
<1>1. \A k \in 1 .. Depth(R) : k \in 1 .. Depth(H) /\ k # Depth(H) /\ Tag(R, k) = Tag(H, k)
  BY <1>0 DEF Popped
<1>2. \A k \in 1 .. Depth(R) : Tag(R, k) # "option"
  BY <1>1 DEF Options
<1>3. \A k \in 1 .. Depth(R) : Tag(R, k) = "optgroup" => k = Depth(R) /\ t = "option"
  BY <1>0, <1>1 DEF Options
<1>4. In(H, "OPTION") => t = "option"
  BY DEF Options, On
<1>5. In(H, "OPTGROUP") => t \in {"option", "optgroup"}
  BY DEF Options, On
<1>6. ~In(R, "OPTION")
  BY <1>4 DEF Popped, Lowered, In
<1>7. In(R, "OPTGROUP") => In(H, "OPTGROUP") /\ t = "option" /\ In(R, "SELECT")
  BY <1>5 DEF Popped, Lowered, In, Options
<1>8. In(R, "OPTGROUP") => On(R, "optgroup")
  <2>1. t = "option" /\ On(H, "optgroup") => On(R, "optgroup")
    BY <1>0, PopOn
  <2> QED BY <2>1, <1>7 DEF Options
<1>9. In(R, "SELECT") => In(H, "SELECT") /\ Html_get_current_input(R) = Html_get_current_input(H)
  BY DEF Popped, Lowered, In, Html_get_current_input, Rest
<1> QED BY <1>2, <1>3, <1>6, <1>7, <1>8, <1>9 DEF Options

LEMMA TopIs ==
  ASSUME NEW H \in ParserType, Depth(H) > 0
  PROVE  Top(H) = H.stack[Depth(H)] /\ Top(H).tag = Tag(H, Depth(H))
BY Fields DEF Top, Last, Tag, Depth

LEMMA NoTop ==
  ASSUME NEW H \in ParserType, Depth(H) = 0
  PROVE  /\ H.stack = <<>> /\ Top(H).tag = "none" /\ ~Top(H).verbatim
         /\ \A u : ~On(H, u)
<1>1. H.stack = <<>>
  BY Fields DEF Depth
<1> QED BY <1>1 DEF Top, On

LEMMA PopVerbatim ==
  ASSUME NEW H, Poppable(H), NEW R, Popped(H, R), Verbatim(H)
  PROVE  Verbatim(R) /\ ~Top(R).verbatim
<1>0. H \in ParserType /\ Depth(H) \in Nat /\ Depth(H) > 0 /\ Depth(R) = Depth(H) - 1 /\ R \in ParserType
  BY Fields DEF Poppable, Popped
<1>1. \A k \in 1 .. Depth(R) : k \in 1 .. Depth(H) - 1 /\ ~R.stack[k].verbatim
  BY <1>0 DEF Popped, Verbatim
<1>2. ~Top(R).verbatim
  <2>1. CASE Depth(R) = 0
    BY <2>1, <1>0, NoTop
  <2>2. CASE Depth(R) > 0
    <3>1. Depth(R) \in 1 .. Depth(R)
      BY <1>0, <2>2
    <3> QED BY <3>1, <2>2, <1>0, <1>1, TopIs
  <2> QED BY <1>0, <2>1, <2>2
<1>3. \A k \in 1 .. Depth(R) : Tag(R, k) = Tag(H, k) /\ R.stack[k] = H.stack[k]
  BY DEF Popped
<1>4. \A k \in 1 .. Depth(R) : Tag(R, k) = "script" => R.stack[k].verbatim
  <2> SUFFICES ASSUME NEW k \in 1 .. Depth(R), Tag(R, k) = "script"
               PROVE  R.stack[k].verbatim
    OBVIOUS
  <2>1. k \in 1 .. Depth(H) /\ Tag(H, k) = "script"
    BY <1>0, <1>3
  <2> QED BY <2>1, <1>3 DEF Verbatim
<1>5. \A k \in 1 .. Depth(R) - 1 : k \in 1 .. Depth(R)
  BY <1>0
<1> QED BY <1>1, <1>2, <1>4, <1>5 DEF Verbatim

LEMMA PopSound ==
  ASSUME NEW H, Poppable(H), Sound(H)
  PROVE  Sound(Pop(H)) /\ Popped(H, Pop(H)) /\ ~Top(Pop(H)).verbatim
<1>1. Popped(H, Pop(H))
  BY PopFacts DEF Poppable, Sound, Sections
<1> QED BY <1>1, PopSections, PopBegun, PopApart, PopOptions, PopVerbatim DEF Sound, Popped

-----------------------------------------------------------------------------
(***************************************************************************)
(* Cleaning up: R is H less some of the elements at the top.               *)
(***************************************************************************)
Cut(H, R) ==
  /\ R \in ParserType /\ Depth(R) <= Depth(H)
  /\ \A k \in 1 .. Depth(R) : R.stack[k] = H.stack[k] /\ Tag(R, k) = Tag(H, k)
  /\ R.InFlags \subseteq H.InFlags
  /\ \A f \in {"EOF", "HTML", "BODY"} : In(R, f) <=> In(H, f)
  /\ Rest(H, R) /\ R.html5 = H.html5
  /\ \A k \in Depth(R) + 1 .. Depth(H) :
       Tag(H, k) \in ControlTags => ~In(R, Flag[Tag(H, k)])

LEMMA Control ==
  /\ ControlTags = {"a", "button", "select", "textarea"}
  /\ \A n \in 1 .. 4 : Controls[n] \in ControlTags
  /\ \A c \in ControlTags : \E n \in 1 .. 4 : Controls[n] = c
<1>1. DOMAIN Controls = 1 .. 4 /\ Controls[1] = "a" /\ Controls[2] = "button"
      /\ Controls[3] = "select" /\ Controls[4] = "textarea"
  BY DEF Controls
<1>2. \A n \in 1 .. 4 : n = 1 \/ n = 2 \/ n = 3 \/ n = 4
  OBVIOUS
<1>3. ControlTags = {Controls[n] : n \in 1 .. 4}
  BY <1>1 DEF ControlTags, Range
<1>4. ControlTags = {"a", "button", "select", "textarea"}
  BY <1>1, <1>2, <1>3
<1> QED BY <1>1, <1>3, <1>4

LEMMA CutSelf ==
  ASSUME NEW H \in ParserType
  PROVE  Cut(H, H)
BY Fields DEF Cut, Rest

LEMMA CutPop ==
  ASSUME NEW H \in ParserType, NEW X, Cut(H, X), Depth(X) > 0, NEW R, Popped(X, R)
  PROVE  Cut(H, R)
<1> DEFINE t == Tag(X, Depth(X))
<1>1. /\ Depth(H) \in Nat /\ Depth(X) \in Nat /\ X \in ParserType /\ R \in ParserType
      /\ Depth(X) <= Depth(H) /\ Depth(R) = Depth(X) - 1
  BY Fields DEF Cut, Popped
<1>2. \A k \in 1 .. Depth(R) : R.stack[k] = H.stack[k] /\ Tag(R, k) = Tag(H, k)
  BY <1>1 DEF Cut, Popped
<1>3. R.InFlags \subseteq X.InFlags /\ X.InFlags \subseteq H.InFlags
  BY DEF Cut, Popped
<1>4. \A f \in {"EOF", "HTML", "BODY"} : In(R, f) <=> In(X, f)
  BY DEF Popped, Lowered, In
<1>5. t = Tag(H, Depth(X))
  BY <1>1 DEF Cut
<1>6. t \in ControlTags => ~In(R, Flag[t])
  BY Control DEF Popped, Lowered, In, Flag
<1>7. ASSUME NEW k \in Depth(R) + 1 .. Depth(H), Tag(H, k) \in ControlTags
      PROVE  ~In(R, Flag[Tag(H, k)])
  <2>1. CASE k = Depth(X)
    BY <2>1, <1>5, <1>6, <1>7
  <2>2. CASE k # Depth(X)
    <3>1. k \in Depth(X) + 1 .. Depth(H)
      BY <1>1, <2>2
    <3> QED BY <3>1, <1>3, <1>7 DEF Cut, In
  <2> QED BY <2>1, <2>2
<1> QED BY <1>1, <1>2, <1>3, <1>4, <1>7 DEF Cut, Popped, Rest

\* The states that can be popped from, and what they may be after n pops.
Regular == {X \in ParserType : In(X, "HEAD") => X.Num["head"] > 0}

\* A second head in the first one goes: the first one stays.
HeadInHead(H) ==
  /\ H \in ParserType /\ Depth(H) > 0 /\ Tag(H, Depth(H)) = "head"
  /\ In(H, "HEAD") /\ H.Num["head"] = 2

LEMMA PopHead ==
  ASSUME NEW H, HeadInHead(H)
  PROVE  LET R == Pop(H)
         IN /\ R \in ParserType /\ Depth(R) = Depth(H) - 1
            /\ \A k \in 1 .. Depth(R) : R.stack[k] = H.stack[k] /\ Tag(R, k) = Tag(H, k)
            /\ R.InFlags = H.InFlags /\ R.html5 = H.html5
            /\ R.form = H.form /\ R.outside = H.outside
            /\ R.ReqTagClose = H.ReqTagClose
            /\ R.Num = [H.Num EXCEPT !["head"] = 1]
<1> DEFINE C == Close(H, "head")
           s == SubSeq(H.stack, 1, Len(H.stack) - 1)
<1>0. /\ H \in ParserType /\ H.stack \in Seq(Items) /\ Depth(H) = Len(H.stack)
      /\ Depth(H) \in Nat /\ Depth(H) > 0 /\ H.Num \in Kinds
  BY Fields DEF HeadInHead
<1>1. Top(H).tag = "head"
  BY <1>0 DEF Top, Last, Tag, Depth, HeadInHead
<1>2. C = [H EXCEPT !.Num["head"] = 1]
  BY <1>0 DEF HeadInHead, Close, Html_tag_close_head, Kinds
<1>3. Pop(H) = [C EXCEPT !.stack = SubSeq(C.stack, 1, Len(C.stack) - 1)]
  BY <1>1 DEF Pop, Front
<1> HIDE DEF C
<1>4. /\ C \in ParserType /\ C.stack = H.stack /\ C.InFlags = H.InFlags
      /\ C.html5 = H.html5 /\ C.form = H.form /\ C.outside = H.outside
      /\ C.ReqTagClose = H.ReqTagClose /\ C.Num = [H.Num EXCEPT !["head"] = 1]
  BY <1>0, <1>2 DEF ParserType
<1>5. /\ s \in Seq(Items) /\ Len(s) = Depth(H) - 1
      /\ \A k \in 1 .. Len(s) : s[k] = H.stack[k]
  BY <1>0
<1>6. Pop(H) = [C EXCEPT !.stack = s]
  BY <1>3, <1>4
<1> HIDE DEF s
<1>7. /\ Pop(H) \in ParserType /\ Pop(H).stack = s /\ Pop(H).InFlags = C.InFlags
      /\ Rest(C, Pop(H)) /\ Pop(H).html5 = C.html5
  BY <1>6, <1>4, <1>5 DEF ParserType, Rest, Items
<1>8. Depth(Pop(H)) = Depth(H) - 1
  BY <1>5, <1>7 DEF Depth
<1> QED BY <1>4, <1>5, <1>7, <1>8 DEF Rest, Tag

LEMMA PopRegular ==
  ASSUME NEW X \in Regular
  PROVE  Pop(X) \in Regular
<1>0. X \in ParserType /\ (In(X, "HEAD") => X.Num["head"] > 0) /\ Depth(X) \in Nat
  BY Fields DEF Regular
<1>1. CASE Depth(X) > 0 /\ Tag(X, Depth(X)) # "head"
  <2>1. Popped(X, Pop(X))
    BY <1>0, <1>1, PopFacts
  <2> QED BY <2>1, <1>0 DEF Popped, Rest, In, Regular
<1>2. CASE Depth(X) > 0 /\ Tag(X, Depth(X)) = "head"
  <2>1. CASE In(X, "HEAD") /\ X.Num["head"] # 1
    <3>1. X.Num["head"] = 2
      BY <2>1, <1>0, Fields DEF Kinds
    <3>2. HeadInHead(X)
      BY <3>1, <2>1, <1>2, <1>0 DEF HeadInHead
    <3>3. Pop(X) \in ParserType /\ Pop(X).Num = [X.Num EXCEPT !["head"] = 1]
      BY <3>2, PopHead
    <3>4. Pop(X).Num["head"] = 1
      BY <3>3, <1>0, Fields DEF Kinds
    <3>5. Pop(X) \in ParserType
      BY <3>3
    <3> QED BY <3>4, <3>5 DEF Regular
  <2>2. CASE ~(In(X, "HEAD") /\ X.Num["head"] # 1)
    <3>1. Popped(X, Pop(X))
      BY <1>0, <1>2, <2>2, PopFacts
    <3> QED BY <3>1, <1>0 DEF Popped, Rest, In, Regular
  <2> QED BY <2>1, <2>2
<1>3. CASE Depth(X) = 0
  <2>1. X.stack = <<>> /\ Top(X).tag = "none"
    BY <1>0, <1>3, NoTop
  <2>2. Close(X, "none") = X
    BY DEF Close
  <2>3. Front(<<>>) = <<>>
    BY DEF Front
  <2>4. Pop(X) = [X EXCEPT !.stack = <<>>]
    BY <2>1, <2>2, <2>3 DEF Pop
  <2>5. [X EXCEPT !.stack = <<>>] = X
    BY <2>1, <1>0 DEF ParserType
  <2> QED BY <2>4, <2>5
<1> QED BY <1>0, <1>1, <1>2, <1>3

\* The elements are popped one by one.
Pops(g, H) ==
  /\ g[0] = H
  /\ \A n \in Nat : g[n + 1] = Pop(g[n])

LEMMA PopToDef ==
  ASSUME NEW H \in Regular, NEW k
  PROVE  \E g : Pops(g, H) /\ PopTo(H, k) = IF k > Depth(H) THEN H ELSE g[Depth(H) + 1 - k]
<1> DEFINE step == [x \in Nat \X Regular |-> Pop(x[2])]
           g == CHOOSE f : f = [n \in Nat |-> IF n = 0 THEN H ELSE Pop(f[n - 1])]
<1>1. step \in [Nat \X Regular -> Regular]
  BY PopRegular
<1>2. PICK r : Recursion(r, Regular, H, step)
  <2> HIDE DEF step
  <2> QED BY <1>1, RecNat
<1>3. r = [n \in Nat |-> IF n = 0 THEN H ELSE Pop(r[n - 1])]
  <2>1. r = [n \in Nat |-> r[n]] /\ r[0] = H
    BY <1>2 DEF Recursion
  <2>2. ASSUME NEW n \in Nat, n # 0 PROVE r[n] = Pop(r[n - 1])
    <3>1. n - 1 \in Nat /\ (n - 1) + 1 = n
      BY <2>2
    <3>2. r[n] = step[<<n - 1, r[n - 1]>>] /\ r[n - 1] \in Regular
      BY <1>2, <3>1 DEF Recursion
    <3> QED BY <3>1, <3>2
  <2> QED BY <2>1, <2>2
<1>4. g = [n \in Nat |-> IF n = 0 THEN H ELSE Pop(g[n - 1])]
  BY <1>3
<1>5. PopTo(H, k) = IF k > Depth(H) THEN H ELSE g[Depth(H) + 1 - k]
  BY DEF PopTo
<1> HIDE DEF g
<1>6. g[0] = H
  BY <1>4
<1>7. ASSUME NEW n \in Nat PROVE g[n + 1] = Pop(g[n])
  <2>1. n + 1 \in Nat /\ n + 1 # 0 /\ (n + 1) - 1 = n
    OBVIOUS
  <2> QED BY <2>1, <1>4
<1> QED BY <1>5, <1>6, <1>7 DEF Pops

\* H less the elements from k on.
CutAt(H, k, R) ==
  /\ Sound(R) /\ Cut(H, R) /\ Depth(R) = k - 1
  /\ k <= Depth(H) => ~Top(R).verbatim
  /\ k > Depth(H) => R = H

LEMMA PopToCuts ==
  ASSUME NEW H, Sound(H), NEW k \in 1 .. Depth(H) + 1,
         \A j \in k .. Depth(H) : In(H, "EOF") \/ Tag(H, j) # "body"
  PROVE  CutAt(H, k, PopTo(H, k))
<1>0. H \in ParserType /\ H \in Regular /\ Depth(H) \in Nat
  BY Fields DEF Sound, Sections, Regular
<1>1. PICK g : Pops(g, H) /\ PopTo(H, k) = IF k > Depth(H) THEN H ELSE g[Depth(H) + 1 - k]
  BY <1>0, PopToDef
<1> DEFINE n == Depth(H) + 1 - k
           good == {m \in 0 .. n : CutAt(H, Depth(H) + 1 - m, g[m])}
<1>2. n \in Nat
  BY <1>0
<1>3. 0 \in good
  <2>1. g[0] = H /\ Depth(H) + 1 - 0 = Depth(H) + 1
    BY <1>0, <1>1 DEF Pops
  <2>2. CutAt(H, Depth(H) + 1, H)
    BY <1>0, CutSelf DEF CutAt
  <2> QED BY <2>1, <2>2, <1>2
<1>4. ASSUME NEW m \in 0 .. n - 1, m \in good PROVE m + 1 \in good
  <2> DEFINE X == g[m]
  <2>1. g[m + 1] = Pop(X) /\ m \in Nat /\ m + 1 \in 0 .. n
    BY <1>1, <1>2 DEF Pops
  <2>2. CutAt(H, Depth(H) + 1 - m, X)
    BY <1>4
  <2> HIDE DEF X
  <2>3. Sound(X) /\ Cut(H, X) /\ Depth(X) = Depth(H) - m /\ X \in ParserType
    BY <2>2, <2>1, <1>0 DEF CutAt, Sound
  <2>4. Depth(X) \in k .. Depth(H) /\ Depth(X) \in 1 .. Depth(X)
    BY <2>3, <1>0, <2>1
  <2>5. In(X, "EOF") \/ Tag(X, Depth(X)) # "body"
    BY <2>3, <2>4 DEF Cut
  <2>6. Poppable(X)
    BY <2>3, <2>4, <2>5 DEF Poppable
  <2>7. Sound(Pop(X)) /\ Popped(X, Pop(X)) /\ ~Top(Pop(X)).verbatim
    BY <2>3, <2>6, PopSound
  <2>8. Cut(H, Pop(X)) /\ Depth(Pop(X)) = (Depth(H) + 1 - (m + 1)) - 1
    <3>1. Depth(X) > 0
      BY <2>4
    <3>2. Cut(H, Pop(X))
      BY <2>3, <2>7, <3>1, <1>0, CutPop
    <3>3. Depth(Pop(X)) = Depth(X) - 1
      BY <2>7 DEF Popped
    <3> QED BY <2>3, <3>2, <3>3, <1>0, <2>1
  <2>9. Depth(H) + 1 - (m + 1) <= Depth(H)
    BY <1>0, <2>1
  <2>10. CutAt(H, Depth(H) + 1 - (m + 1), Pop(X))
    BY <2>7, <2>8, <2>9, <1>0, <2>1 DEF CutAt
  <2> QED BY <2>1, <2>10
<1>5. n \in good
  <2> HIDE DEF good, n
  <2>1. \A m \in 0 .. n : m \in good
    BY <1>2, <1>3, <1>4, IntervalInd
  <2> QED BY <2>1, <1>2
<1>6. CutAt(H, Depth(H) + 1 - n, g[n]) /\ Depth(H) + 1 - n = k
  BY <1>5, <1>0
<1>7. CASE k > Depth(H)
  <2>1. n = 0 /\ PopTo(H, k) = H /\ g[0] = H
    BY <1>7, <1>1, <1>0 DEF Pops
  <2> QED BY <2>1, <1>6
<1>8. CASE ~(k > Depth(H))
  BY <1>8, <1>1, <1>6
<1> QED BY <1>7, <1>8

(* Down to k, or to the body.                                              *)
CutTo(H, k, R) ==
  /\ Sound(R) /\ Cut(H, R) /\ k <= Depth(R) + 1
  /\ Depth(R) < Depth(H) => ~Top(R).verbatim
  /\ Depth(R) = Depth(H) => R = H
  /\ k <= Depth(R) => Tag(H, Depth(R)) = "body" /\ ~In(H, "EOF")

LEMMA CleanupCuts ==
  ASSUME NEW H, Sound(H), ~H.ReqTagClose, NEW k \in 1 .. Depth(H) + 1
  PROVE  CutTo(H, k, Html_tag_cleanup_to_idx(H, k))
<1> DEFINE held == {j \in k .. Depth(H) : /\ H.stack[j].tag = "body"
                                          /\ ~In(H, "EOF") /\ ~H.ReqTagClose}
           stays == {k} \cup {j + 1 : j \in held}
           R == PopTo(H, Max(stays))
<1>0. H \in ParserType /\ Depth(H) \in Nat
  BY Fields DEF Sound
<1>1. stays \in SUBSET (1 .. Depth(H) + 1) /\ stays # {} /\ Depth(H) + 1 \in Nat
  BY <1>0
<1>2. Max(stays) \in stays /\ \A i \in stays : i <= Max(stays)
  <2> HIDE DEF stays
  <2> QED BY <1>1, MaxPicks
<1>3. PICK m : m = Max(stays)
  OBVIOUS
<1>4. m \in 1 .. Depth(H) + 1 /\ k <= m
  BY <1>1, <1>2, <1>3
<1>5. \A j \in m .. Depth(H) : In(H, "EOF") \/ Tag(H, j) # "body"
  <2> SUFFICES ASSUME NEW j \in m .. Depth(H), ~In(H, "EOF"), Tag(H, j) = "body"
               PROVE  FALSE
    OBVIOUS
  <2>1. j \in held
    BY <1>4 DEF Tag
  <2>2. j + 1 <= m
    BY <2>1, <1>2, <1>3
  <2> QED BY <2>2, <1>4, <1>0
<1>6. m = k \/ (m - 1 \in 1 .. Depth(H) /\ Tag(H, m - 1) = "body" /\ ~In(H, "EOF"))
  BY <1>2, <1>3, <1>0 DEF Tag
<1>7. Html_tag_cleanup_to_idx(H, k) = PopTo(H, m)
  BY <1>3 DEF Html_tag_cleanup_to_idx
<1> HIDE DEF held, stays, R
<1>8. CutAt(H, m, PopTo(H, m))
  BY <1>4, <1>5, PopToCuts
<1> DEFINE P == PopTo(H, m)
<1>9. /\ Sound(P) /\ Cut(H, P) /\ Depth(P) = m - 1
      /\ Depth(P) < Depth(H) => ~Top(P).verbatim
      /\ Depth(P) = Depth(H) => P = H
  BY <1>8, <1>4, <1>0 DEF CutAt
<1>10. k <= Depth(P) => Tag(H, Depth(P)) = "body" /\ ~In(H, "EOF")
  BY <1>9, <1>6, <1>4, <1>0
<1> HIDE DEF P
<1>11. k <= Depth(P) + 1
  BY <1>9, <1>4, <1>0
<1>12. CutTo(H, k, P)
  BY <1>9, <1>10, <1>11 DEF CutTo
<1> QED BY <1>12, <1>7 DEF P

\* At most the body is below an element that it is not below.
LEMMA BodyBelow ==
  ASSUME NEW H, Sound(H), NEW k \in 1 .. Depth(H),
         Tag(H, k) \notin Early \cup {"body"}
  PROVE  \A j \in k .. Depth(H) : Tag(H, j) # "body"
<1>1. H \in ParserType /\ Depth(H) \in Nat
  BY Fields DEF Sound
<1>2. PICK j \in 1 .. k : Tag(H, j) = "body"
  BY DEF Sound, Sections
<1>3. j < k /\ j \in 1 .. Depth(H)
  BY <1>2, <1>1
<1> QED BY <1>1, <1>2, <1>3 DEF Sound, Sections, Once

\* Down to an element of the body: it is closed, and everything above it.
LEMMA CutToElement ==
  ASSUME NEW H, Sound(H), NEW k \in 1 .. Depth(H), NEW R, CutTo(H, k, R),
         Tag(H, k) \notin Early \cup {"body"}
  PROVE  Depth(R) = k - 1
<1>1. H \in ParserType /\ Depth(H) \in Nat /\ R \in ParserType /\ Depth(R) \in Nat
      /\ Depth(R) <= Depth(H)
  BY Fields DEF Sound, CutTo, Cut
<1>2. \A j \in k .. Depth(H) : Tag(H, j) # "body"
  BY BodyBelow
<1> QED BY <1>1, <1>2 DEF CutTo

-----------------------------------------------------------------------------
(***************************************************************************)
(* The cleanup before an element is opened.                                *)
(***************************************************************************)
LEMMA MaxFromZero ==
  ASSUME NEW n \in Nat, NEW s \in SUBSET (1 .. n)
  PROVE  Max({0} \cup s) \in {0} \cup s /\ \A i \in s : i <= Max({0} \cup s)
<1>1. \E x \in {0} \cup s : \A y \in {0} \cup s : x >= y
  <2>1. CASE s = {}
    BY <2>1
  <2>2. CASE s # {}
    <3>1. PICK m : m = Max(s)
      OBVIOUS
    <3>2. m \in s /\ \A i \in s : i <= m
      BY <2>2, <3>1, MaxPicks
    <3> QED BY <3>2
  <2> QED BY <2>1, <2>2
<1> DEFINE x == Max({0} \cup s)
<1>2. x \in {0} \cup s /\ \A y \in {0} \cup s : x >= y
  BY <1>1 DEF Max
<1> HIDE DEF x
<1>3. \A i \in s : i <= x
  BY <1>2
<1> QED BY <1>2, <1>3 DEF x

LEMMA Forbids ==
  ASSUME NEW H \in ParserType, NEW t
  PROVE  LET fi == Html_forbids_cross_nesting(H, t)
         IN IF fi = "none" THEN t \in ControlTags => \A c \in ControlTags : ~In(H, Flag[c])
            ELSE t \in ControlTags /\ fi \in ControlTags /\ In(H, Flag[fi])
<1> DEFINE fi == Html_forbids_cross_nesting(H, t)
           open == {n \in 1 .. 4 : In(H, Flag[Controls[n]])}
<1>1. CASE t \notin ControlTags
  BY <1>1 DEF Html_forbids_cross_nesting
<1>2. CASE t \in ControlTags /\ open = {}
  <2>1. fi = "none"
    BY <1>2 DEF Html_forbids_cross_nesting, FirstOpen
  <2>2. ASSUME NEW c \in ControlTags PROVE ~In(H, Flag[c])
    <3>1. PICK n \in 1 .. 4 : Controls[n] = c
      BY Control
    <3> QED BY <3>1, <1>2
  <2> QED BY <2>1, <2>2
<1>3. CASE t \in ControlTags /\ open # {}
  <2>1. fi = Controls[Min(open)]
    BY <1>3 DEF Html_forbids_cross_nesting, FirstOpen
  <2>2. Min(open) \in open
    <3>1. open \in SUBSET (1 .. 4) /\ 4 \in Nat
      OBVIOUS
    <3> HIDE DEF open
    <3> QED BY <3>1, <1>3, MinPicks
  <2>3. fi \in ControlTags /\ In(H, Flag[fi])
    BY <2>1, <2>2, Control
  <2>4. fi # "none"
    BY <2>3, Control
  <2> QED BY <1>3, <2>3, <2>4
<1> QED BY <1>1, <1>2, <1>3

\* The element t can be opened in R.
NoControl(R) == \A c \in ControlTags : ~In(R, Flag[c])

Above(R, t) ==
  Depth(R) > 0 => IF t = "option" THEN Tag(R, Depth(R)) # "option"
                  ELSE Tag(R, Depth(R)) \notin {"option", "optgroup"}

CutOpen(H, t, R) ==
  /\ Sound(R) /\ Cut(H, R)
  /\ ~Top(H).verbatim => ~Top(R).verbatim
  /\ t \in ControlTags => NoControl(R)
  /\ t # "hr" => Above(R, t)

LEMMA FlagOn ==
  ASSUME NEW H, Sound(H), NEW c \in ControlTags, In(H, Flag[c])
  PROVE  On(H, c)
BY Control DEF Sound, Apart, Flag

LEMMA CutOpenControl ==
  ASSUME NEW H, Sound(H), ~H.ReqTagClose, NEW t \in ControlTags, NEW fi \in ControlTags,
         In(H, Flag[fi])
  PROVE  LET stays == {k - 1 : k \in {j \in 1 .. Depth(H) : H.stack[j].tag = fi}}
         IN CutOpen(H, t, Html_tag_cleanup_to_idx(H, Max({0} \cup stays) + 1))
<1> DEFINE stays == {k - 1 : k \in {j \in 1 .. Depth(H) : H.stack[j].tag = fi}}
<1>0. H \in ParserType /\ Depth(H) \in Nat
  BY Fields DEF Sound
<1>1. PICK q \in 1 .. Depth(H) : Tag(H, q) = fi
  BY FlagOn DEF On
<1> DEFINE above == {i \in stays : i > 0}
<1>2. above \in SUBSET (1 .. Depth(H))
  BY <1>0
<1>3. {0} \cup stays = {0} \cup above
  BY <1>0
<1>4. q - 1 \in stays
  BY <1>1 DEF Tag
<1>5. PICK m : m = Max({0} \cup stays)
  OBVIOUS
<1>6. m \in {0} \cup stays /\ \A i \in stays : i <= m
  <2>1. m \in {0} \cup above /\ \A i \in above : i <= m
    <3> HIDE DEF above, stays
    <3> QED BY <1>0, <1>2, <1>3, <1>5, MaxFromZero
  <2>2. m \in Nat
    BY <2>1, <1>0
  <2> QED BY <2>1, <2>2, <1>0
<1>7. m \in stays
  BY <1>4, <1>6, <1>1, <1>0
<1>8. m \in Nat /\ m + 1 \in 1 .. Depth(H) /\ Tag(H, m + 1) = fi
  BY <1>7, <1>0 DEF Tag
<1> HIDE DEF above, stays
<1> DEFINE R == Html_tag_cleanup_to_idx(H, m + 1)
<1>9. CutTo(H, m + 1, R)
  BY <1>0, <1>8, CleanupCuts
<1> HIDE DEF R
<1>10. Depth(R) = m
  <2>1. fi \notin Early \cup {"body"}
    BY Control DEF Early
  <2>2. Depth(R) = (m + 1) - 1
    BY <1>8, <1>9, <2>1, CutToElement
  <2> QED BY <2>2, <1>8, <1>0
<1>11. Sound(R) /\ Cut(H, R) /\ ~Top(R).verbatim
  BY <1>8, <1>9, <1>10, <1>0 DEF CutTo
<1>12. NoControl(R)
  <2> SUFFICES ASSUME NEW c \in ControlTags, In(R, Flag[c]) PROVE FALSE
    BY DEF NoControl
  <2>1. In(H, Flag[c])
    BY <1>11 DEF Cut, In
  <2>2. c = fi
    BY <2>1 DEF Sound, Apart
  <2> QED BY <2>2, <1>8, <1>10, <1>11 DEF Cut
<1>13. Above(R, t)
  <2> SUFFICES ASSUME Depth(R) > 0, Tag(R, Depth(R)) \in {"option", "optgroup"} PROVE FALSE
    BY DEF Above
  <2>1. m \in 1 .. Depth(H) /\ Tag(H, m) = Tag(R, m)
    BY <1>10, <1>11, <1>8, <1>0 DEF Cut
  <2>2. Tag(H, m + 1) # "option" /\ m # Depth(H)
    BY <1>8, <1>0, Control
  <2> QED BY <2>1, <2>2, <1>10 DEF Sound, Options
<1>14. CutOpen(H, t, R)
  BY <1>11, <1>12, <1>13 DEF CutOpen
<1> QED BY <1>14, <1>5 DEF R, stays

LEMMA CutOpenOther ==
  ASSUME NEW H, Sound(H), ~H.ReqTagClose, NEW t \in Tags,
         t \in ControlTags => NoControl(H)
  PROVE  LET stays == {k \in 1 .. Depth(H) : ~GivesWay(H, H.stack[k].tag, t)}
         IN CutOpen(H, t, Html_tag_cleanup_to_idx(H, Max({0} \cup stays) + 1))
<1> DEFINE stays == {k \in 1 .. Depth(H) : ~GivesWay(H, H.stack[k].tag, t)}
<1>0. H \in ParserType /\ Depth(H) \in Nat /\ stays \in SUBSET (1 .. Depth(H))
  BY Fields DEF Sound
<1>1. PICK m : m = Max({0} \cup stays)
  OBVIOUS
<1>2. m \in {0} \cup stays /\ \A i \in stays : i <= m
  <2> HIDE DEF stays
  <2> QED BY <1>0, <1>1, MaxFromZero
<1>3. m \in 0 .. Depth(H) /\ m + 1 \in 1 .. Depth(H) + 1
  BY <1>0, <1>2
<1>4. m > 0 => ~GivesWay(H, Tag(H, m), t)
  BY <1>2 DEF Tag
<1> DEFINE R == Html_tag_cleanup_to_idx(H, m + 1)
<1>5. CutTo(H, m + 1, R)
  BY <1>3, CleanupCuts
<1> HIDE DEF R
<1>6. Sound(R) /\ Cut(H, R) /\ (~Top(H).verbatim => ~Top(R).verbatim)
  <2>1. Depth(R) \in Nat /\ Depth(R) <= Depth(H)
    BY <1>5, Fields DEF CutTo, Cut
  <2> QED BY <1>5, <2>1, <1>0 DEF CutTo
<1>7. t \in ControlTags => NoControl(R)
  BY <1>6 DEF NoControl, Cut, In
<1>8. t # "hr" => Above(R, t)
  <2> SUFFICES ASSUME t # "hr", Depth(R) > 0 PROVE Above(R, t)
    BY DEF Above
  <2>0. Depth(R) \in 1 .. Depth(R) /\ Depth(R) \in 1 .. Depth(H) /\ Tag(R, Depth(R)) = Tag(H, Depth(R))
    BY <1>6, <1>0, Fields DEF Cut
  <2>1. CASE m + 1 <= Depth(R)
    <3>1. Tag(H, Depth(R)) = "body"
      BY <2>1, <1>5 DEF CutTo
    <3> QED BY <3>1, <2>0 DEF Above
  <2>2. CASE ~(m + 1 <= Depth(R))
    <3>1. Depth(R) = m
      BY <2>0, <2>2, <1>3, <1>5, <1>0 DEF CutTo
    <3>2. ~GivesWay(H, Tag(H, m), t)
      BY <3>1, <1>4
    <3>3. GivesWay(H, "option", t)
      BY DEF GivesWay, OptionalEnd, Html_triggers_optional_close
    <3>4. t # "option" => GivesWay(H, "optgroup", t)
      BY DEF GivesWay, OptionalEnd, Html_triggers_optional_close
    <3> QED BY <3>1, <3>2, <3>3, <3>4, <2>0 DEF Above
  <2> QED BY <2>1, <2>2
<1>9. CutOpen(H, t, R)
  BY <1>6, <1>7, <1>8 DEF CutOpen
<1> QED BY <1>9, <1>1 DEF R, stays

LEMMA CutOpens ==
  ASSUME NEW H, Sound(H), ~H.ReqTagClose, NEW t \in Tags
  PROVE  CutOpen(H, t, Html_stack_cleanup_at_open(H, t))
<1> DEFINE fi == Html_forbids_cross_nesting(H, t)
<1>0. H \in ParserType
  BY DEF Sound
<1>1. PICK f : f = fi
  OBVIOUS
<1>2. IF f = "none" THEN t \in ControlTags => \A c \in ControlTags : ~In(H, Flag[c])
      ELSE t \in ControlTags /\ f \in ControlTags /\ In(H, Flag[f])
  BY <1>0, <1>1, Forbids
<1>3. CASE f # "none"
  <2>1. Html_stack_cleanup_at_open(H, t) =
          LET stays == {k - 1 : k \in {j \in 1 .. Depth(H) : H.stack[j].tag = f}}
          IN Html_tag_cleanup_to_idx(H, Max({0} \cup stays) + 1)
    BY <1>1, <1>3 DEF Html_stack_cleanup_at_open
  <2> QED BY <2>1, <1>2, <1>3, CutOpenControl
<1>4. CASE f = "none"
  <2>1. Html_stack_cleanup_at_open(H, t) =
          LET stays == {k \in 1 .. Depth(H) : ~GivesWay(H, H.stack[k].tag, t)}
          IN Html_tag_cleanup_to_idx(H, Max({0} \cup stays) + 1)
    BY <1>1, <1>4 DEF Html_stack_cleanup_at_open
  <2> QED BY <2>1, <1>2, <1>4, CutOpenOther DEF NoControl
<1> QED BY <1>3, <1>4

-----------------------------------------------------------------------------
(***************************************************************************)
(* An element is pushed: R is H with t on top, whose text is taken as it   *)
(* is if v.                                                                *)
(***************************************************************************)
Grown(H, t, v, R) ==
  /\ R \in ParserType /\ Depth(R) = Depth(H) + 1
  /\ \A k \in 1 .. Depth(H) : R.stack[k] = H.stack[k] /\ Tag(R, k) = Tag(H, k)
  /\ Tag(R, Depth(R)) = t /\ R.stack[Depth(R)].verbatim = v
  /\ R.html5 = H.html5

LEMMA PushFacts ==
  ASSUME NEW H \in ParserType, NEW t \in Tags
  PROVE  LET R == Html_push_tag(H, t)
         IN Grown(H, t, Top(H).verbatim, R) /\ Rest(H, R) /\ R.InFlags = H.InFlags
<1> DEFINE e == [Top(H) EXCEPT !.tag = t]
           s == Append(H.stack, e)
           R == Html_push_tag(H, t)
<1>0. H.stack \in Seq(Items) /\ Depth(H) = Len(H.stack) /\ Depth(H) \in Nat
  BY Fields
<1>1. Top(H) \in [tag : Tags \cup {"none"}, display_none : BOOLEAN, verbatim : BOOLEAN]
  <2>1. CASE H.stack = <<>>
    BY <2>1 DEF Top
  <2>2. CASE H.stack # <<>>
    <3>1. Len(H.stack) \in 1 .. Len(H.stack)
      BY <2>2, <1>0
    <3>2. Top(H) \in Items
      BY <2>2, <3>1, <1>0 DEF Top, Last
    <3> QED BY <3>2 DEF Items
  <2> QED BY <2>1, <2>2
<1>2. e \in Items /\ e.tag = t /\ e.verbatim = Top(H).verbatim
  BY <1>1 DEF Items
<1>3. R = [H EXCEPT !.stack = s]
  BY DEF Html_push_tag
<1> HIDE DEF e
<1>4. /\ s \in Seq(Items) /\ Len(s) = Depth(H) + 1 /\ s[Depth(H) + 1] = e
      /\ \A k \in 1 .. Depth(H) : s[k] = H.stack[k]
  BY <1>0, <1>2
<1> HIDE DEF s, R
<1>5. /\ R \in ParserType /\ R.stack = s /\ R.InFlags = H.InFlags
      /\ Rest(H, R) /\ R.html5 = H.html5
  BY <1>3, <1>4 DEF ParserType, Rest, Items
<1>6. Depth(R) = Depth(H) + 1
  BY <1>4, <1>5 DEF Depth
<1>7. Grown(H, t, Top(H).verbatim, R)
  BY <1>2, <1>4, <1>5, <1>6 DEF Grown, Tag
<1> QED BY <1>5, <1>7 DEF R

LEMMA GrownKept ==
  ASSUME NEW H, NEW t, NEW v, NEW P, Grown(H, t, v, P), NEW R, Kept(P, R)
  PROVE  Grown(H, t, v, R)
BY DEF Grown, Kept, Tag

LEMMA GrownVerbatim ==
  ASSUME NEW H \in ParserType, NEW t, NEW v, NEW P, Grown(H, t, v, P)
  PROVE  LET R == SetVerbatim(P)
         IN Grown(H, t, TRUE, R) /\ Rest(P, R) /\ R.InFlags = P.InFlags
<1> DEFINE d == Depth(P)
           e == [P.stack[d] EXCEPT !.verbatim = TRUE]
           s == [P.stack EXCEPT ![d] = e]
           R == SetVerbatim(P)
<1>0. /\ P \in ParserType /\ Depth(H) \in Nat /\ d = Depth(H) + 1 /\ d \in 1 .. d
      /\ P.stack \in Seq(Items) /\ d = Len(P.stack) /\ P.stack[d] \in Items
  BY Fields DEF Grown
<1>1. e \in Items /\ e.tag = P.stack[d].tag /\ e.verbatim = TRUE
  BY <1>0 DEF Items
<1>2. R = [P EXCEPT !.stack = s]
  BY <1>0 DEF SetVerbatim, ParserType
<1> HIDE DEF e
<1>3. /\ s \in Seq(Items) /\ Len(s) = d /\ s[d] = e
      /\ \A k \in 1 .. Depth(H) : s[k] = P.stack[k]
  BY <1>0, <1>1
<1> HIDE DEF s, R
<1>4. /\ R \in ParserType /\ R.stack = s /\ R.InFlags = P.InFlags
      /\ Rest(P, R) /\ R.html5 = P.html5
  BY <1>0, <1>2, <1>3 DEF ParserType, Rest, Items
<1>5. Depth(R) = d
  BY <1>3, <1>4 DEF Depth
<1>6. Grown(H, t, TRUE, R)
  BY <1>0, <1>1, <1>3, <1>4, <1>5 DEF Grown, Tag
<1> QED BY <1>4, <1>6 DEF R

Undisplayed(P) == [P EXCEPT !.stack[Depth(P)].display_none = TRUE]

LEMMA GrownUndisplayed ==
  ASSUME NEW H \in ParserType, NEW t, NEW v, NEW P, Grown(H, t, v, P)
  PROVE  LET R == Undisplayed(P)
         IN Grown(H, t, v, R) /\ Rest(P, R) /\ R.InFlags = P.InFlags
<1> DEFINE d == Depth(P)
           e == [P.stack[d] EXCEPT !.display_none = TRUE]
           s == [P.stack EXCEPT ![d] = e]
           R == Undisplayed(P)
<1>0. /\ P \in ParserType /\ Depth(H) \in Nat /\ d = Depth(H) + 1 /\ d \in 1 .. d
      /\ P.stack \in Seq(Items) /\ d = Len(P.stack) /\ P.stack[d] \in Items
  BY Fields DEF Grown
<1>1. e \in Items /\ e.tag = P.stack[d].tag /\ e.verbatim = P.stack[d].verbatim
  BY <1>0 DEF Items
<1>2. R = [P EXCEPT !.stack = s]
  BY <1>0 DEF Undisplayed, ParserType
<1> HIDE DEF e
<1>3. /\ s \in Seq(Items) /\ Len(s) = d /\ s[d] = e
      /\ \A k \in 1 .. Depth(H) : s[k] = P.stack[k]
  BY <1>0, <1>1
<1> HIDE DEF s, R
<1>4. /\ R \in ParserType /\ R.stack = s /\ R.InFlags = P.InFlags
      /\ Rest(P, R) /\ R.html5 = P.html5
  BY <1>0, <1>2, <1>3 DEF ParserType, Rest, Items
<1>5. Depth(R) = d
  BY <1>3, <1>4 DEF Depth
<1>6. Grown(H, t, v, R)
  BY <1>0, <1>1, <1>3, <1>4, <1>5 DEF Grown, Tag
<1> QED BY <1>4, <1>6 DEF R

LEMMA GrownOn ==
  ASSUME NEW H \in ParserType, NEW t, NEW v, NEW R, Grown(H, t, v, R)
  PROVE  /\ \A u : On(R, u) <=> On(H, u) \/ u = t
         /\ \A u : Once(H, u) /\ (u = t => ~On(H, u)) => Once(R, u)
         /\ Top(R).tag = t /\ Top(R).verbatim = v
<1>1. /\ Depth(H) \in Nat /\ Depth(R) = Depth(H) + 1 /\ R \in ParserType
      /\ \A k \in 1 .. Depth(R) : k \in 1 .. Depth(H) \/ k = Depth(R)
      /\ \A k \in 1 .. Depth(H) : k \in 1 .. Depth(R) /\ k # Depth(R) /\ Tag(R, k) = Tag(H, k)
      /\ Depth(R) \in 1 .. Depth(R) /\ Tag(R, Depth(R)) = t
  BY Fields DEF Grown
<1>2. \A u : On(R, u) <=> On(H, u) \/ u = t
  BY <1>1 DEF On
<1>3. \A u : Once(H, u) /\ (u = t => ~On(H, u)) => Once(R, u)
  BY <1>1 DEF On, Once
<1>4. Top(R).tag = t /\ Top(R).verbatim = v
  BY <1>1, TopIs DEF Grown
<1> QED BY <1>2, <1>3, <1>4

-----------------------------------------------------------------------------
(***************************************************************************)
(* What the parts of the invariant ask of the state with the new element.  *)
(***************************************************************************)
LEMMA GrowElement ==
  ASSUME NEW H \in ParserType, Sections(H), Begun(H), NEW t, NEW v, NEW R, Grown(H, t, v, R),
         t \notin {"html", "head", "body"}, R.Num = H.Num,
         \A f \in {"EOF", "HTML", "HEAD", "BODY"} : In(R, f) <=> In(H, f),
         t \in Early \/ On(H, "body"), In(H, "HTML"),
         t \in {"title", "script"} => In(H, "BODY") \/ H.Num["head"] > 0
  PROVE  Sections(R) /\ Begun(R)
<1>1. /\ Depth(H) \in Nat /\ Depth(R) = Depth(H) + 1
      /\ \A k \in 1 .. Depth(H) : Tag(R, k) = Tag(H, k)
      /\ Tag(R, Depth(R)) = t
  BY Fields DEF Grown
<1>2. \A u \in {"html", "head", "body"} : Once(R, u) /\ (On(R, u) <=> On(H, u))
  BY GrownOn DEF Sections
<1>3. ASSUME NEW k \in 1 .. Depth(R)
      PROVE  Tag(R, k) \in Early \/ \E j \in 1 .. k : Tag(R, j) = "body"
  <2>1. CASE k = Depth(R)
    <3>1. CASE t \in Early
      BY <2>1, <3>1, <1>1
    <3>2. CASE On(H, "body")
      <4>1. PICK j \in 1 .. Depth(H) : Tag(H, j) = "body"
        BY <3>2 DEF On
      <4> QED BY <4>1, <2>1, <1>1
    <3> QED BY <3>1, <3>2
  <2>2. CASE k # Depth(R)
    <3>1. k \in 1 .. Depth(H) /\ \A j \in 1 .. k : j \in 1 .. Depth(H)
      BY <2>2, <1>1
    <3> QED BY <3>1, <1>1 DEF Sections
  <2> QED BY <2>1, <2>2
<1>4. Sections(R)
  BY <1>2, <1>3 DEF Sections
<1>5. /\ On(R, "title") => On(H, "title") \/ t = "title"
      /\ On(R, "script") => On(H, "script") \/ t = "script"
  BY GrownOn
<1>6. Begun(R)
  BY <1>2, <1>5 DEF Begun
<1> QED BY <1>4, <1>6

\* A section, opened for the first time or again after its end.
LEMMA GrowSection ==
  ASSUME NEW H \in ParserType, Sections(H), Begun(H), NEW t \in {"html", "head", "body"},
         NEW v, NEW R, Grown(H, t, v, R), ~On(H, t), ~In(H, "EOF"), ~In(H, "BODY"),
         In(H, "HEAD") => t = "html",
         IF t = "head" THEN R.Num["head"] = 1 ELSE R.Num["head"] = H.Num["head"],
         \A s \in {"html", "body"} : R.Num[s] > 0 <=> H.Num[s] > 0 \/ s = t,
         In(R, "HTML") <=> In(H, "HTML") \/ t = "html",
         In(R, "HEAD") <=> In(H, "HEAD") \/ t = "head",
         In(R, "BODY") <=> t = "body",
         In(H, "HTML") \/ t = "html"
  PROVE  Sections(R) /\ Begun(R)
<1>1. /\ Depth(H) \in Nat /\ Depth(R) = Depth(H) + 1
      /\ \A k \in 1 .. Depth(H) : Tag(R, k) = Tag(H, k)
      /\ Tag(R, Depth(R)) = t
  BY Fields DEF Grown
<1>2. /\ \A u \in {"html", "head", "body"} : Once(R, u) /\ (On(R, u) <=> On(H, u) \/ u = t)
      /\ On(R, "title") => On(H, "title")
      /\ On(R, "script") => On(H, "script")
  BY GrownOn DEF Sections
<1>3. ~On(H, "body")
  BY DEF Begun
<1>4. ASSUME NEW k \in 1 .. Depth(R)
      PROVE  Tag(R, k) \in Early \/ \E j \in 1 .. k : Tag(R, j) = "body"
  <2>1. CASE k = Depth(R)
    <3>1. t \in Early \/ (t = "body" /\ k \in 1 .. k /\ Tag(R, k) = "body")
      BY <2>1, <1>1 DEF Early
    <3> QED BY <3>1, <2>1, <1>1
  <2>2. CASE k # Depth(R)
    <3>1. k \in 1 .. Depth(H) /\ \A j \in 1 .. k : j \in 1 .. Depth(H)
      BY <2>2, <1>1
    <3> QED BY <3>1, <1>1 DEF Sections
  <2> QED BY <2>1, <2>2
<1>5. (In(R, "HEAD") <=> On(R, "head")) /\ (In(R, "HEAD") => R.Num["head"] = 1 /\ ~On(R, "body"))
  BY <1>2, <1>3 DEF Sections
<1>6. Sections(R)
  BY <1>2, <1>4, <1>5 DEF Sections
<1>7. /\ In(R, "BODY") <=> On(R, "body")
      /\ In(R, "HTML") <=> R.Num["html"] > 0
      /\ In(R, "BODY") <=> R.Num["body"] > 0
      /\ In(R, "HTML")
  BY <1>2, <1>3 DEF Begun
<1>8. On(R, "title") \/ On(R, "script") => In(R, "BODY") \/ R.Num["head"] > 0
  BY <1>2 DEF Begun
<1>9. Begun(R)
  BY <1>7, <1>8 DEF Begun
<1> QED BY <1>6, <1>9

LEMMA GrowApart ==
  ASSUME NEW H \in ParserType, Apart(H), NEW t, NEW v, NEW R, Grown(H, t, v, R),
         \/ \A c \in ControlTags : In(R, Flag[c]) => In(H, Flag[c])
         \/ NoControl(H) /\ \A c \in ControlTags : In(R, Flag[c]) => c = t,
         In(R, "A") <=> In(H, "A") \/ t = "a", t = "a" => NoControl(H),
         In(R, "BUTTON") <=> In(H, "BUTTON") \/ t = "button", t = "button" => NoControl(H),
         In(R, "SELECT") => In(H, "SELECT") \/ t = "select",
         In(R, "TEXTAREA") => In(H, "TEXTAREA") \/ t = "textarea",
         In(R, "FORM") => In(H, "FORM") \/ t = "form",
         In(R, "PRE") => In(H, "PRE") \/ t = "pre"
  PROVE  Apart(R)
<1>1. \A c, d \in ControlTags : In(R, Flag[c]) /\ In(R, Flag[d]) => c = d
  BY DEF Apart
<1>2. /\ t = "a" => ~On(H, "a")
      /\ t = "button" => ~On(H, "button")
  BY Control DEF Apart, NoControl, Flag
<1>3. /\ Once(R, "a") /\ Once(R, "button")
      /\ \A u : On(R, u) <=> On(H, u) \/ u = t
  BY <1>2, GrownOn DEF Apart
<1> QED BY <1>1, <1>3 DEF Apart

\* Nothing at the top is in the way of t.
LEMMA AboveFacts ==
  ASSUME NEW H, Sound(H), NEW t, Above(H, t)
  PROVE  /\ \A k \in 1 .. Depth(H) : Tag(H, k) # "option"
         /\ \A k \in 1 .. Depth(H) : Tag(H, k) = "optgroup" => t = "option" /\ k = Depth(H)
         /\ ~In(H, "OPTION") /\ (t # "option" => ~In(H, "OPTGROUP"))
<1>0. H \in ParserType /\ Depth(H) \in Nat
  BY Fields DEF Sound
<1>1. \A k \in 1 .. Depth(H) : Tag(H, k) # "option"
  BY <1>0 DEF Above, Sound, Options
<1>2. \A k \in 1 .. Depth(H) : Tag(H, k) = "optgroup" => t = "option" /\ k = Depth(H)
  BY <1>0, <1>1 DEF Above, Sound, Options
<1>3. ~In(H, "OPTION") /\ (t # "option" => ~In(H, "OPTGROUP"))
  BY <1>1, <1>2 DEF Sound, Options, On
<1> QED BY <1>1, <1>2, <1>3

LEMMA GrowOptions ==
  ASSUME NEW H, Sound(H), NEW t, NEW v, NEW R, Grown(H, t, v, R), Above(H, t),
         In(R, "OPTION") => t = "option" /\ In(R, "SELECT"),
         In(R, "OPTGROUP") => (t = "optgroup" \/ In(H, "OPTGROUP")) /\ In(R, "SELECT"),
         In(R, "SELECT") => Html_get_current_input(R) \in {"select", "options"},
         In(R, "OPTION") \/ In(R, "OPTGROUP") => Html_get_current_input(R) = "options"
  PROVE  Options(R)
<1>0. H \in ParserType
  BY DEF Sound
<1>1. /\ Depth(H) \in Nat /\ Depth(R) = Depth(H) + 1
      /\ \A k \in 1 .. Depth(R) : k \in 1 .. Depth(H) \/ k = Depth(R)
      /\ \A k \in 1 .. Depth(H) : Tag(R, k) = Tag(H, k)
      /\ Tag(R, Depth(R)) = t
  BY <1>0, Fields DEF Grown
<1>2. \A k \in 1 .. Depth(R) : Tag(R, k) = "option" => k = Depth(R)
  BY <1>1, AboveFacts
<1>3. \A k \in 1 .. Depth(R) : Tag(R, k) = "optgroup" =>
        k = Depth(R) \/ (k + 1 = Depth(R) /\ Tag(R, k + 1) = "option")
  BY <1>1, AboveFacts
<1>4. \A u : On(R, u) <=> On(H, u) \/ u = t
  BY <1>0, GrownOn
<1>5. In(R, "OPTGROUP") => On(R, "optgroup")
  BY <1>4 DEF Sound, Options
<1> QED BY <1>2, <1>3, <1>4, <1>5 DEF Options

LEMMA GrowVerbatim ==
  ASSUME NEW H, Sound(H), ~Top(H).verbatim, NEW t, NEW v, NEW R, Grown(H, t, v, R),
         t = "script" => v,
         v => \/ t = "script"
              \/ t = "textarea" /\ In(R, "TEXTAREA") /\ Html_get_current_input(R) = "textarea"
  PROVE  Verbatim(R)
<1>0. H \in ParserType
  BY DEF Sound
<1>1. /\ Depth(H) \in Nat /\ Depth(R) = Depth(H) + 1
      /\ \A k \in 1 .. Depth(H) : R.stack[k] = H.stack[k]
  BY <1>0, Fields DEF Grown
<1>2. \A k \in 1 .. Depth(H) : ~H.stack[k].verbatim
  <2>1. Depth(H) > 0 => ~H.stack[Depth(H)].verbatim
    BY <1>0, TopIs
  <2>2. \A k \in 1 .. Depth(H) : k \in 1 .. Depth(H) - 1 \/ (k = Depth(H) /\ Depth(H) > 0)
    BY <1>1
  <2> QED BY <2>1, <2>2 DEF Sound, Verbatim
<1>3. Top(R).tag = t /\ Top(R).verbatim = v
  BY <1>0, GrownOn
<1>4. \A k \in 1 .. Depth(R) - 1 : k \in 1 .. Depth(H)
  BY <1>1
<1>5. \A k \in 1 .. Depth(R) : Tag(R, k) = "script" => R.stack[k].verbatim
  <2>1. \A k \in 1 .. Depth(H) : Tag(H, k) = "script" => H.stack[k].verbatim
    BY DEF Sound, Verbatim
  <2>2. \A k \in 1 .. Depth(R) : k \in 1 .. Depth(H) \/ k = Depth(R)
    BY <1>1
  <2> QED BY <2>1, <2>2 DEF Grown
<1>6. \A k \in 1 .. Depth(R) - 1 : ~R.stack[k].verbatim
  BY <1>1, <1>2, <1>4
<1> QED BY <1>3, <1>5, <1>6 DEF Verbatim

-----------------------------------------------------------------------------
(***************************************************************************)
(* The flags and inputs of the forms, element by element.                  *)
(***************************************************************************)
FormFlags == {"FORM", "SELECT", "OPTION", "OPTGROUP", "TEXTAREA", "BUTTON", "A", "PRE"}

\* t can be pushed on H, and R has it on top.
Enters(H, t, v, R) ==
  /\ Sound(H) /\ ~Top(H).verbatim /\ Grown(H, t, v, R) /\ Above(H, t)
  /\ t \in ControlTags => NoControl(H)

Forms(R) == Apart(R) /\ Options(R) /\ Verbatim(R)

SameInputs(H, R) == R.form = H.form /\ R.outside = H.outside

LEMMA EnterPlain ==
  ASSUME NEW H, NEW t, NEW v, NEW R, Enters(H, t, v, R), SameInputs(H, R),
         t # "button", v <=> t = "script",
         \A f \in FormFlags : In(R, f) <=>
           In(H, f) \/ (f = "A" /\ t = "a") \/ (f = "PRE" /\ t = "pre")
  PROVE  Forms(R)
<1>0. H \in ParserType /\ Sound(H) /\ Apart(H) /\ Options(H) /\ Grown(H, t, v, R) /\ Above(H, t)
  BY DEF Enters, Sound
<1>1. ~In(H, "OPTION")
  BY <1>0, AboveFacts
<1>2. Html_get_current_input(R) = Html_get_current_input(H)
  BY DEF FormFlags, Html_get_current_input, SameInputs
<1>3. Options(R)
  BY <1>0, <1>1, <1>2, GrowOptions DEF FormFlags, Options
<1>4. Verbatim(R)
  BY <1>0, GrowVerbatim DEF Enters
<1>5. \/ \A c \in ControlTags : In(R, Flag[c]) => In(H, Flag[c])
      \/ NoControl(H) /\ \A c \in ControlTags : In(R, Flag[c]) => c = t
  <2>1. \A c \in ControlTags : Flag[c] \in FormFlags /\ Flag[c] # "PRE" /\ (Flag[c] = "A" => c = "a")
    BY Control DEF Flag, FormFlags
  <2>2. CASE t = "a"
    <3>1. NoControl(H)
      BY <2>2, Control DEF Enters
    <3> QED BY <3>1, <2>1, <2>2 DEF NoControl
  <2>3. CASE t # "a"
    BY <2>1, <2>3
  <2> QED BY <2>2, <2>3
<1>6. Apart(R)
  <2>1. t = "a" => NoControl(H)
    BY Control DEF Enters
  <2>2. /\ In(R, "A") <=> In(H, "A") \/ t = "a"
        /\ In(R, "BUTTON") <=> In(H, "BUTTON")
        /\ In(R, "PRE") <=> In(H, "PRE") \/ t = "pre"
        /\ \A f \in {"SELECT", "TEXTAREA", "FORM"} : In(R, f) <=> In(H, f)
    BY DEF FormFlags
  <2> QED BY <1>0, <1>5, <2>1, <2>2, GrowApart
<1> QED BY <1>3, <1>4, <1>6 DEF Forms

LEMMA EnterForm ==
  ASSUME NEW H, NEW R, Enters(H, "form", FALSE, R),
         R.InFlags = (H.InFlags \ {"FORM", "SELECT", "OPTION", "TEXTAREA"}) \cup {"FORM"}
  PROVE  Forms(R)
<1>0. /\ H \in ParserType /\ Sound(H) /\ Apart(H) /\ Options(H)
      /\ Grown(H, "form", FALSE, R) /\ Above(H, "form")
  BY DEF Enters, Sound
<1>1. ~In(H, "OPTGROUP")
  BY <1>0, AboveFacts
<1>2. ~In(R, "SELECT") /\ ~In(R, "OPTION") /\ ~In(R, "OPTGROUP") /\ ~In(R, "TEXTAREA")
  BY <1>1 DEF In
<1>3. Options(R)
  BY <1>0, <1>2, GrowOptions
<1>4. Verbatim(R)
  BY <1>0, GrowVerbatim DEF Enters
<1>5. \A c \in ControlTags : In(R, Flag[c]) => In(H, Flag[c])
  BY Control DEF In, Flag
<1>6. Apart(R)
  <2>1. /\ In(R, "A") <=> In(H, "A")
        /\ In(R, "BUTTON") <=> In(H, "BUTTON")
        /\ In(R, "PRE") <=> In(H, "PRE")
    BY DEF In
  <2> QED BY <1>0, <1>2, <1>5, <2>1, GrowApart
<1> QED BY <1>3, <1>4, <1>6 DEF Forms

LEMMA EnterControl ==
  ASSUME NEW H, NEW t \in {"select", "button", "textarea"}, NEW v, NEW R, Enters(H, t, v, R),
         R.InFlags = (H.InFlags \ {"OPTION"}) \cup {Flag[t]},
         t = "select" => Html_get_current_input(R) = "select",
         v => t = "textarea" /\ Html_get_current_input(R) = "textarea"
  PROVE  Forms(R)
<1>0. /\ H \in ParserType /\ Sound(H) /\ Apart(H) /\ Options(H) /\ NoControl(H)
      /\ Grown(H, t, v, R) /\ Above(H, t)
  BY Control DEF Enters, Sound
<1>1. ~In(H, "OPTGROUP") /\ ~In(H, "OPTION")
  BY <1>0, Control DEF NoControl, Flag, Options
<1>2. \A c \in ControlTags : In(R, Flag[c]) <=> c = t
  <2>1. \A c \in ControlTags : Flag[c] # "OPTION" /\ (Flag[c] = Flag[t] => c = t)
    BY Control DEF Flag
  <2> QED BY <1>0, <2>1, Control DEF NoControl, In
<1>3. /\ In(R, "A") <=> FALSE
      /\ In(R, "BUTTON") <=> t = "button"
      /\ In(R, "SELECT") <=> t = "select"
      /\ In(R, "TEXTAREA") <=> t = "textarea"
  BY <1>2, Control DEF Flag
<1>4. ~In(R, "OPTION") /\ ~In(R, "OPTGROUP") /\ (In(R, "FORM") <=> In(H, "FORM"))
      /\ (In(R, "PRE") <=> In(H, "PRE"))
  BY <1>1 DEF In, Flag
<1>5. Options(R)
  BY <1>0, <1>3, <1>4, GrowOptions
<1>6. Verbatim(R)
  BY <1>0, <1>3, GrowVerbatim DEF Enters
<1>7. ~In(H, "A") /\ ~In(H, "BUTTON")
  BY <1>0, Control DEF NoControl, Flag
<1>8. Apart(R)
  BY <1>0, <1>2, <1>3, <1>4, <1>7, GrowApart
<1> QED BY <1>5, <1>6, <1>8 DEF Forms

LEMMA EnterOption ==
  ASSUME NEW H, NEW t \in {"optgroup", "option"}, NEW R, Enters(H, t, FALSE, R),
         R.InFlags = H.InFlags \cup {IF t = "option" THEN "OPTION" ELSE "OPTGROUP"},
         In(H, "SELECT"), Html_get_current_input(R) = "options"
  PROVE  Forms(R)
<1>0. /\ H \in ParserType /\ Sound(H) /\ Apart(H) /\ Options(H)
      /\ Grown(H, t, FALSE, R) /\ Above(H, t)
  BY DEF Enters, Sound
<1>1. ~In(H, "OPTION")
  BY <1>0, AboveFacts
<1>2. \A f \in FormFlags \ {"OPTION", "OPTGROUP"} : In(R, f) <=> In(H, f)
  BY DEF In, FormFlags
<1>3. /\ In(R, "OPTION") => t = "option"
      /\ In(R, "OPTGROUP") => t = "optgroup" \/ In(H, "OPTGROUP")
  BY <1>1 DEF In
<1>4. In(R, "SELECT")
  BY <1>2 DEF FormFlags
<1>5. Options(R)
  BY <1>0, <1>3, <1>4, GrowOptions
<1>6. Verbatim(R)
  BY <1>0, GrowVerbatim DEF Enters
<1>7. \A c \in ControlTags : In(R, Flag[c]) => In(H, Flag[c])
  BY <1>2, Control DEF Flag, FormFlags
<1>8. \A f \in {"A", "BUTTON", "SELECT", "TEXTAREA", "FORM", "PRE"} : In(R, f) <=> In(H, f)
  BY <1>2 DEF FormFlags
<1>9. Apart(R)
  BY <1>0, <1>7, <1>8, GrowApart
<1> QED BY <1>5, <1>6, <1>9 DEF Forms

-----------------------------------------------------------------------------
(***************************************************************************)
(* The sections: opened for the first time, the invariant holds.           *)
(***************************************************************************)
SectionFlag == [html |-> "HTML", head |-> "HEAD", body |-> "BODY"]

\* R is H with the section t on top.
SectionEntered(H, t, R) ==
  /\ Grown(H, t, FALSE, R) /\ R.InFlags = H.InFlags \cup {SectionFlag[t]}
  /\ SameInputs(H, R) /\ R.ReqTagClose = H.ReqTagClose
  /\ R.Num = [H.Num EXCEPT ![t] = 1]

\* The section t can be opened in H.
Opens(H, t) ==
  /\ Sound(H) /\ ~In(H, "EOF") /\ ~Top(H).verbatim
  /\ H.Num[t] = 0 /\ ~In(H, SectionFlag[t])
  /\ t # "html" => In(H, "HTML") /\ ~In(H, "HEAD") /\ ~In(H, "BODY")

LEMMA SectionSound ==
  ASSUME NEW H, NEW t \in {"html", "head", "body"}, Opens(H, t), NEW R, SectionEntered(H, t, R)
  PROVE  Sound(R) /\ Top(R).tag = t /\ ~Top(R).verbatim
<1>0. /\ H \in ParserType /\ H.Num \in Kinds /\ Sound(H) /\ Sections(H) /\ Begun(H)
      /\ Grown(H, t, FALSE, R) /\ R \in ParserType /\ Depth(H) \in Nat
  BY Fields DEF Opens, Sound, SectionEntered, Grown
<1>1. t = "html" => H.stack = <<>> /\ Depth(H) = 0
  BY <1>0, Fields DEF Opens, SectionFlag, Begun
<1>2. ~In(H, "EOF") /\ ~In(H, "BODY") /\ (In(H, "HEAD") => t = "html")
  <2>1. CASE t = "html"
    <3>1. ~On(H, "body")
      BY <2>1, <1>0, <1>1, NoTop
    <3> QED BY <3>1, <2>1, <1>0 DEF Begun, Opens
  <2>2. CASE t # "html"
    BY <2>2 DEF Opens
  <2> QED BY <2>1, <2>2
<1>3. ~On(H, t)
  <2>1. t = "html" => ~On(H, t)
    BY <1>0, <1>1, NoTop
  <2>2. t = "head" => ~On(H, t)
    BY <1>0 DEF Opens, Sections
  <2>3. t = "body" => ~On(H, t)
    BY <1>0, <1>2 DEF Begun
  <2> QED BY <2>1, <2>2, <2>3
<1>4. /\ IF t = "head" THEN R.Num["head"] = 1 ELSE R.Num["head"] = H.Num["head"]
      /\ \A s \in {"html", "body"} : R.Num[s] > 0 <=> H.Num[s] > 0 \/ s = t
  BY <1>0 DEF SectionEntered, Kinds
<1>5. /\ In(R, "HTML") <=> In(H, "HTML") \/ t = "html"
      /\ In(R, "HEAD") <=> In(H, "HEAD") \/ t = "head"
      /\ In(R, "BODY") <=> In(H, "BODY") \/ t = "body"
      /\ \A f \in FormFlags : In(R, f) <=> In(H, f)
  BY DEF SectionEntered, In, SectionFlag, FormFlags
<1>6. In(H, "HTML") \/ t = "html"
  BY DEF Opens
<1>7. Sections(R) /\ Begun(R)
  BY <1>0, <1>2, <1>3, <1>4, <1>5, <1>6, GrowSection
<1>8. \A k \in 1 .. Depth(H) : Tag(H, k) \in Early
  BY <1>0, <1>2 DEF Sections, Begun, On
<1>9. Above(H, t)
  BY <1>0, <1>8 DEF Above, Early
<1>10. Enters(H, t, FALSE, R)
  BY <1>0, <1>9, Control DEF Enters, Opens
<1>11. Forms(R)
  <2>1. SameInputs(H, R)
    BY DEF SectionEntered
  <2> QED BY <1>5, <1>10, <2>1, EnterPlain
<1>12. Top(R).tag = t /\ ~Top(R).verbatim
  <2>1. PICK v : v = FALSE
    OBVIOUS
  <2>2. Grown(H, t, v, R)
    BY <1>0, <2>1
  <2>3. Top(R).tag = t /\ Top(R).verbatim = v
    BY <1>0, <2>2, GrownOn
  <2> QED BY <2>1, <2>3
<1> QED BY <1>0, <1>7, <1>11, <1>12 DEF Forms, Sound

-----------------------------------------------------------------------------
(***************************************************************************)
(* The open functions of the sections.                                     *)
(***************************************************************************)
\* What the parser knows of a section that was open before.
SectionAgain(H, t, R) ==
  /\ Grown(H, t, Top(H).verbatim, R) /\ SameInputs(H, R) /\ R.ReqTagClose

LEMMA OpenRoot ==
  ASSUME NEW H \in ParserType, NEW t \in {"html", "body"}, NEW attr
  PROVE  LET R == Open(Html_push_tag(H, t), t, attr)
         IN IF H.Num[t] > 0
            THEN /\ SectionAgain(H, t, R) /\ R.Num = H.Num
                 /\ R.InFlags = H.InFlags \cup {SectionFlag[t]}
            ELSE ~Top(H).verbatim => SectionEntered(H, t, R)
<1> DEFINE P == Html_push_tag(H, t)
           X == Raise(P, SectionFlag[t])
           R == Open(P, t, attr)
<1>1. R = OpenOnce(X, t)
  BY DEF Open, SectionFlag
<1>2. t \in Tags /\ SectionFlag[t] \in Flags
  BY DEF Tags, SectionFlag, Flags
<1>3. Grown(H, t, Top(H).verbatim, P) /\ Rest(H, P) /\ P.InFlags = H.InFlags
  BY <1>2, PushFacts
<1> HIDE DEF P
<1>4. P \in ParserType
  BY <1>3 DEF Grown
<1>5. Kept(P, X) /\ Rest(P, X) /\ X.InFlags = H.InFlags \cup {SectionFlag[t]}
  BY <1>2, <1>3, <1>4, RaiseFacts
<1> HIDE DEF X, R
<1>6. X \in ParserType /\ X.Num = H.Num /\ X.Num \in Kinds
  BY <1>3, <1>5, Fields DEF Kept, Rest
<1>7. CASE H.Num[t] > 0
  <2>1. R = [X EXCEPT !.ReqTagClose = TRUE]
    BY <1>1, <1>6, <1>7 DEF OpenOnce
  <2>2. /\ Kept(X, R) /\ R.ReqTagClose /\ R.Num = X.Num /\ R.InFlags = X.InFlags
        /\ SameInputs(X, R)
    BY <2>1, <1>6 DEF ParserType, Kept, Depth, SameInputs
  <2>3. Grown(H, t, Top(H).verbatim, R)
    <3>1. Kept(P, R)
      BY <2>2, <1>5 DEF Kept
    <3> QED BY <3>1, <1>3, GrownKept
  <2>4. SameInputs(H, R)
    BY <2>2, <1>5, <1>3 DEF SameInputs, Rest
  <2> QED BY <1>7, <2>2, <2>3, <2>4, <1>5, <1>6 DEF SectionAgain, R, P
<1>8. CASE ~(H.Num[t] > 0)
  <2>1. R = [X EXCEPT !.Num[t] = 1]
    BY <1>1, <1>6, <1>8 DEF OpenOnce
  <2>2. /\ Kept(X, R) /\ R.ReqTagClose = X.ReqTagClose /\ R.InFlags = X.InFlags
        /\ R.Num = [X.Num EXCEPT ![t] = 1] /\ SameInputs(X, R)
    <3> DEFINE n == [X.Num EXCEPT ![t] = 1]
    <3>1. n \in Kinds
      BY <1>6 DEF Kinds
    <3>2. R = [X EXCEPT !.Num = n]
      BY <2>1, <1>6 DEF ParserType
    <3> HIDE DEF n
    <3>3. /\ Kept(X, R) /\ R.ReqTagClose = X.ReqTagClose /\ R.InFlags = X.InFlags
          /\ R.Num = n /\ SameInputs(X, R)
      BY <3>1, <3>2, <1>6 DEF ParserType, Kept, Depth, SameInputs, Kinds
    <3> QED BY <3>3 DEF n
  <2>3. Grown(H, t, Top(H).verbatim, R)
    <3>1. Kept(P, R)
      BY <2>2, <1>5 DEF Kept
    <3> QED BY <3>1, <1>3, GrownKept
  <2>4. SameInputs(H, R) /\ R.ReqTagClose = H.ReqTagClose
    BY <2>2, <1>5, <1>3 DEF SameInputs, Rest
  <2>5. Top(H).verbatim \in BOOLEAN
    BY <2>3, Fields DEF Grown, Items
  <2> QED BY <1>8, <2>2, <2>3, <2>4, <2>5, <1>5, <1>6 DEF SectionEntered, R, P
<1> QED BY <1>7, <1>8 DEF R, P

LEMMA OpenHead ==
  ASSUME NEW H \in ParserType, NEW attr
  PROVE  LET R == Open(Html_push_tag(H, "head"), "head", attr)
         IN IF In(H, "BODY") \/ In(H, "HEAD") \/ H.Num["head"] > 0
            THEN /\ SectionAgain(H, "head", R) /\ R.InFlags = H.InFlags
                 /\ IF In(H, "BODY") THEN R.Num = H.Num
                    ELSE R.Num = [H.Num EXCEPT !["head"] = IF @ < 2 THEN @ + 1 ELSE @]
            ELSE ~Top(H).verbatim => SectionEntered(H, "head", R)
<1> DEFINE P == Html_push_tag(H, "head")
           C == [P EXCEPT !.Num["head"] = IF @ < 2 THEN @ + 1 ELSE @]
           R == Open(P, "head", attr)
<1>1. R = Html_tag_open_head(P)
  BY DEF Open
<1>2. Grown(H, "head", Top(H).verbatim, P) /\ Rest(H, P) /\ P.InFlags = H.InFlags
  BY PushFacts DEF Tags
<1> HIDE DEF P
<1>3. P \in ParserType /\ P.Num = H.Num /\ P.Num \in Kinds
  BY <1>2, Fields DEF Grown, Rest
<1>4. R = IF In(P, "BODY") THEN [P EXCEPT !.ReqTagClose = TRUE]
          ELSE IF In(C, "HEAD") \/ C.Num["head"] > 1 THEN [C EXCEPT !.ReqTagClose = TRUE]
          ELSE Raise(C, "HEAD")
  BY <1>1 DEF Html_tag_open_head
<1>5. /\ Kept(P, C) /\ C.InFlags = P.InFlags /\ SameInputs(P, C)
      /\ C.ReqTagClose = P.ReqTagClose
      /\ C.Num = [H.Num EXCEPT !["head"] = IF @ < 2 THEN @ + 1 ELSE @]
  <2> DEFINE n == [H.Num EXCEPT !["head"] = IF @ < 2 THEN @ + 1 ELSE @]
  <2>1. n \in Kinds
    BY <1>3 DEF Kinds
  <2>2. C = [P EXCEPT !.Num = n]
    BY <1>3 DEF ParserType
  <2> HIDE DEF n, C
  <2>3. /\ Kept(P, C) /\ C.InFlags = P.InFlags /\ SameInputs(P, C)
        /\ C.ReqTagClose = P.ReqTagClose /\ C.Num = n
    BY <2>1, <2>2, <1>3 DEF ParserType, Kept, Depth, SameInputs, Kinds
  <2> QED BY <2>3 DEF n
<1> HIDE DEF C, R
<1>6. C \in ParserType /\ (In(C, "HEAD") <=> In(H, "HEAD"))
      /\ (C.Num["head"] > 1 <=> H.Num["head"] > 0)
      /\ (In(P, "BODY") <=> In(H, "BODY"))
  BY <1>2, <1>3, <1>5 DEF Kept, In, Kinds
<1>7. CASE In(H, "BODY")
  <2>1. R = [P EXCEPT !.ReqTagClose = TRUE]
    BY <1>4, <1>6, <1>7
  <2>2. /\ Kept(P, R) /\ R.ReqTagClose /\ R.Num = P.Num /\ R.InFlags = P.InFlags
        /\ SameInputs(P, R)
    BY <2>1, <1>3 DEF ParserType, Kept, Depth, SameInputs
  <2>3. Grown(H, "head", Top(H).verbatim, R)
    BY <2>2, <1>2, GrownKept
  <2>4. SameInputs(H, R)
    BY <2>2, <1>2 DEF SameInputs, Rest
  <2> QED BY <1>7, <2>2, <2>3, <2>4, <1>2, <1>3 DEF SectionAgain, R, P
<1>8. CASE ~In(H, "BODY") /\ (In(H, "HEAD") \/ H.Num["head"] > 0)
  <2>1. R = [C EXCEPT !.ReqTagClose = TRUE]
    BY <1>4, <1>6, <1>8
  <2>2. /\ Kept(C, R) /\ R.ReqTagClose /\ R.Num = C.Num /\ R.InFlags = C.InFlags
        /\ SameInputs(C, R)
    BY <2>1, <1>6 DEF ParserType, Kept, Depth, SameInputs
  <2>3. Grown(H, "head", Top(H).verbatim, R)
    <3>1. Kept(P, R)
      BY <2>2, <1>5 DEF Kept
    <3> QED BY <3>1, <1>2, GrownKept
  <2>4. SameInputs(H, R)
    BY <2>2, <1>5, <1>2 DEF SameInputs, Rest
  <2> QED BY <1>8, <2>2, <2>3, <2>4, <1>2, <1>5 DEF SectionAgain, R, P
<1>9. CASE ~In(H, "BODY") /\ ~In(H, "HEAD") /\ ~(H.Num["head"] > 0)
  <2>1. R = Raise(C, "HEAD")
    BY <1>4, <1>6, <1>9
  <2>2. Kept(C, R) /\ Rest(C, R) /\ R.InFlags = C.InFlags \cup {"HEAD"}
    BY <2>1, <1>6, RaiseFacts DEF Flags
  <2>3. Grown(H, "head", Top(H).verbatim, R)
    <3>1. Kept(P, R)
      BY <2>2, <1>5 DEF Kept
    <3> QED BY <3>1, <1>2, GrownKept
  <2>4. SameInputs(H, R) /\ R.ReqTagClose = H.ReqTagClose
    BY <2>2, <1>5, <1>2 DEF SameInputs, Rest
  <2>5. R.Num = [H.Num EXCEPT !["head"] = 1]
    <3>1. H.Num["head"] = 0
      BY <1>3, <1>9 DEF Kinds
    <3> QED BY <3>1, <1>3, <1>5, <2>2 DEF Rest, Kinds
  <2>6. Top(H).verbatim \in BOOLEAN
    BY <2>3, Fields DEF Grown, Items
  <2> QED BY <1>9, <2>2, <2>3, <2>4, <2>5, <2>6, <1>2, <1>5 DEF SectionEntered, SectionFlag, R, P
<1> QED BY <1>7, <1>8, <1>9 DEF R, P

-----------------------------------------------------------------------------
(***************************************************************************)
(* The cleanup of an end tag.                                              *)
(***************************************************************************)
LEMMA CutCloses ==
  ASSUME NEW H, Sound(H), ~H.ReqTagClose, NEW t
  PROVE  LET R == Html_tag_cleanup_at_close(H, t)
         IN /\ Sound(R) /\ Cut(H, R) /\ ~R.ReqTagClose
            /\ ~Top(H).verbatim => ~Top(R).verbatim
<1> DEFINE match == {k \in 1 .. Depth(H) :
                       /\ H.stack[k].tag = t
                       /\ \A j \in k + 1 .. Depth(H) : H.stack[j].tag # t /\ PassedBy(H, j, t)}
           R == Html_tag_cleanup_at_close(H, t)
<1>0. H \in ParserType /\ Depth(H) \in Nat /\ match \in SUBSET (1 .. Depth(H))
  BY Fields DEF Sound
<1>1. R = IF match = {} THEN H ELSE Html_tag_cleanup_to_idx(H, Max(match))
  BY DEF Html_tag_cleanup_at_close
<1> HIDE DEF match, R
<1>2. CASE match = {}
  BY <1>0, <1>1, <1>2, CutSelf DEF R
<1>3. CASE match # {}
  <2>1. PICK k : k = Max(match)
    OBVIOUS
  <2>2. k \in match
    BY <2>1, <1>0, <1>3, MaxPicks
  <2>3. CutTo(H, k, R)
    BY <2>1, <2>2, <1>0, <1>1, <1>3, CleanupCuts
  <2>4. R \in ParserType /\ Depth(R) \in Nat /\ Depth(R) <= Depth(H) /\ ~R.ReqTagClose
    BY <2>3, Fields DEF CutTo, Cut, Rest
  <2> QED BY <2>3, <2>4, <1>0 DEF CutTo, R
<1> QED BY <1>2, <1>3

\* Where the stack is not as deep as the first element that is not inline in
\* the table, the end of the head is found.
LEMMA HeadCloses ==
  ASSUME NEW H, Sound(H), ~H.ReqTagClose, In(H, "HEAD"), Depth(H) < 20
  PROVE  LET R == Html_tag_cleanup_at_close(H, "head")
         IN Sound(R) /\ Cut(H, R) /\ ~R.ReqTagClose /\ ~In(R, "HEAD") /\ ~Top(R).verbatim
<1> DEFINE match == {k \in 1 .. Depth(H) :
                       /\ H.stack[k].tag = "head"
                       /\ \A j \in k + 1 .. Depth(H) :
                            H.stack[j].tag # "head" /\ PassedBy(H, j, "head")}
           R == Html_tag_cleanup_at_close(H, "head")
<1>0. H \in ParserType /\ Depth(H) \in Nat /\ match \in SUBSET (1 .. Depth(H))
  BY Fields DEF Sound
<1>1. PICK p \in 1 .. Depth(H) : Tag(H, p) = "head"
  BY DEF Sound, Sections, On
<1>2. \A j \in 1 .. Depth(H) : Tag(H, j) = "head" => j = p
  BY <1>1 DEF Sound, Sections, Once
<1>3. \A j \in 1 .. Depth(H) : PassedBy(H, j, "head")
  BY <1>0 DEF PassedBy, BlockContainer, NotInlineAt
<1>4. match = {p}
  BY <1>0, <1>1, <1>2, <1>3 DEF Tag
<1>5. Max(match) = p
  <2>1. match # {}
    BY <1>4
  <2> HIDE DEF match
  <2>2. PICK k : k = Max(match)
    OBVIOUS
  <2>3. k \in match
    BY <2>1, <2>2, <1>0, MaxPicks
  <2> QED BY <2>2, <2>3, <1>4
<1>6. R = Html_tag_cleanup_to_idx(H, p)
  BY <1>4, <1>5 DEF Html_tag_cleanup_at_close
<1>7. CutTo(H, p, R)
  BY <1>0, <1>6, CleanupCuts
<1> HIDE DEF R, match
<1>8. R \in ParserType /\ Depth(R) \in Nat /\ Depth(R) <= Depth(H) /\ ~R.ReqTagClose
      /\ Sound(R) /\ Cut(H, R)
  BY <1>7, Fields DEF CutTo, Cut, Rest
<1>9. Depth(R) = p - 1
  <2>1. \A j \in 1 .. Depth(H) : Tag(H, j) # "body"
    BY DEF Sound, Sections, On
  <2> QED BY <2>1, <1>7, <1>8, <1>0 DEF CutTo
<1>10. ~On(R, "head")
  BY <1>2, <1>8, <1>9, <1>0 DEF On, Cut
<1>11. ~In(R, "HEAD")
  BY <1>8, <1>10 DEF Sound, Sections
<1>12. ~Top(R).verbatim
  BY <1>7, <1>9, <1>0 DEF CutTo
<1> QED BY <1>8, <1>11, <1>12 DEF R

-----------------------------------------------------------------------------
(***************************************************************************)
(* The sections that a tag finds, opened or closed for it.                 *)
(***************************************************************************)
\* The parser may take the tag t.
Takes(H, t, isClose) ==
  /\ Sound(H) /\ ~H.ReqTagClose /\ ~In(H, "EOF") /\ isClose \in BOOLEAN
  /\ In(H, "HEAD") => Depth(H) < 20
  /\ Top(H).verbatim => isClose /\ t = Top(H).tag

\* What the tag finds.
Finds(H, t, isClose, S) ==
  /\ Sound(S) /\ ~S.ReqTagClose /\ ~In(S, "EOF")
  /\ \A u : On(S, u) => On(H, u) \/ u \in {"html", "head", "body"}
  /\ ~Top(H).verbatim => ~Top(S).verbatim
  /\ ~isClose =>
       /\ t # "html" => In(S, "HTML")
       /\ t \notin Early \cup {"body", "isindex"} => In(S, "BODY")
       /\ t \in {"title", "script"} => In(S, "BODY") \/ S.Num["head"] > 0
       /\ t = "body" => In(S, "BODY") \/ ~In(S, "HEAD")

\* The section s is opened where its tag was left out.
LEMMA ImplicitSound ==
  ASSUME NEW H, NEW s \in {"html", "head", "body"}, Opens(H, s), ~H.ReqTagClose
  PROVE  LET R == ImplicitOpen(H, s)
         IN /\ SectionEntered(H, s, R) /\ Sound(R) /\ ~R.ReqTagClose /\ ~Top(R).verbatim
            /\ ~In(R, "EOF") /\ In(R, SectionFlag[s])
            /\ \A f \in {"HTML", "HEAD", "BODY"} : In(H, f) => In(R, f)
            /\ \A f \in {"HTML", "HEAD", "BODY"} : In(R, f) => In(H, f) \/ f = SectionFlag[s]
            /\ \A u : On(R, u) => On(H, u) \/ u = s
            /\ s = "head" => R.Num["head"] > 0
<1> DEFINE R == ImplicitOpen(H, s)
<1>0. H \in ParserType /\ H.Num \in Kinds
  BY Fields DEF Opens, Sound
<1>1. R = Open(Html_push_tag(H, s), s, "shown")
  BY DEF ImplicitOpen
<1> HIDE DEF R
<1>2. SectionEntered(H, s, R)
  <2>1. CASE s # "head"
    <3>1. ~(H.Num[s] > 0) /\ ~Top(H).verbatim /\ s \in {"html", "body"}
      BY <2>1, <1>0 DEF Opens, Kinds
    <3> QED BY <3>1, <1>0, <1>1, OpenRoot
  <2>2. CASE s = "head"
    <3>1. ~(H.Num["head"] > 0) /\ ~Top(H).verbatim /\ ~In(H, "BODY") /\ ~In(H, "HEAD")
      BY <2>2, <1>0 DEF Opens, Kinds, SectionFlag
    <3> QED BY <3>1, <2>2, <1>0, <1>1, OpenHead
  <2> QED BY <2>1, <2>2
<1>3. Sound(R) /\ ~Top(R).verbatim
  BY <1>2, SectionSound
<1>4. ~R.ReqTagClose /\ R.InFlags = H.InFlags \cup {SectionFlag[s]}
      /\ R.Num = [H.Num EXCEPT ![s] = 1] /\ Grown(H, s, FALSE, R)
  BY <1>2 DEF SectionEntered
<1>5. SectionFlag[s] \in {"HTML", "HEAD", "BODY"}
  BY DEF SectionFlag
<1>6. /\ ~In(R, "EOF") /\ In(R, SectionFlag[s])
      /\ \A f \in {"HTML", "HEAD", "BODY"} : In(H, f) => In(R, f)
      /\ \A f \in {"HTML", "HEAD", "BODY"} : In(R, f) => In(H, f) \/ f = SectionFlag[s]
  BY <1>4, <1>5 DEF In, Opens
<1>7. \A u : On(R, u) => On(H, u) \/ u = s
  <2>1. PICK v : Grown(H, s, v, R)
    BY <1>4
  <2> QED BY <2>1, <1>0, GrownOn
<1>8. s = "head" => R.Num["head"] > 0
  BY <1>4, <1>0 DEF Kinds
<1> QED BY <1>2, <1>3, <1>4, <1>6, <1>7, <1>8 DEF R

LEMMA SectionOfText ==
  ASSUME NEW H, NEW t, NEW isClose, Takes(H, t, isClose), Top(H).verbatim
  PROVE  Section(H, t, isClose) = H
<1>0. H \in ParserType /\ Depth(H) \in Nat
  BY Fields DEF Takes, Sound
<1>1. Depth(H) > 0
  BY <1>0, NoTop
<1>2. Top(H).tag = Tag(H, Depth(H)) /\ Depth(H) \in 1 .. Depth(H)
  BY <1>0, <1>1, TopIs
<1>3. CASE Top(H).tag = "textarea"
  <2>1. Tag(H, Depth(H)) \notin Early /\ Tag(H, Depth(H)) # "body"
    BY <1>2, <1>3 DEF Early
  <2>2. PICK j \in 1 .. Depth(H) : Tag(H, j) = "body"
    BY <2>1, <1>2 DEF Takes, Sound, Sections
  <2>3. In(H, "BODY")
    <3>1. On(H, "body")
      BY <2>2 DEF On
    <3> QED BY <3>1 DEF Takes, Sound, Begun
  <2> QED BY <2>3 DEF Section
<1>4. CASE Top(H).tag = "script"
  <2>1. On(H, "script") /\ H.stack # <<>>
    <3>1. On(H, "script")
      BY <1>2, <1>4 DEF On
    <3>2. H.stack # <<>>
      BY <1>1 DEF Depth
    <3> QED BY <3>1, <3>2
  <2>2. In(H, "HTML") /\ (In(H, "BODY") \/ H.Num["head"] > 0)
    BY <2>1 DEF Takes, Sound, Begun
  <2>3. t = "script"
    BY <1>4 DEF Takes
  <2>4. CASE In(H, "BODY")
    BY <2>4 DEF Section
  <2>5. CASE ~In(H, "BODY")
    BY <2>2, <2>3, <2>5 DEF Section, Html_test_section, HeadElement
  <2> QED BY <2>4, <2>5
<1> QED BY <1>3, <1>4 DEF Takes, Sound, Verbatim

\* After html was opened, or was not.
LEMMA FindsRoot ==
  ASSUME NEW H, NEW t, NEW isClose, Takes(H, t, isClose), ~Top(H).verbatim
  PROVE  LET root == IF In(H, "HTML") \/ (t = "html" /\ ~isClose) THEN H
                     ELSE ImplicitOpen(H, "html")
         IN /\ Sound(root) /\ ~root.ReqTagClose /\ ~In(root, "EOF") /\ ~Top(root).verbatim
            /\ t # "html" \/ isClose => In(root, "HTML")
            /\ In(root, "HEAD") => Depth(root) < 20
            /\ In(root, "BODY") <=> In(H, "BODY")
            /\ \A u : On(root, u) => On(H, u) \/ u = "html"
<1>1. CASE In(H, "HTML") \/ (t = "html" /\ ~isClose)
  BY <1>1 DEF Takes
<1>2. CASE ~(In(H, "HTML") \/ (t = "html" /\ ~isClose))
  <2>0. H \in ParserType /\ H.Num["html"] \in 0 .. 2
    BY Fields DEF Takes, Sound, Kinds
  <2>1. H.Num["html"] = 0
    BY <2>0, <1>2 DEF Takes, Sound, Begun
  <2>2. Opens(H, "html")
    BY <2>1, <1>2 DEF Opens, Takes, SectionFlag
  <2> DEFINE R == ImplicitOpen(H, "html")
  <2>3. /\ Sound(R) /\ ~R.ReqTagClose /\ ~Top(R).verbatim
        /\ ~In(R, "EOF") /\ In(R, "HTML")
        /\ \A f \in {"HTML", "HEAD", "BODY"} : In(R, f) => In(H, f) \/ f = "HTML"
        /\ \A f \in {"HTML", "HEAD", "BODY"} : In(H, f) => In(R, f)
        /\ \A u : On(R, u) => On(H, u) \/ u = "html"
    BY <2>2, ImplicitSound DEF Takes, SectionFlag
  <2>4. ~In(H, "HEAD")
    <3>1. H.stack = <<>>
      BY <1>2 DEF Takes, Sound, Begun
    <3>2. Depth(H) = 0
      BY <3>1 DEF Depth
    <3> QED BY <3>2, <2>0, NoTop DEF Takes, Sound, Sections
  <2> HIDE DEF R
  <2>5. ~In(R, "HEAD") /\ (In(R, "BODY") <=> In(H, "BODY"))
    BY <2>3, <2>4
  <2> QED BY <2>3, <2>5, <1>2 DEF R
<1> QED BY <1>1, <1>2

LEMMA SectionFinds ==
  ASSUME NEW H, NEW t \in Tags, NEW isClose, Takes(H, t, isClose)
  PROVE  Finds(H, t, isClose, Section(H, t, isClose))
<1> DEFINE root == IF In(H, "HTML") \/ (t = "html" /\ ~isClose) THEN H
                   ELSE ImplicitOpen(H, "html")
           body == IF In(root, "HEAD") THEN Html_tag_cleanup_at_close(root, "head") ELSE root
           S == Section(H, t, isClose)
<1>1. CASE Top(H).verbatim
  <2>1. S = H /\ isClose
    BY <1>1, SectionOfText DEF Takes
  <2> QED BY <2>1, <1>1 DEF Finds, Takes
<1>2. CASE ~Top(H).verbatim /\ In(H, "BODY")
  <2>1. S = H
    BY <1>2 DEF Section
  <2>2. In(H, "HTML")
    <3>1. On(H, "body") /\ H \in ParserType
      BY <1>2 DEF Takes, Sound, Begun
    <3>2. H.stack # <<>>
      BY <3>1 DEF On, Depth
    <3> QED BY <3>2 DEF Takes, Sound, Begun
  <2> QED BY <2>1, <2>2, <1>2 DEF Finds, Takes
<1>3. CASE ~Top(H).verbatim /\ ~In(H, "BODY")
  <2>1. /\ Sound(root) /\ ~root.ReqTagClose /\ ~In(root, "EOF") /\ ~Top(root).verbatim
        /\ t # "html" \/ isClose => In(root, "HTML")
        /\ In(root, "HEAD") => Depth(root) < 20
        /\ ~In(root, "BODY")
        /\ \A u : On(root, u) => On(H, u) \/ u = "html"
    BY <1>3, FindsRoot
  <2> SUFFICES Finds(H, t, isClose, S)
    OBVIOUS
  <2>2. root \in ParserType /\ root.Num["head"] \in 0 .. 2 /\ root.Num["body"] \in 0 .. 2
    BY <2>1, Fields DEF Sound, Kinds
  <2>3. S = IF t \in HeadElement
            THEN IF In(root, "HEAD") \/ root.Num["head"] > 0 \/ (t = "head" /\ ~isClose)
                 THEN root ELSE ImplicitOpen(root, "head")
            ELSE IF t \in BodyElement
            THEN IF t = "body" /\ ~isClose THEN body ELSE ImplicitOpen(body, "body")
            ELSE root
    BY <1>3 DEF Section, Html_test_section
  <2> HIDE DEF root, S
  <2>4. CASE t \in HeadElement /\ (In(root, "HEAD") \/ root.Num["head"] > 0 \/ (t = "head" /\ ~isClose))
    <3>1. S = root
      BY <2>3, <2>4
    <3>2. t \in {"title", "script"} => root.Num["head"] > 0
      <4>1. In(root, "HEAD") => root.Num["head"] = 1
        BY <2>1 DEF Sound, Sections
      <4> QED BY <4>1, <2>2, <2>4
    <3>3. t \in Early \cup {"body", "isindex"} /\ t # "body" /\ t # "html"
      BY <2>4 DEF HeadElement, Early
    <3> QED BY <3>1, <3>2, <3>3, <2>1 DEF Finds
  <2>5. CASE t \in HeadElement /\ ~(In(root, "HEAD") \/ root.Num["head"] > 0 \/ (t = "head" /\ ~isClose))
    <3>1. S = ImplicitOpen(root, "head")
      BY <2>3, <2>5
    <3>2. t \in Early \cup {"body", "isindex"} /\ t # "body" /\ t # "html"
      BY <2>5 DEF HeadElement, Early
    <3>3. Opens(root, "head")
      BY <2>1, <2>2, <2>5, <3>2 DEF Opens, SectionFlag
    <3>4. /\ Sound(S) /\ ~S.ReqTagClose /\ ~Top(S).verbatim /\ ~In(S, "EOF")
          /\ In(root, "HTML") => In(S, "HTML")
          /\ \A u : On(S, u) => On(root, u) \/ u = "head"
          /\ S.Num["head"] > 0
      BY <3>1, <3>3, <2>1, ImplicitSound
    <3> QED BY <3>2, <3>4, <2>1 DEF Finds
  <2>6. CASE t \notin HeadElement /\ t \in BodyElement
    <3>0. t # "html"
      BY <2>6 DEF BodyElement
    <3>1. /\ Sound(body) /\ ~body.ReqTagClose /\ ~In(body, "EOF") /\ ~Top(body).verbatim
          /\ In(body, "HTML") /\ ~In(body, "HEAD") /\ ~In(body, "BODY")
          /\ \A u : On(body, u) => On(root, u)
          /\ body.Num["body"] \in 0 .. 2
      <4>1. CASE In(root, "HEAD")
        <5>1. /\ Sound(body) /\ Cut(root, body) /\ ~body.ReqTagClose /\ ~In(body, "HEAD")
              /\ ~Top(body).verbatim
          BY <4>1, <2>1, HeadCloses
        <5> HIDE DEF body
        <5>2. Depth(root) \in Nat /\ Depth(body) \in Nat /\ Depth(body) <= Depth(root)
          BY <5>1, <2>2, Fields DEF Cut
        <5>3. \A u : On(body, u) => On(root, u)
          BY <5>1, <5>2 DEF On, Cut
        <5>4. body.Num = root.Num /\ \A f \in {"EOF", "HTML", "BODY"} : In(body, f) <=> In(root, f)
          BY <5>1 DEF Cut, Rest
        <5> QED BY <5>1, <5>3, <5>4, <2>1, <2>2, <3>0
      <4>2. CASE ~In(root, "HEAD")
        BY <4>2, <2>1, <2>2, <3>0
      <4> QED BY <4>1, <4>2
    <3> HIDE DEF body
    <3>2. CASE t = "body" /\ ~isClose
      <4>1. S = body
        BY <2>3, <2>6, <3>2
      <4> QED BY <4>1, <3>1, <3>2, <2>1 DEF Finds
    <3>3. CASE ~(t = "body" /\ ~isClose)
      <4>1. S = ImplicitOpen(body, "body")
        BY <2>3, <2>6, <3>3
      <4>2. body.Num["body"] = 0
        BY <3>1 DEF Sound, Begun
      <4>3. Opens(body, "body")
        BY <3>1, <4>2 DEF Opens, SectionFlag
      <4>4. /\ Sound(S) /\ ~S.ReqTagClose /\ ~Top(S).verbatim /\ ~In(S, "EOF")
            /\ In(S, "HTML") /\ In(S, "BODY")
            /\ \A u : On(S, u) => On(body, u) \/ u = "body"
        BY <4>1, <4>3, <3>1, ImplicitSound DEF SectionFlag
      <4> QED BY <4>4, <3>1, <2>1 DEF Finds
    <3> QED BY <3>2, <3>3
  <2>7. CASE t \notin HeadElement /\ t \notin BodyElement
    <3>1. t = "html"
      BY <2>7 DEF HeadElement, BodyElement
    <3>2. S = root
      BY <2>3, <2>7
    <3> QED BY <3>1, <3>2, <2>1 DEF Finds, Early
  <2> QED BY <2>4, <2>5, <2>6, <2>7
<1> QED BY <1>1, <1>2, <1>3

-----------------------------------------------------------------------------
(***************************************************************************)
(* The element that is closed at once: the stack is what it was.           *)
(***************************************************************************)
\* R has the stack and the flags of H.
Back(H, R) ==
  /\ R \in ParserType /\ Depth(R) = Depth(H) /\ R.InFlags = H.InFlags
  /\ \A k \in 1 .. Depth(H) : R.stack[k] = H.stack[k] /\ Tag(R, k) = Tag(H, k)

LEMMA BackSound ==
  ASSUME NEW H, Sound(H), ~Top(H).verbatim, NEW R, Back(H, R),
         \A s \in {"html", "body"} : R.Num[s] > 0 <=> H.Num[s] > 0,
         H.Num["head"] > 0 => R.Num["head"] > 0,
         In(H, "HEAD") => R.Num["head"] = 1,
         In(H, "SELECT") => Html_get_current_input(R) = Html_get_current_input(H)
  PROVE  Sound(R) /\ ~Top(R).verbatim /\ \A u : On(R, u) <=> On(H, u)
<1>0. H \in ParserType /\ R \in ParserType /\ Depth(H) \in Nat /\ Depth(R) = Depth(H)
  BY Fields DEF Sound, Back
<1>1. \A f : In(R, f) <=> In(H, f)
  BY DEF Back, In
<1>2. /\ \A u : On(R, u) <=> On(H, u)
      /\ \A u : Once(R, u) <=> Once(H, u)
  BY <1>0 DEF Back, On, Once
<1>3. \A k \in 1 .. Depth(R) : Tag(R, k) = Tag(H, k) /\ R.stack[k] = H.stack[k]
                               /\ \A j \in 1 .. k : Tag(R, j) = Tag(H, j)
  BY <1>0 DEF Back
<1>4. Sections(R)
  <2>1. \A u \in {"html", "head", "body"} : Once(R, u)
    BY <1>2 DEF Sound, Sections
  <2>2. \A k \in 1 .. Depth(R) : Tag(R, k) \in Early \/ \E j \in 1 .. k : Tag(R, j) = "body"
    BY <1>0, <1>3 DEF Sound, Sections
  <2>3. /\ In(R, "HEAD") <=> On(R, "head")
        /\ In(R, "HEAD") => R.Num["head"] = 1 /\ ~On(R, "body")
    BY <1>1, <1>2 DEF Sound, Sections
  <2> QED BY <2>1, <2>2, <2>3 DEF Sections
<1>5. Begun(R)
  <2>1. R.stack # <<>> => H.stack # <<>>
    <3>1. CASE Depth(H) = 0
      BY <3>1, <1>0, NoTop
    <3>2. CASE Depth(H) # 0
      BY <3>2 DEF Depth
    <3> QED BY <3>1, <3>2
  <2> QED BY <2>1, <1>1, <1>2 DEF Sound, Begun
<1>6. Apart(R)
  BY <1>1, <1>2 DEF Sound, Apart
<1>7. Options(R)
  <2>1. /\ \A k \in 1 .. Depth(R) : Tag(R, k) = "option" => k = Depth(R)
        /\ \A k \in 1 .. Depth(R) : Tag(R, k) = "optgroup" =>
             k = Depth(R) \/ (k + 1 = Depth(R) /\ Tag(R, k + 1) = "option")
    BY <1>0, <1>3 DEF Sound, Options
  <2> QED BY <2>1, <1>1, <1>2 DEF Sound, Options
<1>8. ~Top(R).verbatim
  <2>1. CASE Depth(H) = 0
    BY <2>1, <1>0, NoTop
  <2>2. CASE Depth(H) > 0
    <3>1. Top(R) = R.stack[Depth(R)] /\ Top(H) = H.stack[Depth(H)] /\ Depth(H) \in 1 .. Depth(R)
      BY <2>2, <1>0, TopIs
    <3> QED BY <3>1, <1>0, <1>3
  <2> QED BY <1>0, <2>1, <2>2
<1>9. Verbatim(R)
  BY <1>0, <1>3, <1>8 DEF Sound, Verbatim
<1> QED BY <1>0, <1>2, <1>4, <1>5, <1>6, <1>7, <1>8, <1>9 DEF Sound

\* The request to close is for the top.
LEMMA EndTop ==
  ASSUME NEW X \in Regular, Depth(X) > 0, X.ReqTagClose, NEW t, Tag(X, Depth(X)) = t
  PROVE  EndNow(X, t) = [Pop(X) EXCEPT !.ReqTagClose = FALSE]
<1> DEFINE d == Depth(X)
           match == {k \in 1 .. d :
                       /\ X.stack[k].tag = t
                       /\ \A j \in k + 1 .. d : X.stack[j].tag # t /\ PassedBy(X, j, t)}
           held == {j \in d .. d : /\ X.stack[j].tag = "body"
                                   /\ ~In(X, "EOF") /\ ~X.ReqTagClose}
<1>0. X \in ParserType /\ d \in Nat /\ d \in 1 .. d
  BY Fields DEF Regular
<1>1. match = {d}
  <2>1. d \in match
    BY <1>0 DEF Tag
  <2>2. \A k \in match : k = d
    <3> SUFFICES ASSUME NEW k \in match, k # d PROVE FALSE
      OBVIOUS
    <3>1. d \in k + 1 .. d
      BY <1>0
    <3> QED BY <3>1 DEF Tag
  <2> QED BY <2>1, <2>2
<1> DEFINE one == {d}
<1>2. Max(one) = d
  <2>1. one \in SUBSET (1 .. d) /\ one # {}
    BY <1>0
  <2>2. PICK m : m = Max(one)
    OBVIOUS
  <2> HIDE DEF one
  <2>3. m \in one
    BY <2>1, <2>2, <1>0, MaxPicks
  <2> QED BY <2>2, <2>3 DEF one
<1>3. Html_tag_cleanup_at_close(X, t) = Html_tag_cleanup_to_idx(X, d)
  BY <1>1, <1>2 DEF Html_tag_cleanup_at_close
<1>4. {d} \cup {j + 1 : j \in held} = one
  OBVIOUS
<1>5. Html_tag_cleanup_to_idx(X, d) = PopTo(X, d)
  BY <1>2, <1>4 DEF Html_tag_cleanup_to_idx
<1> HIDE DEF match, held, one
<1>6. PopTo(X, d) = Pop(X)
  <2>1. PICK g : Pops(g, X) /\ PopTo(X, d) = IF d > Depth(X) THEN X ELSE g[Depth(X) + 1 - d]
    BY PopToDef
  <2>2. ~(d > Depth(X)) /\ Depth(X) + 1 - d = 0 + 1
    BY <1>0
  <2>3. g[0 + 1] = Pop(g[0]) /\ g[0] = X
    BY <2>1 DEF Pops
  <2> QED BY <2>1, <2>2, <2>3
<1> QED BY <1>3, <1>5, <1>6 DEF EndNow

LEMMA Unrequested ==
  ASSUME NEW X \in ParserType
  PROVE  LET R == [X EXCEPT !.ReqTagClose = FALSE]
         IN Kept(X, R) /\ R.InFlags = X.InFlags /\ SameInputs(X, R) /\ R.Num = X.Num /\ ~R.ReqTagClose
BY DEF ParserType, Kept, Depth, SameInputs

LEMMA Requested ==
  ASSUME NEW X \in ParserType
  PROVE  LET R == [X EXCEPT !.ReqTagClose = TRUE]
         IN Kept(X, R) /\ R.InFlags = X.InFlags /\ SameInputs(X, R) /\ R.Num = X.Num /\ R.ReqTagClose
BY DEF ParserType, Kept, Depth, SameInputs

\* What is left of an element of no flag of its own: its counters and inputs.
LEMMA EndFacts ==
  ASSUME NEW H \in ParserType, NEW t \in {"html", "head", "body", "hr", "input", "isindex"},
         NEW v, NEW X, Grown(H, t, v, X), X.InFlags = H.InFlags, X.ReqTagClose,
         In(X, "HEAD") => X.Num["head"] = IF t = "head" THEN 2 ELSE 1
  PROVE  LET R == EndNow(X, t)
         IN /\ Back(H, R) /\ ~R.ReqTagClose /\ SameInputs(X, R)
            /\ R.Num = IF In(X, "HEAD") /\ t = "head" THEN [X.Num EXCEPT !["head"] = 1] ELSE X.Num
<1> DEFINE Q == Pop(X)
           R == EndNow(X, t)
<1>0. /\ X \in ParserType /\ X \in Regular /\ Depth(H) \in Nat
      /\ Depth(X) = Depth(H) + 1 /\ Depth(X) > 0 /\ Tag(X, Depth(X)) = t
  BY Fields DEF Grown, Regular
<1>1. R = [Q EXCEPT !.ReqTagClose = FALSE]
  BY <1>0, EndTop
<1>2. /\ Q \in ParserType /\ Depth(Q) = Depth(X) - 1
      /\ \A k \in 1 .. Depth(Q) : Q.stack[k] = X.stack[k] /\ Tag(Q, k) = Tag(X, k)
      /\ Q.InFlags = X.InFlags /\ SameInputs(X, Q)
      /\ Q.Num = IF In(X, "HEAD") /\ t = "head" THEN [X.Num EXCEPT !["head"] = 1] ELSE X.Num
  <2>1. CASE In(X, "HEAD") /\ t = "head"
    <3>1. HeadInHead(X)
      BY <2>1, <1>0 DEF HeadInHead
    <3> QED BY <3>1, <2>1, PopHead DEF SameInputs
  <2>2. CASE ~(In(X, "HEAD") /\ t = "head")
    <3>1. Popped(X, Q)
      BY <2>2, <1>0, PopFacts
    <3>2. X.InFlags \ Lowered(X, t) = X.InFlags
      BY <2>2 DEF Lowered, In
    <3> QED BY <3>1, <3>2, <2>2, <1>0 DEF Popped, Rest, SameInputs
  <2> QED BY <2>1, <2>2
<1> HIDE DEF Q
<1>3. /\ Kept(Q, R) /\ R.InFlags = Q.InFlags /\ SameInputs(Q, R) /\ R.Num = Q.Num
      /\ ~R.ReqTagClose
  BY <1>1, <1>2, Unrequested
<1> HIDE DEF R
<1>4. Back(H, R)
  <2>1. R \in ParserType /\ R.stack = Q.stack /\ Depth(R) = Depth(H) /\ R.InFlags = H.InFlags
    BY <1>0, <1>2, <1>3 DEF Kept
  <2>2. \A k \in 1 .. Depth(H) : Q.stack[k] = H.stack[k] /\ Tag(Q, k) = Tag(H, k)
    BY <1>0, <1>2 DEF Grown
  <2> QED BY <2>1, <2>2 DEF Back, Tag
<1>5. SameInputs(X, R)
  BY <1>2, <1>3 DEF SameInputs
<1> QED BY <1>2, <1>3, <1>4, <1>5 DEF R

-----------------------------------------------------------------------------
(***************************************************************************)
(* A start tag.  C is the state in which the element is pushed.            *)
(***************************************************************************)
Place(C, t) ==
  /\ Sound(C) /\ ~C.ReqTagClose /\ ~In(C, "EOF") /\ ~Top(C).verbatim
  /\ t \in ControlTags => NoControl(C)
  /\ t # "hr" => Above(C, t)
  /\ t # "html" => In(C, "HTML")
  /\ t \notin Early \cup {"body", "isindex"} => In(C, "BODY")
  /\ t \in {"title", "script"} => In(C, "BODY") \/ C.Num["head"] > 0
  /\ t = "body" => In(C, "BODY") \/ ~In(C, "HEAD")

\* R is as it has to be after the tag.
Placed(C, t, R) ==
  /\ Sound(R) /\ ~R.ReqTagClose
  /\ \A u : On(R, u) => On(C, u) \/ u = t

LEMMA PlaceFound ==
  ASSUME NEW H, NEW t \in Tags, Takes(H, t, FALSE)
  PROVE  LET C == Html_stack_cleanup_at_open(Section(H, t, FALSE), t)
         IN Place(C, t) /\ \A u : On(C, u) => On(H, u) \/ u \in {"html", "head", "body"}
<1> DEFINE S == Section(H, t, FALSE)
           C == Html_stack_cleanup_at_open(S, t)
<1>1. PICK no : no = FALSE
  OBVIOUS
<1>2. Finds(H, t, no, Section(H, t, no)) /\ Takes(H, t, no)
  <2>1. Takes(H, t, no)
    BY <1>1
  <2> QED BY <2>1, SectionFinds
<1>3. Finds(H, t, no, S)
  BY <1>1, <1>2
<1>4. ~Top(H).verbatim
  BY <1>1, <1>2 DEF Takes
<1> HIDE DEF S
<1>5. CutOpen(S, t, C)
  BY <1>3, CutOpens DEF Finds
<1> HIDE DEF C
<1>6. /\ \A f \in {"EOF", "HTML", "BODY"} : In(C, f) <=> In(S, f)
      /\ C.Num = S.Num /\ C.ReqTagClose = S.ReqTagClose
      /\ In(C, "HEAD") => In(S, "HEAD")
  BY <1>5 DEF CutOpen, Cut, Rest, In
<1>7. Place(C, t)
  BY <1>1, <1>3, <1>4, <1>5, <1>6 DEF Place, Finds, CutOpen
<1>8. \A u : On(C, u) => On(S, u)
  <2>1. Depth(C) \in Nat /\ Depth(S) \in Nat /\ Depth(C) <= Depth(S)
    BY <1>3, <1>5, Fields DEF Finds, CutOpen, Cut, Sound
  <2> QED BY <2>1, <1>5 DEF On, CutOpen, Cut
<1> QED BY <1>3, <1>7, <1>8 DEF Finds, C, S

LEMMA DisplayOf ==
  ASSUME NEW C \in ParserType, NEW t, t # "textarea", NEW v, NEW X, Grown(C, t, v, X), NEW attr
  PROVE  LET D == Display(X, t, attr)
         IN Grown(C, t, v, D) /\ D.InFlags = X.InFlags /\ Rest(X, D)
<1>1. CASE attr = "hidden"
  <2>1. Display(X, t, attr) = Undisplayed(X)
    BY <1>1 DEF Display, Undisplayed
  <2> QED BY <2>1, GrownUndisplayed
<1>2. CASE attr # "hidden"
  <2>1. Display(X, t, attr) = X
    BY <1>2 DEF Display
  <2> QED BY <2>1 DEF Rest
<1> QED BY <1>1, <1>2

LEMMA AddInput ==
  ASSUME NEW X \in ParserType, NEW kind \in Inputs
  PROVE  LET R == Html_add_input(X, kind)
         IN /\ Kept(X, R) /\ R.InFlags = X.InFlags /\ R.Num = X.Num
            /\ R.ReqTagClose = X.ReqTagClose /\ Html_get_current_input(R) = kind
<1> DEFINE R == Html_add_input(X, kind)
<1>1. CASE In(X, "FORM")
  <2>1. R = [X EXCEPT !.form = kind]
    BY <1>1 DEF Html_add_input
  <2> HIDE DEF R
  <2>2. /\ Kept(X, R) /\ R.InFlags = X.InFlags /\ R.Num = X.Num
        /\ R.ReqTagClose = X.ReqTagClose /\ R.form = kind
    BY <2>1 DEF ParserType, Kept, Depth
  <2> QED BY <2>2, <1>1 DEF Html_get_current_input, In, R
<1>2. CASE ~In(X, "FORM")
  <2>1. R = [X EXCEPT !.outside = kind]
    BY <1>2 DEF Html_add_input
  <2> HIDE DEF R
  <2>2. /\ Kept(X, R) /\ R.InFlags = X.InFlags /\ R.Num = X.Num
        /\ R.ReqTagClose = X.ReqTagClose /\ R.outside = kind
    BY <2>1 DEF ParserType, Kept, Depth
  <2> QED BY <2>2, <1>2 DEF Html_get_current_input, In, R
<1> QED BY <1>1, <1>2

-----------------------------------------------------------------------------
(***************************************************************************)
(* Sections and elements without an end.                                   *)
(***************************************************************************)
Popping == {"hr", "input", "isindex"}

\* The element is gone again, and nothing has changed that matters.
LEMMA PlaceBack ==
  ASSUME NEW C, NEW t, Place(C, t), NEW R, Back(C, R), ~R.ReqTagClose,
         \A s \in {"html", "body"} : R.Num[s] > 0 <=> C.Num[s] > 0,
         C.Num["head"] > 0 => R.Num["head"] > 0,
         In(C, "HEAD") => R.Num["head"] = 1,
         In(C, "SELECT") => Html_get_current_input(R) = Html_get_current_input(C)
  PROVE  Placed(C, t, R)
<1>1. Sound(R) /\ \A u : On(R, u) <=> On(C, u)
  BY BackSound DEF Place
<1> QED BY <1>1 DEF Placed

\* What the tag makes of C, when the request to close is for the element.
Ending(D, t) ==
  IF t \in ForbiddenEnd THEN EndNow([D EXCEPT !.ReqTagClose = TRUE], t)
  ELSE IF D.ReqTagClose THEN EndNow(D, t)
  ELSE D

LEMMA PlacedRoot ==
  ASSUME NEW C, NEW t \in {"html", "body"}, Place(C, t), NEW attr
  PROVE  Placed(C, t, Ending(Display(Open(Html_push_tag(C, t), t, attr), t, attr), t))
<1> DEFINE X == Open(Html_push_tag(C, t), t, attr)
           D == Display(X, t, attr)
<1>0. C \in ParserType /\ C.Num \in Kinds /\ t \notin ForbiddenEnd /\ t # "textarea"
  BY Fields DEF Place, Sound, ForbiddenEnd
<1>1. IF C.Num[t] > 0
      THEN /\ SectionAgain(C, t, X) /\ X.Num = C.Num
           /\ X.InFlags = C.InFlags \cup {SectionFlag[t]}
      ELSE ~Top(C).verbatim => SectionEntered(C, t, X)
  BY <1>0, OpenRoot
<1>2. In(C, SectionFlag[t]) <=> C.Num[t] > 0
  BY DEF Place, Sound, Begun, SectionFlag
<1> HIDE DEF X
<1>3. CASE C.Num[t] > 0
  <2>1. SectionAgain(C, t, X) /\ X.Num = C.Num /\ X.InFlags = C.InFlags
    BY <1>1, <1>2, <1>3 DEF In
  <2>2. /\ Grown(C, t, Top(C).verbatim, D) /\ D.InFlags = C.InFlags /\ D.Num = C.Num
        /\ D.ReqTagClose /\ SameInputs(C, D)
    <3>1. Grown(C, t, Top(C).verbatim, X)
      BY <2>1 DEF SectionAgain
    <3>2. Grown(C, t, Top(C).verbatim, D) /\ D.InFlags = X.InFlags /\ Rest(X, D)
      BY <3>1, <1>0, DisplayOf
    <3> QED BY <3>2, <2>1 DEF SectionAgain, Rest, SameInputs
  <2> HIDE DEF D
  <2>3. In(D, "HEAD") => D.Num["head"] = 1
    BY <2>2 DEF Place, Sound, Sections, In
  <2> DEFINE R == EndNow(D, t)
  <2>4. Back(C, R) /\ ~R.ReqTagClose /\ SameInputs(D, R) /\ R.Num = D.Num
    <3>1. t # "head"
      OBVIOUS
    <3> QED BY <2>2, <2>3, <3>1, <1>0, EndFacts
  <2> HIDE DEF R
  <2>5. R.Num = C.Num /\ Html_get_current_input(R) = Html_get_current_input(C)
    BY <2>2, <2>4 DEF Html_get_current_input, SameInputs, Back, In
  <2>6. Placed(C, t, R)
    <3>1. In(C, "HEAD") => C.Num["head"] = 1
      BY DEF Place, Sound, Sections
    <3> QED BY <2>4, <2>5, <3>1, PlaceBack
  <2> QED BY <2>2, <2>6, <1>0 DEF Ending, R, D, X
<1>4. CASE ~(C.Num[t] > 0)
  <2>1. SectionEntered(C, t, X)
    BY <1>1, <1>4 DEF Place
  <2>2. SectionEntered(C, t, D)
    <3>1. Grown(C, t, FALSE, X)
      BY <2>1 DEF SectionEntered
    <3>2. Grown(C, t, FALSE, D) /\ D.InFlags = X.InFlags /\ Rest(X, D)
      BY <3>1, <1>0, DisplayOf
    <3> QED BY <3>2, <2>1 DEF SectionEntered, Rest, SameInputs
  <2> HIDE DEF D
  <2>3. Opens(C, t)
    <3>1. C.Num[t] = 0
      BY <1>0, <1>4 DEF Kinds
    <3> QED BY <3>1, <1>2 DEF Opens, Place, SectionFlag
  <2>4. Sound(D)
    BY <2>2, <2>3, SectionSound
  <2>5. ~D.ReqTagClose
    BY <2>2 DEF SectionEntered, Place
  <2>6. \A u : On(D, u) => On(C, u) \/ u = t
    <3>1. PICK v : Grown(C, t, v, D)
      BY <2>2 DEF SectionEntered
    <3> QED BY <3>1, <1>0, GrownOn
  <2> QED BY <2>4, <2>5, <2>6, <1>0 DEF Ending, Placed, D, X
<1> QED BY <1>3, <1>4

LEMMA PlacedHead ==
  ASSUME NEW C, Place(C, "head"), NEW attr
  PROVE  Placed(C, "head", Ending(Display(Open(Html_push_tag(C, "head"), "head", attr), "head", attr), "head"))
<1> DEFINE X == Open(Html_push_tag(C, "head"), "head", attr)
           D == Display(X, "head", attr)
           again == In(C, "BODY") \/ In(C, "HEAD") \/ C.Num["head"] > 0
<1>0. C \in ParserType /\ C.Num \in Kinds /\ "head" \notin ForbiddenEnd /\ "head" # "textarea"
  BY Fields DEF Place, Sound, ForbiddenEnd
<1>1. IF again
      THEN /\ SectionAgain(C, "head", X) /\ X.InFlags = C.InFlags
           /\ IF In(C, "BODY") THEN X.Num = C.Num
              ELSE X.Num = [C.Num EXCEPT !["head"] = IF @ < 2 THEN @ + 1 ELSE @]
      ELSE ~Top(C).verbatim => SectionEntered(C, "head", X)
  BY <1>0, OpenHead
<1>2. In(C, "HEAD") => C.Num["head"] = 1
  BY DEF Place, Sound, Sections
<1> HIDE DEF X
<1>3. CASE again
  <2>1. SectionAgain(C, "head", X) /\ X.InFlags = C.InFlags
    BY <1>1, <1>3
  <2>2. X.Num = [C.Num EXCEPT !["head"] = X.Num["head"]]
        /\ (C.Num["head"] > 0 => X.Num["head"] > 0)
        /\ (In(C, "HEAD") => X.Num["head"] = 2)
    <3>1. CASE In(C, "BODY")
      <4>1. X.Num = C.Num
        BY <1>1, <1>3, <3>1
      <4>2. ~In(C, "HEAD")
        BY <3>1 DEF Place, Sound, Sections, Begun
      <4> QED BY <4>1, <4>2, <1>0 DEF Kinds
    <3>2. CASE ~In(C, "BODY")
      <4>1. X.Num = [C.Num EXCEPT !["head"] = IF @ < 2 THEN @ + 1 ELSE @]
        BY <1>1, <1>3, <3>2
      <4> QED BY <4>1, <1>0, <1>2 DEF Kinds
    <3> QED BY <3>1, <3>2
  <2>3. /\ Grown(C, "head", Top(C).verbatim, D) /\ D.InFlags = C.InFlags /\ D.Num = X.Num
        /\ D.ReqTagClose /\ SameInputs(C, D)
    <3>1. Grown(C, "head", Top(C).verbatim, X)
      BY <2>1 DEF SectionAgain
    <3>2. Grown(C, "head", Top(C).verbatim, D) /\ D.InFlags = X.InFlags /\ Rest(X, D)
      BY <3>1, <1>0, DisplayOf
    <3> QED BY <3>2, <2>1 DEF SectionAgain, Rest, SameInputs
  <2> HIDE DEF D
  <2>4. In(D, "HEAD") <=> In(C, "HEAD")
    BY <2>3 DEF In
  <2> DEFINE R == EndNow(D, "head")
  <2>5. Back(C, R) /\ ~R.ReqTagClose /\ SameInputs(D, R)
        /\ R.Num = IF In(C, "HEAD") THEN [X.Num EXCEPT !["head"] = 1] ELSE X.Num
    <3>1. In(D, "HEAD") => D.Num["head"] = 2
      BY <2>2, <2>3, <2>4
    <3> QED BY <2>3, <2>4, <3>1, <1>0, EndFacts
  <2> HIDE DEF R
  <2>6. Html_get_current_input(R) = Html_get_current_input(C)
    BY <2>3, <2>5 DEF Html_get_current_input, SameInputs, Back, In
  <2>7. /\ \A s \in {"html", "body"} : R.Num[s] = C.Num[s]
        /\ C.Num["head"] > 0 => R.Num["head"] > 0
        /\ In(C, "HEAD") => R.Num["head"] = 1
    BY <2>2, <2>5, <1>0 DEF Kinds
  <2>8. Placed(C, "head", R)
    BY <2>5, <2>6, <2>7, PlaceBack
  <2> QED BY <2>3, <2>8, <1>0 DEF Ending, R, D, X
<1>4. CASE ~again
  <2>1. SectionEntered(C, "head", X)
    BY <1>1, <1>4 DEF Place
  <2>2. SectionEntered(C, "head", D)
    <3>1. Grown(C, "head", FALSE, X)
      BY <2>1 DEF SectionEntered
    <3>2. Grown(C, "head", FALSE, D) /\ D.InFlags = X.InFlags /\ Rest(X, D)
      BY <3>1, <1>0, DisplayOf
    <3> QED BY <3>2, <2>1 DEF SectionEntered, Rest, SameInputs
  <2> HIDE DEF D
  <2>3. Opens(C, "head")
    <3>1. C.Num["head"] = 0
      BY <1>0, <1>4 DEF Kinds
    <3> QED BY <3>1, <1>4 DEF Opens, Place, SectionFlag
  <2>4. Sound(D)
    BY <2>2, <2>3, SectionSound
  <2>5. ~D.ReqTagClose
    BY <2>2 DEF SectionEntered, Place
  <2>6. \A u : On(D, u) => On(C, u) \/ u = "head"
    <3>1. PICK v : Grown(C, "head", v, D)
      BY <2>2 DEF SectionEntered
    <3> QED BY <3>1, <1>0, GrownOn
  <2> QED BY <2>4, <2>5, <2>6, <1>0 DEF Ending, Placed, D, X
<1> QED BY <1>3, <1>4

LEMMA PlacedPopping ==
  ASSUME NEW C, NEW t \in Popping, Place(C, t), NEW attr
  PROVE  Placed(C, t, Ending(Display(Open(Html_push_tag(C, t), t, attr), t, attr), t))
<1> DEFINE P == Html_push_tag(C, t)
           X == Open(P, t, attr)
           D == Display(X, t, attr)
           E == [D EXCEPT !.ReqTagClose = TRUE]
           R == EndNow(E, t)
<1>0. C \in ParserType /\ t \in ForbiddenEnd /\ t \in Tags /\ t # "textarea"
      /\ "other" \in Inputs
  BY DEF Place, Sound, ForbiddenEnd, Tags, Popping, Inputs
<1>1. Grown(C, t, Top(C).verbatim, P) /\ Rest(C, P) /\ P.InFlags = C.InFlags
  BY <1>0, PushFacts
<1> HIDE DEF P
<1>2. P \in ParserType /\ Kept(P, P)
  BY <1>1, Fields DEF Grown, Kept
<1>3. /\ Kept(P, X) /\ X.InFlags = P.InFlags /\ X.Num = P.Num
      /\ In(C, "SELECT") => Html_get_current_input(X) = Html_get_current_input(C)
  <2>0. Html_get_current_input(P) = Html_get_current_input(C)
    BY <1>1 DEF Html_get_current_input, In, Rest
  <2>1. CASE t = "hr"
    <3>1. X = P
      BY <2>1 DEF Open
    <3> QED BY <3>1, <2>0, <1>2
  <2>2. CASE t = "input"
    <3>1. X = Html_tag_open_input(P, attr)
      BY <2>2 DEF Open
    <3>2. CASE In(P, "SELECT") \/ In(P, "BUTTON") \/ attr = "unknown"
      <4>1. X = P
        BY <3>1, <3>2 DEF Html_tag_open_input
      <4> QED BY <4>1, <2>0, <1>2
    <3>3. CASE ~(In(P, "SELECT") \/ In(P, "BUTTON") \/ attr = "unknown")
      <4>1. X = Html_add_input(P, "other")
        BY <3>1, <3>3 DEF Html_tag_open_input
      <4>2. ~In(C, "SELECT")
        BY <3>3, <1>1 DEF In
      <4> HIDE DEF X
      <4> QED BY <4>1, <4>2, <1>0, <1>2, AddInput
    <3> QED BY <3>2, <3>3
  <2>3. CASE t = "isindex"
    <3>1. X = Html_tag_open_isindex(P)
      BY <2>3 DEF Open
    <3>2. CASE In(P, "FORM")
      <4>1. X = P
        BY <3>1, <3>2 DEF Html_tag_open_isindex
      <4> QED BY <4>1, <2>0, <1>2
    <3>3. CASE ~In(P, "FORM")
      <4>1. X = [P EXCEPT !.form = "other"]
        BY <3>1, <3>3 DEF Html_tag_open_isindex
      <4> HIDE DEF X
      <4>2. Kept(P, X) /\ X.InFlags = P.InFlags /\ X.Num = P.Num /\ X.outside = P.outside
        BY <4>1, <1>0, <1>2 DEF ParserType, Kept, Depth
      <4>3. Html_get_current_input(X) = Html_get_current_input(P)
        BY <4>2, <3>3 DEF Html_get_current_input, In
      <4> QED BY <4>2, <4>3, <2>0
    <3> QED BY <3>2, <3>3
  <2> QED BY <2>1, <2>2, <2>3 DEF Popping
<1> HIDE DEF X
<1>4. Grown(C, t, Top(C).verbatim, X)
  BY <1>1, <1>3, GrownKept
<1>5. Grown(C, t, Top(C).verbatim, D) /\ D.InFlags = X.InFlags /\ Rest(X, D)
  BY <1>0, <1>4, DisplayOf
<1> HIDE DEF D
<1>6. /\ Kept(D, E) /\ E.InFlags = D.InFlags /\ SameInputs(D, E) /\ E.Num = D.Num
      /\ E.ReqTagClose
  <2>1. D \in ParserType
    BY <1>5 DEF Grown
  <2> QED BY <2>1, Requested
<1> HIDE DEF E
<1>7. /\ Grown(C, t, Top(C).verbatim, E) /\ E.InFlags = C.InFlags /\ E.Num = C.Num
      /\ SameInputs(X, E)
  <2>1. Grown(C, t, Top(C).verbatim, E)
    BY <1>5, <1>6, GrownKept
  <2> QED BY <2>1, <1>1, <1>3, <1>5, <1>6 DEF Rest, SameInputs
<1>8. /\ Back(C, R) /\ ~R.ReqTagClose /\ SameInputs(E, R) /\ R.Num = E.Num
  <2>1. (In(E, "HEAD") => E.Num["head"] = 1) /\ t # "head"
    BY <1>7 DEF Place, Sound, Sections, In, Popping
  <2>2. t \in {"html", "head", "body", "hr", "input", "isindex"}
    BY DEF Popping
  <2> QED BY <2>1, <2>2, <1>0, <1>6, <1>7, EndFacts
<1> HIDE DEF R
<1>9. In(C, "SELECT") => Html_get_current_input(R) = Html_get_current_input(C)
  <2>1. Html_get_current_input(R) = Html_get_current_input(X)
    BY <1>1, <1>3, <1>7, <1>8 DEF Html_get_current_input, SameInputs, Back, In
  <2> QED BY <2>1, <1>3
<1>10. Placed(C, t, R)
  <2>1. In(C, "HEAD") => C.Num["head"] = 1
    BY DEF Place, Sound, Sections
  <2> QED BY <2>1, <1>7, <1>8, <1>9, PlaceBack
<1> QED BY <1>0, <1>10 DEF Ending, R, E, D, X, P

-----------------------------------------------------------------------------
(***************************************************************************)
(* The elements that stay: what their open functions do.                   *)
(***************************************************************************)
Staying == Tags \ ({"html", "head", "body"} \cup Popping)

\* D is C with t open on top.
Entered(C, t, D) ==
  /\ \E v : Grown(C, t, v, D)
  /\ Forms(D) /\ D.Num = C.Num /\ D.ReqTagClose = C.ReqTagClose
  /\ \A f \in {"EOF", "HTML", "HEAD", "BODY"} : In(D, f) <=> In(C, f)

LEMMA PlacedStaying ==
  ASSUME NEW C, NEW t \in Staying, Place(C, t), NEW D, Entered(C, t, D)
  PROVE  Placed(C, t, Ending(D, t))
<1>0. C \in ParserType /\ t \notin ForbiddenEnd /\ t \notin {"html", "head", "body"}
  BY DEF Place, Sound, Staying, ForbiddenEnd, Popping
<1>1. PICK v : Grown(C, t, v, D)
  BY DEF Entered
<1>2. t \in Early \/ On(C, "body")
  BY DEF Place, Sound, Begun, Staying, Popping
<1>3. In(C, "HTML")
  BY <1>0 DEF Place
<1>4. Sections(D) /\ Begun(D)
  BY <1>0, <1>1, <1>2, <1>3, GrowElement DEF Place, Sound, Entered
<1>5. Sound(D) /\ ~D.ReqTagClose
  BY <1>1, <1>4 DEF Sound, Forms, Entered, Grown, Place
<1>6. \A u : On(D, u) => On(C, u) \/ u = t
  BY <1>0, <1>1, GrownOn
<1> QED BY <1>0, <1>5, <1>6 DEF Ending, Placed

\* The state in which the open function runs.
Pushed(C, t, P) ==
  /\ Grown(C, t, FALSE, P) /\ Rest(C, P) /\ P.InFlags = C.InFlags /\ P \in ParserType
  /\ Html_get_current_input(P) = Html_get_current_input(C)

LEMMA PushPlace ==
  ASSUME NEW C, NEW t \in Staying, Place(C, t)
  PROVE  Pushed(C, t, Html_push_tag(C, t))
<1> DEFINE P == Html_push_tag(C, t)
<1>0. C \in ParserType /\ t \in Tags /\ ~Top(C).verbatim
  BY DEF Place, Sound, Staying
<1>1. Grown(C, t, Top(C).verbatim, P) /\ Rest(C, P) /\ P.InFlags = C.InFlags
  BY <1>0, PushFacts
<1> HIDE DEF P
<1>2. P \in ParserType /\ P.stack[Depth(P)].verbatim \in BOOLEAN
  <2>1. P \in ParserType /\ Depth(P) \in 1 .. Depth(P)
    BY <1>0, <1>1, Fields DEF Grown
  <2> QED BY <2>1, Fields DEF Items
<1>3. Top(C).verbatim = FALSE
  BY <1>0, <1>1, <1>2 DEF Grown
<1>4. Html_get_current_input(P) = Html_get_current_input(C)
  BY <1>1 DEF Html_get_current_input, In, Rest
<1> QED BY <1>1, <1>2, <1>3, <1>4 DEF Pushed, P

\* X is what the open function makes of P.
Changed(P, X) ==
  /\ Kept(P, X) /\ X.Num = P.Num /\ X.ReqTagClose = P.ReqTagClose

\* X is what the open function of t makes of C.
Ran(C, t, P, X) ==
  t \in Staying \ {"textarea"} /\ Place(C, t) /\ Pushed(C, t, P) /\ Changed(P, X)

\* D is X with its style.
Shown(C, t, X, D) ==
  /\ Enters(C, t, FALSE, D) /\ D.InFlags = X.InFlags /\ SameInputs(X, D)
  /\ D.Num = C.Num /\ D.ReqTagClose = C.ReqTagClose
  /\ Html_get_current_input(D) = Html_get_current_input(X)

LEMMA EnterChanged ==
  ASSUME NEW C, NEW t, NEW P, NEW X, Ran(C, t, P, X), NEW attr
  PROVE  Shown(C, t, X, Display(X, t, attr))
<1> DEFINE D == Display(X, t, attr)
<1>0. /\ C \in ParserType /\ t # "textarea" /\ t # "hr" /\ Place(C, t)
      /\ Pushed(C, t, P) /\ Changed(P, X)
  BY DEF Place, Sound, Staying, Popping, Ran
<1>1. Grown(C, t, FALSE, X)
  BY <1>0, GrownKept DEF Pushed, Changed
<1>2. Grown(C, t, FALSE, D) /\ D.InFlags = X.InFlags /\ Rest(X, D)
  BY <1>0, <1>1, DisplayOf
<1> HIDE DEF D
<1>3. Enters(C, t, FALSE, D)
  BY <1>0, <1>2 DEF Enters, Place
<1>4. Html_get_current_input(D) = Html_get_current_input(X)
  BY <1>2 DEF Html_get_current_input, In, Rest
<1>5. Shown(C, t, X, D)
  BY <1>0, <1>2, <1>3, <1>4 DEF Changed, Pushed, Rest, SameInputs, Shown
<1> QED BY <1>5 DEF D

\* R has t on top, and nothing else has changed.
EntersSame(H, t, R) ==
  /\ \E v : Enters(H, t, v, R) /\ (v <=> t = "script")
  /\ R.InFlags = H.InFlags /\ SameInputs(H, R) /\ t \notin {"a", "pre", "button"}

LEMMA EnterSame ==
  ASSUME NEW H, NEW t, NEW R, EntersSame(H, t, R)
  PROVE  Forms(R)
<1>1. PICK v : Enters(H, t, v, R) /\ (v <=> t = "script")
  BY DEF EntersSame
<1>2. SameInputs(H, R) /\ t # "button"
  BY DEF EntersSame
<1>3. \A f \in FormFlags : In(R, f) <=>
        In(H, f) \/ (f = "A" /\ t = "a") \/ (f = "PRE" /\ t = "pre")
  BY DEF EntersSame, In
<1> QED BY <1>1, <1>2, <1>3, EnterPlain

\* The elements with no state of their own, links and preformatted text.
LEMMA EnteredPlain ==
  ASSUME NEW C, NEW t \in Staying, Place(C, t),
         t \notin {"script", "form", "select", "optgroup", "option", "button", "textarea"},
         NEW attr
  PROVE  Entered(C, t, Display(Open(Html_push_tag(C, t), t, attr), t, attr))
<1> DEFINE P == Html_push_tag(C, t)
           X == Open(P, t, attr)
           D == Display(X, t, attr)
<1>0. Pushed(C, t, P) /\ t \in Staying \ {"textarea"} /\ t \notin {"html", "head", "body"}
      /\ t \notin Popping
  BY PushPlace DEF Staying
<1> HIDE DEF P
<1>1. /\ Changed(P, X) /\ SameInputs(C, X)
      /\ X.InFlags = P.InFlags \cup (IF t = "a" THEN {"A"} ELSE IF t = "pre" THEN {"PRE"} ELSE {})
  <2>1. CASE t = "a" \/ t = "pre"
    <3>1. X = Raise(P, IF t = "a" THEN "A" ELSE "PRE")
      BY <2>1 DEF Open
    <3>2. /\ Kept(P, X) /\ Rest(P, X)
          /\ X.InFlags = P.InFlags \cup {IF t = "a" THEN "A" ELSE "PRE"}
      <4> HIDE DEF X
      <4> QED BY <3>1, <1>0, RaiseFacts DEF Pushed, Flags
    <3> QED BY <3>2, <2>1, <1>0 DEF Changed, SameInputs, Rest, Pushed
  <2>2. CASE t # "a" /\ t # "pre"
    <3>1. X = P
      BY <2>2, <1>0 DEF Open, Popping
    <3> QED BY <3>1, <2>2, <1>0 DEF Changed, SameInputs, Rest, Pushed, Kept
  <2> QED BY <2>1, <2>2
<1> HIDE DEF X
<1>2. /\ Enters(C, t, FALSE, D) /\ D.InFlags = X.InFlags /\ SameInputs(X, D)
      /\ D.Num = C.Num /\ D.ReqTagClose = C.ReqTagClose
  <2>1. Ran(C, t, P, X)
    BY <1>0, <1>1 DEF Ran
  <2>2. Shown(C, t, X, D)
    BY <2>1, EnterChanged
  <2> QED BY <2>2 DEF Shown
<1> HIDE DEF D
<1>3. D.InFlags = C.InFlags \cup (IF t = "a" THEN {"A"} ELSE IF t = "pre" THEN {"PRE"} ELSE {})
  BY <1>0, <1>1, <1>2 DEF Pushed
<1>4. /\ \A f \in FormFlags : In(D, f) <=>
           In(C, f) \/ (f = "A" /\ t = "a") \/ (f = "PRE" /\ t = "pre")
      /\ \A f \in {"EOF", "HTML", "HEAD", "BODY"} : In(D, f) <=> In(C, f)
  BY <1>3 DEF In, FormFlags
<1>5. SameInputs(C, D)
  BY <1>1, <1>2 DEF SameInputs
<1>6. Forms(D)
  BY <1>2, <1>4, <1>5, EnterPlain
<1> QED BY <1>2, <1>4, <1>6 DEF Entered, Enters, D, X, P

LEMMA EnteredScript ==
  ASSUME NEW C, Place(C, "script"), NEW attr
  PROVE  Entered(C, "script", Display(Open(Html_push_tag(C, "script"), "script", attr), "script", attr))
<1> DEFINE P == Html_push_tag(C, "script")
           X == Open(P, "script", attr)
           D == Display(X, "script", attr)
<1>0. Pushed(C, "script", P) /\ C \in ParserType /\ "script" # "textarea" /\ "script" # "button"
  BY PushPlace DEF Staying, Tags, Popping, Place, Sound
<1> HIDE DEF P
<1>1. X = SetVerbatim(P)
  BY DEF Open
<1>2. Grown(C, "script", TRUE, X) /\ Rest(P, X) /\ X.InFlags = P.InFlags
  <2>1. PICK v : Grown(C, "script", v, P)
    BY <1>0 DEF Pushed
  <2> QED BY <2>1, <1>0, <1>1, GrownVerbatim
<1> HIDE DEF X
<1>3. Grown(C, "script", TRUE, D) /\ D.InFlags = X.InFlags /\ Rest(X, D)
  BY <1>0, <1>2, DisplayOf
<1> HIDE DEF D
<1>4. D.InFlags = C.InFlags /\ SameInputs(C, D) /\ D.Num = C.Num /\ D.ReqTagClose = C.ReqTagClose
  BY <1>0, <1>2, <1>3 DEF Pushed, Rest, SameInputs
<1>5. Enters(C, "script", TRUE, D)
  BY <1>3, Control DEF Enters, Place
<1>6. \A f : In(D, f) <=> In(C, f)
  BY <1>4 DEF In
<1>7. Forms(D)
  <2>1. EntersSame(C, "script", D)
    <3>1. PICK v : v = TRUE
      OBVIOUS
    <3> QED BY <3>1, <1>4, <1>5 DEF EntersSame
  <2> QED BY <2>1, EnterSame
<1> QED BY <1>3, <1>4, <1>6, <1>7 DEF Entered, D, X, P

LEMMA EnteredForm ==
  ASSUME NEW C, Place(C, "form"), NEW attr
  PROVE  Entered(C, "form", Display(Open(Html_push_tag(C, "form"), "form", attr), "form", attr))
<1> DEFINE P == Html_push_tag(C, "form")
           X == Open(P, "form", attr)
           D == Display(X, "form", attr)
           low == {"FORM", "SELECT", "OPTION", "TEXTAREA"}
<1>0. Pushed(C, "form", P) /\ "form" \in Staying \ {"textarea"}
  BY PushPlace DEF Staying, Tags, Popping
<1> HIDE DEF P
<1>1. X = Html_tag_open_form(P)
  BY DEF Open
<1> HIDE DEF X
<1>2. /\ Changed(P, X)
      /\ IF In(C, "FORM") THEN X.InFlags = C.InFlags /\ SameInputs(C, X)
         ELSE X.InFlags = (C.InFlags \ low) \cup {"FORM"}
  <2>1. CASE In(C, "FORM")
    <3>1. X = P
      BY <2>1, <1>0, <1>1 DEF Html_tag_open_form, Pushed, In
    <3> QED BY <3>1, <2>1, <1>0 DEF Changed, SameInputs, Rest, Pushed, Kept
  <2>2. CASE ~In(C, "FORM")
    <3> DEFINE L == Lower(P, low)
               F == Raise(L, "FORM")
    <3>1. X = [F EXCEPT !.form = "other"]
      BY <2>2, <1>0, <1>1 DEF Html_tag_open_form, Html_tag_close_form, Pushed, In
    <3>2. Kept(P, L) /\ Rest(P, L) /\ L.InFlags = C.InFlags \ low
      BY <1>0, LowerFacts DEF Pushed
    <3> HIDE DEF L
    <3>3. Kept(L, F) /\ Rest(L, F) /\ F.InFlags = L.InFlags \cup {"FORM"}
      BY <3>2, RaiseFacts DEF Kept, Flags
    <3> HIDE DEF F
    <3>4. Kept(F, X) /\ X.InFlags = F.InFlags /\ X.Num = F.Num /\ X.ReqTagClose = F.ReqTagClose
      BY <3>1, <3>3 DEF Kept, ParserType, Inputs, Depth
    <3> QED BY <3>2, <3>3, <3>4, <2>2 DEF Changed, Kept, Rest
  <2> QED BY <2>1, <2>2
<1>3. /\ Enters(C, "form", FALSE, D) /\ D.InFlags = X.InFlags /\ SameInputs(X, D)
      /\ D.Num = C.Num /\ D.ReqTagClose = C.ReqTagClose
  <2>1. Ran(C, "form", P, X)
    BY <1>0, <1>2 DEF Ran
  <2>2. Shown(C, "form", X, D)
    BY <2>1, EnterChanged
  <2> QED BY <2>2 DEF Shown
<1> HIDE DEF D
<1>4. \A f \in {"EOF", "HTML", "HEAD", "BODY"} : In(D, f) <=> In(C, f)
  BY <1>2, <1>3 DEF In
<1>5. Forms(D)
  <2>1. CASE In(C, "FORM")
    <3>1. D.InFlags = C.InFlags /\ SameInputs(C, D)
      BY <2>1, <1>2, <1>3 DEF SameInputs
    <3>2. EntersSame(C, "form", D)
      <4>1. PICK v : v = FALSE
        OBVIOUS
      <4> QED BY <4>1, <3>1, <1>3 DEF EntersSame
    <3> QED BY <3>2, EnterSame
  <2>2. CASE ~In(C, "FORM")
    BY <2>2, <1>2, <1>3, EnterForm
  <2> QED BY <2>1, <2>2
<1> QED BY <1>3, <1>4, <1>5 DEF Entered, Enters, D, X, P

LEMMA EnteredSelect ==
  ASSUME NEW C, Place(C, "select"), NEW attr
  PROVE  Entered(C, "select", Display(Open(Html_push_tag(C, "select"), "select", attr), "select", attr))
<1> DEFINE P == Html_push_tag(C, "select")
           X == Open(P, "select", attr)
           D == Display(X, "select", attr)
<1>0. Pushed(C, "select", P) /\ "select" \in Staying \ {"textarea"}
  BY PushPlace DEF Staying, Tags, Popping
<1> HIDE DEF P
<1> DEFINE L == Lower(P, {"OPTION"})
           F == Raise(L, "SELECT")
<1>1. X = Html_add_input(F, "select")
  BY DEF Open, Html_tag_open_select
<1> HIDE DEF X
<1>2. Kept(P, L) /\ Rest(P, L) /\ L.InFlags = C.InFlags \ {"OPTION"}
  BY <1>0, LowerFacts DEF Pushed
<1> HIDE DEF L
<1>3. Kept(L, F) /\ Rest(L, F) /\ F.InFlags = L.InFlags \cup {"SELECT"}
  BY <1>2, RaiseFacts DEF Kept, Flags
<1> HIDE DEF F
<1>4. /\ Kept(F, X) /\ X.InFlags = F.InFlags /\ X.Num = F.Num
      /\ X.ReqTagClose = F.ReqTagClose /\ Html_get_current_input(X) = "select"
  <2>1. F \in ParserType /\ "select" \in Inputs
    BY <1>3 DEF Kept, Inputs
  <2> QED BY <2>1, <1>1, AddInput
<1>5. Changed(P, X)
  BY <1>2, <1>3, <1>4 DEF Changed, Kept, Rest
<1>6. /\ Enters(C, "select", FALSE, D) /\ D.InFlags = X.InFlags
      /\ D.Num = C.Num /\ D.ReqTagClose = C.ReqTagClose
      /\ Html_get_current_input(D) = Html_get_current_input(X)
  <2>1. Ran(C, "select", P, X)
    BY <1>0, <1>5 DEF Ran
  <2>2. Shown(C, "select", X, D)
    BY <2>1, EnterChanged
  <2> QED BY <2>2 DEF Shown
<1> HIDE DEF D
<1>7. D.InFlags = (C.InFlags \ {"OPTION"}) \cup {Flag["select"]}
  BY <1>2, <1>3, <1>4, <1>6 DEF Flag
<1>8. \A f \in {"EOF", "HTML", "HEAD", "BODY"} : In(D, f) <=> In(C, f)
  BY <1>7 DEF In, Flag
<1>9. Forms(D)
  BY <1>4, <1>6, <1>7, EnterControl
<1> QED BY <1>6, <1>8, <1>9 DEF Entered, Enters, D, X, P

LEMMA EnteredButton ==
  ASSUME NEW C, Place(C, "button"), NEW attr
  PROVE  Entered(C, "button", Display(Open(Html_push_tag(C, "button"), "button", attr), "button", attr))
<1> DEFINE P == Html_push_tag(C, "button")
           X == Open(P, "button", attr)
           D == Display(X, "button", attr)
           F == Raise(P, "BUTTON")
<1>0. Pushed(C, "button", P) /\ "button" \in Staying \ {"textarea"}
  BY PushPlace DEF Staying, Tags, Popping
<1> HIDE DEF P
<1>1. X = IF attr = "unknown" THEN F ELSE Html_add_input(F, "other")
  BY DEF Open, Html_tag_open_button
<1> HIDE DEF X
<1>2. Kept(P, F) /\ Rest(P, F) /\ F.InFlags = C.InFlags \cup {"BUTTON"}
  BY <1>0, RaiseFacts DEF Pushed, Flags
<1> HIDE DEF F
<1>3. /\ Kept(F, X) /\ X.InFlags = F.InFlags /\ X.Num = F.Num
      /\ X.ReqTagClose = F.ReqTagClose
  <2>1. F \in ParserType /\ "other" \in Inputs /\ Kept(F, F)
    BY <1>2, Fields DEF Kept, Inputs
  <2>2. CASE attr = "unknown"
    BY <2>1, <2>2, <1>1
  <2>3. CASE attr # "unknown"
    BY <2>1, <2>3, <1>1, AddInput
  <2> QED BY <2>2, <2>3
<1>4. Changed(P, X)
  BY <1>2, <1>3 DEF Changed, Kept, Rest
<1>5. /\ Enters(C, "button", FALSE, D) /\ D.InFlags = X.InFlags
      /\ D.Num = C.Num /\ D.ReqTagClose = C.ReqTagClose
  <2>1. Ran(C, "button", P, X)
    BY <1>0, <1>4 DEF Ran
  <2>2. Shown(C, "button", X, D)
    BY <2>1, EnterChanged
  <2> QED BY <2>2 DEF Shown
<1> HIDE DEF D
<1>6. ~In(C, "OPTION")
  <2>1. Sound(C) /\ Above(C, "button")
    BY DEF Place
  <2> QED BY <2>1, AboveFacts
<1>7. D.InFlags = (C.InFlags \ {"OPTION"}) \cup {Flag["button"]}
  BY <1>2, <1>3, <1>5, <1>6 DEF Flag, In
<1>8. \A f \in {"EOF", "HTML", "HEAD", "BODY"} : In(D, f) <=> In(C, f)
  BY <1>7 DEF In, Flag
<1>9. Forms(D)
  BY <1>5, <1>7, EnterControl
<1> QED BY <1>5, <1>8, <1>9 DEF Entered, Enters, D, X, P

\* An option or an optgroup, outside of a select: it has no effect.
LEMMA EnteredOptions ==
  ASSUME NEW C, NEW t \in {"optgroup", "option"}, Place(C, t), NEW attr
  PROVE  Entered(C, t, Display(Open(Html_push_tag(C, t), t, attr), t, attr))
<1> DEFINE P == Html_push_tag(C, t)
           X == Open(P, t, attr)
           D == Display(X, t, attr)
           f == IF t = "option" THEN "OPTION" ELSE "OPTGROUP"
           L == IF t = "option" THEN P ELSE Lower(P, {"OPTION"})
           F == Raise(L, f)
<1>0. Pushed(C, t, P) /\ t \in Staying \ {"textarea"}
  <2>1. t \in Staying
    BY DEF Staying, Tags, Popping
  <2> QED BY <2>1, PushPlace
<1> HIDE DEF P
<1>1. Sound(C) /\ Above(C, t) /\ ~In(C, "OPTION") /\ (t = "optgroup" => ~In(C, "OPTGROUP"))
  <2>1. Sound(C) /\ Above(C, t)
    BY DEF Place
  <2> QED BY <2>1, AboveFacts
<1>2. X = IF In(C, "SELECT") THEN AddOpt(F) ELSE P
  <2>1. In(P, "SELECT") <=> In(C, "SELECT")
    BY <1>0 DEF Pushed, In
  <2>2. CASE t = "option"
    BY <2>1, <2>2 DEF Open, Html_tag_open_option
  <2>3. CASE t = "optgroup"
    <3>1. ~In(P, "OPTGROUP")
      BY <1>0, <1>1, <2>3 DEF Pushed, In
    <3> QED BY <2>1, <2>3, <3>1 DEF Open, Html_tag_open_optgroup
  <2> QED BY <2>2, <2>3
<1> HIDE DEF X
<1>3. Kept(P, L) /\ Rest(P, L) /\ L.InFlags = C.InFlags
  <2>1. CASE t = "option"
    BY <2>1, <1>0 DEF Pushed, Kept, Rest
  <2>2. CASE t # "option"
    <3>1. L = Lower(P, {"OPTION"})
      BY <2>2
    <3>2. Kept(P, L) /\ Rest(P, L) /\ L.InFlags = P.InFlags \ {"OPTION"}
      <4> HIDE DEF L
      <4> QED BY <3>1, <1>0, LowerFacts DEF Pushed
    <3> QED BY <3>2, <1>0, <1>1 DEF Pushed, In
  <2> QED BY <2>1, <2>2
<1> HIDE DEF L
<1>4. Kept(L, F) /\ Rest(L, F) /\ F.InFlags = C.InFlags \cup {f}
  <2>1. L \in ParserType /\ f \in Flags
    BY <1>3 DEF Kept, Flags
  <2> HIDE DEF f
  <2> QED BY <2>1, <1>3, RaiseFacts
<1> HIDE DEF F
<1>5. Html_get_current_input(F) = Html_get_current_input(C)
  <2>1. F.form = P.form /\ F.outside = P.outside /\ (In(F, "FORM") <=> In(P, "FORM"))
    BY <1>0, <1>3, <1>4 DEF Rest, Pushed, In
  <2>2. Html_get_current_input(F) = Html_get_current_input(P)
    BY <2>1 DEF Html_get_current_input
  <2> QED BY <2>2, <1>0 DEF Pushed
<1>6. In(C, "SELECT") => /\ Kept(F, X) /\ X.InFlags = F.InFlags /\ X.Num = F.Num
                         /\ X.ReqTagClose = F.ReqTagClose
                         /\ Html_get_current_input(X) = "options"
  <2> SUFFICES ASSUME In(C, "SELECT")
               PROVE  /\ Kept(F, X) /\ X.InFlags = F.InFlags /\ X.Num = F.Num
                      /\ X.ReqTagClose = F.ReqTagClose
                      /\ Html_get_current_input(X) = "options"
    OBVIOUS
  <2>1. X = AddOpt(F)
    BY <1>2
  <2>2. Html_get_current_input(F) \in {"select", "options"}
    BY <1>1, <1>5 DEF Sound, Options
  <2>3. F \in ParserType /\ "options" \in Inputs
    BY <1>4 DEF Kept, Inputs
  <2>4. CASE Html_get_current_input(F) = "select"
    <3>1. X = Html_add_input(F, "options")
      BY <2>1, <2>4 DEF AddOpt
    <3> QED BY <3>1, <2>3, AddInput
  <2>5. CASE Html_get_current_input(F) = "options"
    <3>1. X = F
      BY <2>1, <2>5 DEF AddOpt
    <3> QED BY <3>1, <2>3, <2>5 DEF Kept
  <2> QED BY <2>2, <2>4, <2>5
<1>7. Changed(P, X)
  <2>1. CASE In(C, "SELECT")
    BY <2>1, <1>3, <1>4, <1>6 DEF Changed, Kept, Rest
  <2>2. CASE ~In(C, "SELECT")
    BY <2>2, <1>0, <1>2 DEF Changed, Kept, Pushed
  <2> QED BY <2>1, <2>2
<1>8. Shown(C, t, X, D)
  <2>1. Ran(C, t, P, X)
    BY <1>0, <1>7 DEF Ran, Place
  <2> QED BY <2>1, EnterChanged
<1> HIDE DEF D
<1>9. D.InFlags = IF In(C, "SELECT") THEN C.InFlags \cup {f} ELSE C.InFlags
  BY <1>0, <1>2, <1>4, <1>6, <1>8 DEF Shown, Pushed
<1>10. \A g \in {"EOF", "HTML", "HEAD", "BODY"} : In(D, g) <=> In(C, g)
  BY <1>9 DEF In
<1>11. Forms(D)
  <2>1. CASE In(C, "SELECT")
    <3>1. Enters(C, t, FALSE, D) /\ Html_get_current_input(D) = "options"
      BY <2>1, <1>6, <1>8 DEF Shown
    <3>2. D.InFlags = C.InFlags \cup {IF t = "option" THEN "OPTION" ELSE "OPTGROUP"}
      BY <2>1, <1>9
    <3> QED BY <2>1, <3>1, <3>2, EnterOption
  <2>2. CASE ~In(C, "SELECT")
    <3>1. D.InFlags = C.InFlags /\ SameInputs(C, D)
      BY <2>2, <1>0, <1>2, <1>8, <1>9 DEF Shown, SameInputs, Pushed, Rest
    <3>2. EntersSame(C, t, D)
      <4>1. PICK v : v = FALSE
        OBVIOUS
      <4> QED BY <4>1, <3>1, <1>8 DEF EntersSame, Shown
    <3> QED BY <3>2, EnterSame
  <2> QED BY <2>1, <2>2
<1> QED BY <1>8, <1>10, <1>11 DEF Entered, Enters, Shown, D, X, P

LEMMA EnteredTextarea ==
  ASSUME NEW C, Place(C, "textarea"), NEW attr
  PROVE  Entered(C, "textarea",
                 Display(Open(Html_push_tag(C, "textarea"), "textarea", attr), "textarea", attr))
<1> DEFINE P == Html_push_tag(C, "textarea")
           X == Open(P, "textarea", attr)
           D == Display(X, "textarea", attr)
<1>0. Pushed(C, "textarea", P) /\ C \in ParserType
  BY PushPlace DEF Staying, Tags, Popping, Place, Sound
<1> HIDE DEF P
<1>1. X = Raise(P, "TEXTAREA")
  BY DEF Open
<1> HIDE DEF X
<1>2. Kept(P, X) /\ Rest(P, X) /\ X.InFlags = C.InFlags \cup {"TEXTAREA"}
  BY <1>0, <1>1, RaiseFacts DEF Pushed, Flags
<1>3. Grown(C, "textarea", FALSE, X)
  BY <1>0, <1>2, GrownKept DEF Pushed
<1>4. PICK v : v = TRUE
  OBVIOUS
<1>5. PICK w : w = FALSE
  OBVIOUS
<1>6. Grown(C, "textarea", w, X)
  BY <1>3, <1>5
<1>7. /\ \/ Grown(C, "textarea", w, D)
         \/ Grown(C, "textarea", v, D) /\ Html_get_current_input(D) = "textarea"
      /\ D.InFlags = X.InFlags /\ D.Num = X.Num /\ D.ReqTagClose = X.ReqTagClose
  <2>1. CASE attr = "hidden"
    <3>1. D = Undisplayed(X)
      BY <2>1 DEF Display, Undisplayed
    <3> HIDE DEF D
    <3>2. Grown(C, "textarea", w, D) /\ Rest(X, D) /\ D.InFlags = X.InFlags
      BY <3>1, <1>0, <1>6, GrownUndisplayed
    <3> QED BY <3>2 DEF Rest
  <2>2. CASE attr # "hidden" /\ Top(X).display_none
    <3>1. D = X
      BY <2>2 DEF Display
    <3> QED BY <3>1, <1>6
  <2>3. CASE attr # "hidden" /\ ~Top(X).display_none
    <3> DEFINE S == SetVerbatim(X)
    <3>1. D = Html_add_input(S, "textarea")
      BY <2>3 DEF Display
    <3> HIDE DEF D
    <3>2. Grown(C, "textarea", TRUE, S) /\ Rest(X, S) /\ S.InFlags = X.InFlags
      BY <1>0, <1>6, GrownVerbatim
    <3> HIDE DEF S
    <3>3. Grown(C, "textarea", v, S)
      BY <3>2, <1>4
    <3>4. /\ Kept(S, D) /\ D.InFlags = S.InFlags /\ D.Num = S.Num
          /\ D.ReqTagClose = S.ReqTagClose /\ Html_get_current_input(D) = "textarea"
      <4>1. S \in ParserType /\ "textarea" \in Inputs
        BY <3>2 DEF Grown, Inputs
      <4> QED BY <4>1, <3>1, AddInput
    <3>5. Grown(C, "textarea", v, D)
      BY <3>3, <3>4, GrownKept
    <3> QED BY <3>2, <3>4, <3>5 DEF Rest
  <2> QED BY <2>1, <2>2, <2>3
<1> HIDE DEF D
<1>8. PICK u : Grown(C, "textarea", u, D) /\ (u => Html_get_current_input(D) = "textarea")
  BY <1>5, <1>7
<1>9. ~In(C, "OPTION") /\ Above(C, "textarea")
  <2>1. Sound(C) /\ Above(C, "textarea")
    BY DEF Place
  <2> QED BY <2>1, AboveFacts
<1>10. Enters(C, "textarea", u, D)
  BY <1>8, <1>9 DEF Enters, Place
<1>11. D.InFlags = (C.InFlags \ {"OPTION"}) \cup {Flag["textarea"]}
  BY <1>2, <1>7, <1>9 DEF Flag, In
<1>12. \A f \in {"EOF", "HTML", "HEAD", "BODY"} : In(D, f) <=> In(C, f)
  BY <1>11 DEF In, Flag
<1>13. Forms(D)
  BY <1>8, <1>10, <1>11, EnterControl
<1>14. D.Num = C.Num /\ D.ReqTagClose = C.ReqTagClose
  BY <1>0, <1>2, <1>7 DEF Pushed, Rest
<1> QED BY <1>8, <1>12, <1>13, <1>14 DEF Entered, D, X, P

-----------------------------------------------------------------------------
(***************************************************************************)
(* The tags.                                                               *)
(***************************************************************************)
LEMMA PlacedElement ==
  ASSUME NEW C, NEW t \in Tags, Place(C, t), NEW attr
  PROVE  Placed(C, t, Ending(Display(Open(Html_push_tag(C, t), t, attr), t, attr), t))
<1> DEFINE D == Display(Open(Html_push_tag(C, t), t, attr), t, attr)
<1>1. CASE t \in {"html", "body"}
  BY <1>1, PlacedRoot
<1>2. CASE t = "head"
  BY <1>2, PlacedHead
<1>3. CASE t \in Popping
  BY <1>3, PlacedPopping
<1>4. CASE t \in Staying
  <2>1. Entered(C, t, D)
    <3>1. CASE t = "script"
      BY <3>1, EnteredScript
    <3>2. CASE t = "form"
      BY <3>2, EnteredForm
    <3>3. CASE t = "select"
      BY <3>3, EnteredSelect
    <3>4. CASE t = "button"
      BY <3>4, EnteredButton
    <3>5. CASE t \in {"optgroup", "option"}
      BY <3>5, EnteredOptions
    <3>6. CASE t = "textarea"
      BY <3>6, EnteredTextarea
    <3>7. CASE t \notin {"script", "form", "select", "optgroup", "option", "button", "textarea"}
      BY <3>7, <1>4, EnteredPlain
    <3> QED BY <3>1, <3>2, <3>3, <3>4, <3>5, <3>6, <3>7
  <2> HIDE DEF D
  <2>2. Placed(C, t, Ending(D, t))
    BY <2>1, <1>4, PlacedStaying
  <2> QED BY <2>2 DEF D
<1>5. t \in {"html", "body"} \/ t = "head" \/ t \in Popping \/ t \in Staying
  BY DEF Staying
<1> QED BY <1>1, <1>2, <1>3, <1>4, <1>5

\* R is as it has to be after the tag t was read in H.
Read(H, t, R) ==
  /\ Sound(R) /\ ~R.ReqTagClose
  /\ \A u : On(R, u) => On(H, u) \/ u \in {"html", "head", "body", t}

LEMMA OpenedSound ==
  ASSUME NEW H, NEW t \in Tags, Takes(H, t, FALSE), NEW attr
  PROVE  Read(H, t, Opened(H, t, attr))
<1> DEFINE S == Section(H, t, FALSE)
           C == Html_stack_cleanup_at_open(S, t)
           D == Display(Open(Html_push_tag(C, t), t, attr), t, attr)
<1>1. Opened(H, t, attr) = Ending(D, t)
  BY DEF Opened, Ending
<1>2. Place(C, t) /\ \A u : On(C, u) => On(H, u) \/ u \in {"html", "head", "body"}
  BY PlaceFound
<1> HIDE DEF C
<1>3. Placed(C, t, Ending(D, t))
  BY <1>2, PlacedElement
<1> HIDE DEF D
<1> QED BY <1>1, <1>2, <1>3 DEF Read, Placed

LEMMA CloseRead ==
  ASSUME NEW H, Sound(H), ~H.ReqTagClose, NEW t
  PROVE  LET R == Html_tag_cleanup_at_close(H, t)
         IN Sound(R) /\ ~R.ReqTagClose /\ Depth(R) <= Depth(H) /\ \A u : On(R, u) => On(H, u)
<1> DEFINE R == Html_tag_cleanup_at_close(H, t)
<1>1. Sound(R) /\ Cut(H, R) /\ ~R.ReqTagClose
  BY CutCloses
<1> HIDE DEF R
<1>2. Depth(R) \in Nat /\ Depth(H) \in Nat /\ Depth(R) <= Depth(H)
  BY <1>1, Fields DEF Sound, Cut
<1>3. \A u : On(R, u) => On(H, u)
  BY <1>1, <1>2 DEF On, Cut
<1> QED BY <1>1, <1>2, <1>3 DEF R

LEMMA ClosedSound ==
  ASSUME NEW H, NEW t \in Tags, Takes(H, t, TRUE)
  PROVE  Read(H, t, Closed(H, t))
<1> DEFINE S == Section(H, t, TRUE)
           R == Html_tag_cleanup_at_close(S, t)
<1>1. PICK yes : yes = TRUE
  OBVIOUS
<1>2. Finds(H, t, yes, Section(H, t, yes))
  <2>1. Takes(H, t, yes)
    BY <1>1
  <2> QED BY <2>1, SectionFinds
<1>3. Finds(H, t, yes, S)
  BY <1>1, <1>2
<1> HIDE DEF S
<1>4. Sound(R) /\ ~R.ReqTagClose /\ \A u : On(R, u) => On(S, u)
  BY <1>3, CloseRead DEF Finds
<1> HIDE DEF R
<1>5. R \in ParserType /\ R.ReqTagClose = FALSE
  BY <1>4, Fields DEF Sound
<1>6. [R EXCEPT !.ReqTagClose = FALSE] = R
  BY <1>5 DEF ParserType
<1>7. Closed(H, t) = R
  BY <1>6 DEF Closed, EndNow, R, S
<1> QED BY <1>3, <1>4, <1>7 DEF Read, Finds

\* Without a title the stack is not deep before there is a body.
LEMMA Shallow ==
  ASSUME NEW H, Sound(H), In(H, "HEAD"), ~On(H, "title")
  PROVE  Depth(H) < 4
<1>0. H \in ParserType /\ Depth(H) \in Nat
  BY Fields DEF Sound
<1>1. \A k \in 1 .. Depth(H) : Tag(H, k) \in {"html", "head", "script"}
  <2>1. \A k \in 1 .. Depth(H) : Tag(H, k) # "title" /\ Tag(H, k) # "body"
    BY DEF Sound, Sections, On
  <2>2. \A k \in 1 .. Depth(H) : \A j \in 1 .. k : j \in 1 .. Depth(H)
    BY <1>0
  <2> QED BY <2>1, <2>2 DEF Sound, Sections, Early
<1>2. \A k \in 1 .. Depth(H) - 1 : k \in 1 .. Depth(H) /\ Tag(H, k) \in {"html", "head"}
  BY <1>0, <1>1 DEF Sound, Verbatim
<1>3. \A i, j \in 1 .. Depth(H) :
        (Tag(H, i) = "html" /\ Tag(H, j) = "html" => i = j)
        /\ (Tag(H, i) = "head" /\ Tag(H, j) = "head" => i = j)
  BY DEF Sound, Sections, Once
<1> SUFFICES ASSUME Depth(H) >= 4
             PROVE  FALSE
  BY <1>0
<1>4. 1 \in 1 .. Depth(H) - 1 /\ 2 \in 1 .. Depth(H) - 1 /\ 3 \in 1 .. Depth(H) - 1
  BY <1>0
<1> QED BY <1>2, <1>3, <1>4

-----------------------------------------------------------------------------
(***************************************************************************)
(* The end of the page.                                                    *)
(***************************************************************************)
LEMMA EofSound ==
  ASSUME NEW H, Sound(H)
  PROVE  LET R == Raise(H, "EOF")
         IN Sound(R) /\ R.ReqTagClose = H.ReqTagClose /\ Depth(R) = Depth(H)
            /\ \A u : On(R, u) <=> On(H, u)
<1> DEFINE R == Raise(H, "EOF")
<1>0. /\ H \in ParserType /\ Kept(H, R) /\ Rest(H, R)
      /\ R.InFlags = H.InFlags \cup {"EOF"}
  BY RaiseFacts DEF Sound, Flags
<1> HIDE DEF R
<1>1. R \in ParserType /\ Depth(R) = Depth(H) /\ Top(R) = Top(H)
      /\ Html_get_current_input(R) = Html_get_current_input(H)
  BY <1>0 DEF Kept, Rest, Top, Html_get_current_input, In
<1>2. \A k : Tag(R, k) = Tag(H, k) /\ R.stack[k] = H.stack[k]
  BY <1>0 DEF Kept, Tag
<1>3. \A u : (On(R, u) <=> On(H, u)) /\ (Once(R, u) <=> Once(H, u))
  BY <1>1, <1>2 DEF On, Once
<1>4. In(R, "EOF") /\ \A f : f # "EOF" => (In(R, f) <=> In(H, f))
  BY <1>0 DEF In
<1>5. Sections(R)
  <2>1. \A k \in 1 .. Depth(R) : Tag(R, k) \in Early \/ \E j \in 1 .. k : Tag(R, j) = "body"
    BY <1>1, <1>2 DEF Sound, Sections
  <2> QED BY <2>1, <1>0, <1>3, <1>4 DEF Sound, Sections, Rest
<1>6. Begun(R)
  BY <1>4 DEF Begun
<1>7. Apart(R)
  <2>1. \A c \in ControlTags : Flag[c] # "EOF"
    BY Control DEF Flag
  <2> QED BY <2>1, <1>3, <1>4 DEF Sound, Apart
<1>8. Options(R)
  <2>1. /\ \A k \in 1 .. Depth(R) : Tag(R, k) = "option" => k = Depth(R)
        /\ \A k \in 1 .. Depth(R) : Tag(R, k) = "optgroup" =>
             k = Depth(R) \/ (k + 1 = Depth(R) /\ Tag(R, k + 1) = "option")
    BY <1>1, <1>2 DEF Sound, Options
  <2> QED BY <2>1, <1>1, <1>3, <1>4 DEF Sound, Options
<1>9. Verbatim(R)
  BY <1>1, <1>2, <1>4 DEF Sound, Verbatim
<1> QED BY <1>0, <1>1, <1>3, <1>5, <1>6, <1>7, <1>8, <1>9 DEF Sound, Rest, R

LEMMA FinishSound ==
  ASSUME NEW H, Sound(H), H.stack = <<>>
  PROVE  LET R == [H EXCEPT !.InFlags = {"EOF"}]
         IN /\ Sound(R) /\ R.ReqTagClose = H.ReqTagClose /\ Depth(R) = Depth(H)
            /\ \A u : ~On(R, u)
<1> DEFINE R == [H EXCEPT !.InFlags = {"EOF"}]
<1>0. H \in ParserType /\ Depth(H) = 0
  BY DEF Sound, Depth
<1>1. /\ R \in ParserType /\ R.stack = <<>> /\ R.InFlags = {"EOF"}
      /\ R.ReqTagClose = H.ReqTagClose
  BY <1>0 DEF ParserType, Sound
<1> HIDE DEF R
<1>2. Depth(R) = 0
  BY <1>1 DEF Depth
<1>3. (\A u : ~On(R, u)) /\ ~Top(R).verbatim
  BY <1>1, <1>2, NoTop
<1>4. In(R, "EOF") /\ \A f : f # "EOF" => ~In(R, f)
  BY <1>1 DEF In
<1>5. \A u : Once(R, u)
  BY <1>2 DEF Once
<1>6. Sections(R) /\ Begun(R)
  BY <1>2, <1>3, <1>4, <1>5 DEF Sections, Begun
<1>7. Apart(R)
  <2>1. \A c \in ControlTags : Flag[c] # "EOF"
    BY Control DEF Flag
  <2> QED BY <2>1, <1>3, <1>4, <1>5 DEF Apart
<1>8. Options(R) /\ Verbatim(R)
  BY <1>2, <1>3, <1>4 DEF Options, Verbatim
<1> QED BY <1>0, <1>1, <1>2, <1>3, <1>6, <1>7, <1>8 DEF Sound, R

-----------------------------------------------------------------------------
(***************************************************************************)
(* The invariant.                                                          *)
(***************************************************************************)
LEMMA InitInv == Init => IInv
<1> SUFFICES ASSUME Init PROVE IInv
  OBVIOUS
<1>1. /\ html \in ParserType /\ html.stack = <<>> /\ html.InFlags = {}
      /\ html.Num = [n \in {"html", "head", "body"} |-> 0] /\ html.ReqTagClose = FALSE
  <2>1. html \in [stack : {<<>>}, InFlags : {{}},
                      Num : {[n \in {"html", "head", "body"} |-> 0]}, ReqTagClose : {FALSE},
                      html5 : BOOLEAN, form : {"other"}, outside : {"other"}]
    BY DEF Init
  <2>2. /\ html.stack = <<>> /\ html.InFlags = {} /\ html.ReqTagClose = FALSE
        /\ html.Num = [n \in {"html", "head", "body"} |-> 0]
    BY <2>1
  <2>3. <<>> \in Seq([tag : Tags, display_none : BOOLEAN, verbatim : BOOLEAN])
    OBVIOUS
  <2>4. [n \in {"html", "head", "body"} |-> 0] \in [{"html", "head", "body"} -> 0 .. 2]
    OBVIOUS
  <2>5. html \in ParserType
    BY <2>1, <2>3, <2>4 DEF ParserType, Inputs
  <2> QED BY <2>2, <2>5
<1>2. Depth(html) = 0
  BY <1>1 DEF Depth
<1>3. (\A u : ~On(html, u)) /\ ~Top(html).verbatim
  BY <1>1, <1>2, NoTop
<1>4. \A f : ~In(html, f)
  BY <1>1 DEF In
<1>5. \A u : Once(html, u)
  BY <1>2 DEF Once
<1>6. Sections(html) /\ Begun(html)
  BY <1>1, <1>2, <1>3, <1>4, <1>5 DEF Sections, Begun
<1>7. Apart(html) /\ Options(html) /\ Verbatim(html)
  BY <1>2, <1>3, <1>4, <1>5 DEF Apart, Options, Verbatim
<1> QED BY <1>1, <1>2, <1>3, <1>6, <1>7, HtmlAssumption DEF IInv, Sound

\* The head is open only where its end is found.
LEMMA TagTaken ==
  ASSUME MaxDepth < 20 \/ "title" \notin Occurring, IInv, ~In(html, "EOF"),
         NEW t, NEW isClose \in BOOLEAN, Top(html).verbatim => isClose /\ t = Top(html).tag
  PROVE  Takes(html, t, isClose)
<1>1. In(html, "HEAD") => Depth(html) < 20
  <2>1. CASE MaxDepth < 20
    <3>1. Depth(html) \in Nat
      BY Fields DEF IInv, Sound
    <3> QED BY <3>1, <2>1, HtmlAssumption DEF IInv
  <2>2. CASE "title" \notin Occurring
    <3>1. Depth(html) \in Nat
      BY Fields DEF IInv, Sound
    <3>2. In(html, "HEAD") => Depth(html) < 4
      BY <2>2, Shallow DEF IInv
    <3> QED BY <3>1, <3>2
  <2> QED BY <2>1, <2>2
<1> QED BY <1>1 DEF IInv, Takes

LEMMA StepsKeep ==
  ASSUME MaxDepth < 20 \/ "title" \notin Occurring, IInv, [Next]_vars
  PROVE  IInv'
<1>0. Sound(html) /\ ~html.ReqTagClose /\ html \in ParserType /\ Depth(html) \in Nat
      /\ Depth(html) <= MaxDepth /\ MaxDepth \in Nat
  BY Fields, HtmlAssumption DEF IInv, Sound
<1>1. ASSUME NEW t \in Occurring, StartTag(t)
      PROVE  IInv'
  <2>1. PICK attr : html' = Opened(html, t, attr)
    BY <1>1 DEF StartTag
  <2>2. PICK no : no = FALSE
    OBVIOUS
  <2>3. Takes(html, t, no)
    BY <1>1, <2>2, TagTaken DEF StartTag
  <2>4. Takes(html, t, FALSE) /\ t \in Tags
    BY <2>2, <2>3, HtmlAssumption
  <2>5. Read(html, t, html')
    BY <2>1, <2>4, OpenedSound
  <2> QED BY <1>1, <2>5 DEF IInv, Read, StartTag
<1>2. ASSUME NEW t \in Occurring, EndTag(t)
      PROVE  IInv'
  <2>1. html' = Closed(html, t)
    BY <1>2 DEF EndTag
  <2>2. PICK yes : yes = TRUE
    OBVIOUS
  <2>3. Takes(html, t, yes)
    BY <1>2, <2>2, TagTaken DEF EndTag
  <2>4. Takes(html, t, TRUE) /\ t \in Tags
    BY <2>2, <2>3, HtmlAssumption
  <2>5. Read(html, t, html')
    BY <2>1, <2>4, ClosedSound
  <2> QED BY <1>2, <2>5 DEF IInv, Read, EndTag
<1>3. CASE Eof
  <2>1. html' = Raise(html, "EOF")
    BY <1>3 DEF Eof
  <2>2. /\ Sound(html') /\ html'.ReqTagClose = html.ReqTagClose
        /\ Depth(html') = Depth(html) /\ \A u : On(html', u) <=> On(html, u)
    BY <2>1, <1>0, EofSound
  <2> QED BY <2>2, <1>0 DEF IInv
<1>4. CASE CloseLeftOpen
  <2>1. html' = Html_tag_cleanup_at_close(html, Top(html).tag)
    BY <1>4 DEF CloseLeftOpen
  <2>2. /\ Sound(html') /\ ~html'.ReqTagClose /\ Depth(html') <= Depth(html)
        /\ \A u : On(html', u) => On(html, u)
    BY <2>1, <1>0, CloseRead
  <2>3. Depth(html') \in Nat
    BY <2>2, Fields DEF Sound
  <2> QED BY <2>2, <2>3, <1>0 DEF IInv
<1>5. CASE Finish
  <2>1. html' = [html EXCEPT !.InFlags = {"EOF"}] /\ html.stack = <<>>
    BY <1>5 DEF Finish
  <2>2. /\ Sound(html') /\ html'.ReqTagClose = html.ReqTagClose
        /\ Depth(html') = Depth(html) /\ \A u : ~On(html', u)
    BY <2>1, <1>0, FinishSound
  <2> QED BY <2>2, <1>0 DEF IInv
<1>6. CASE UNCHANGED vars
  BY <1>6 DEF IInv, vars
<1> QED BY <1>1, <1>2, <1>3, <1>4, <1>5, <1>6 DEF Next

-----------------------------------------------------------------------------
(***************************************************************************)
(* The theorems.  The end of the head is found in the stack as long as its *)
(* elements are at positions that Tags[] holds an inline element at, see   *)
(* HeadCloses: up to the 19th, or if there is no title to fill a head with.*)
(***************************************************************************)
HeadEnds == MaxDepth < 20 \/ "title" \notin Occurring

(* Whatever tags a page has, in whatever order, the invariant holds: the flags,
   counters and inputs of the parser fit the stack of Html_push_tag and
   Html_real_pop_tag (html.cc:1358-1393). *)
THEOREM Invariance ==
  ASSUME HeadEnds
  PROVE  Spec => []IInv
<1>1. Init => IInv
  BY InitInv
<1>2. IInv /\ [Next]_vars => IInv'
  BY StepsKeep DEF HeadEnds
<1> QED BY <1>1, <1>2, PTL DEF Spec

(* The fields of the parser have their types, and a request to close
   (ReqTagClose) is served by the tag that made it (html.cc:4131-4145). *)
THEOREM TypeCorrect ==
  ASSUME HeadEnds
  PROVE  Spec => []TypeOK
<1>1. IInv => TypeOK
  BY DEF IInv, Sound, TypeOK
<1> QED BY <1>1, Invariance, PTL

(* The functions for option, optgroup, select and textarea find their own
   element in the last input of the form or page (form.cc:749, 837, 2123). *)
THEOREM InputsAreCurrent ==
  ASSUME HeadEnds
  PROVE  Spec => []InputIsCurrent
<1>1. IInv => InputIsCurrent
  BY DEF IInv, Sound, Options, Verbatim, InputIsCurrent
<1> QED BY <1>1, Invariance, PTL

\* How often an element occurs.
LEMMA OccursFacts ==
  ASSUME html \in ParserType, NEW t
  PROVE  /\ Once(html, t) => Occurs(t) = IF On(html, t) THEN 1 ELSE 0
         /\ On(html, t) => Occurs(t) > 0
         /\ ~On(html, t) => Occurs(t) = 0
<1> DEFINE places == {k \in 1 .. Depth(html) : html.stack[k].tag = t}
<1>0. Occurs(t) = Cardinality(places)
  BY DEF Occurs
<1>1. IsFiniteSet(places) /\ Cardinality(places) \in Nat
  <2>1. Depth(html) \in Nat
    BY Fields
  <2>2. IsFiniteSet(1 .. Depth(html))
    BY <2>1, FS_Interval
  <2>3. places \subseteq 1 .. Depth(html)
    OBVIOUS
  <2> HIDE DEF places
  <2> QED BY <2>2, <2>3, FS_Subset, FS_CardinalityType
<1>2. On(html, t) <=> places # {}
  BY DEF On, Tag
<1>3. Once(html, t) => \A i, j \in places : i = j
  BY DEF Once, Tag
<1> HIDE DEF places
<1>4. places = {} <=> Cardinality(places) = 0
  BY <1>1, FS_EmptySet
<1>5. ASSUME Once(html, t), On(html, t)
      PROVE  Cardinality(places) = 1
  <2>1. PICK k : k \in places
    BY <1>2, <1>5
  <2>2. places = {k}
    BY <1>3, <1>5, <2>1
  <2> QED BY <2>2, FS_Singleton
<1> QED BY <1>0, <1>1, <1>2, <1>4, <1>5

(* The flags of the sections are those of the stack: html and head are open
   once, and once there is a body it stays, alone, to the end of the page
   (html.cc:3741-3745, 3878-3906). *)
THEOREM SectionsAreMatched ==
  ASSUME HeadEnds
  PROVE  Spec => []SectionsMatch
<1>1. IInv => SectionsMatch
  <2> SUFFICES ASSUME IInv PROVE SectionsMatch
    OBVIOUS
  <2>1. html \in ParserType /\ Sections(html) /\ Begun(html)
    BY DEF IInv, Sound
  <2>2. \A t : /\ Once(html, t) => Occurs(t) = IF On(html, t) THEN 1 ELSE 0
               /\ ~On(html, t) => Occurs(t) = 0
    BY <2>1, OccursFacts
  <2>3. Once(html, "html") /\ Once(html, "head") /\ Once(html, "body")
    BY <2>1 DEF Sections
  <2>4. /\ In(html, "HEAD") <=> On(html, "head")
        /\ On(html, "head") => ~On(html, "body")
        /\ ~In(html, "EOF") => (In(html, "BODY") <=> On(html, "body"))
    BY <2>1 DEF Sections, Begun
  <2>5. Occurs("html") <= 1 /\ Occurs("head") = IF In(html, "HEAD") THEN 1 ELSE 0
    BY <2>2, <2>3, <2>4
  <2>6. ~In(html, "EOF") => Occurs("body") = IF In(html, "BODY") THEN 1 ELSE 0
    BY <2>2, <2>3, <2>4
  <2>7. Occurs("head") = 0 \/ Occurs("body") = 0
    BY <2>2, <2>4
  <2> QED BY <2>5, <2>6, <2>7 DEF SectionsMatch
<1> QED BY <1>1, Invariance, PTL

(* A link, a button, a select and a text area are never open in one another,
   nor when the next one is opened, as form.cc:647, 770 and 958 assert. *)
THEOREM ControlsAreApart ==
  ASSUME HeadEnds
  PROVE  Spec => []ControlsApart
<1>1. IInv => ControlsApart
  <2> SUFFICES ASSUME IInv PROVE ControlsApart
    OBVIOUS
  <2>1. html \in ParserType /\ Apart(html)
    BY DEF IInv, Sound
  <2>2. Cardinality({c \in ControlTags : In(html, Flag[c])}) <= 1
    <3> DEFINE open == {c \in ControlTags : In(html, Flag[c])}
    <3>1. \A c, d \in open : c = d
      BY <2>1 DEF Apart
    <3> SUFFICES Cardinality(open) <= 1
      OBVIOUS
    <3> HIDE DEF open
    <3>2. CASE open = {}
      BY <3>2, FS_EmptySet
    <3>3. CASE open # {}
      <4>1. PICK c : c \in open
        BY <3>3
      <4>2. open = {c}
        BY <3>1, <4>1
      <4>3. Cardinality(open) = 1
        BY <4>2, FS_Singleton
      <4> QED BY <4>3
    <3> QED BY <3>2, <3>3
  <2>3. \A t : /\ Once(html, t) => Occurs(t) = IF On(html, t) THEN 1 ELSE 0
               /\ On(html, t) => Occurs(t) > 0
    BY <2>1, OccursFacts
  <2>4. Occurs("a") = IF In(html, "A") THEN 1 ELSE 0
    <3>1. Once(html, "a") /\ (On(html, "a") <=> In(html, "A"))
      BY <2>1 DEF Apart
    <3> QED BY <3>1, <2>3
  <2>5. Occurs("button") = IF In(html, "BUTTON") THEN 1 ELSE 0
    <3>1. Once(html, "button") /\ (On(html, "button") <=> In(html, "BUTTON"))
      BY <2>1 DEF Apart
    <3> QED BY <3>1, <2>3
  <2>6. /\ In(html, "SELECT") => Occurs("select") > 0
        /\ In(html, "TEXTAREA") => Occurs("textarea") > 0
    BY <2>1, <2>3 DEF Apart
  <2>7. ASSUME ~Top(html).verbatim, ~In(html, "EOF"), NEW t \in {"button", "select", "textarea"},
               NEW f \in {"BUTTON", "SELECT", "TEXTAREA"}
        PROVE  ~In(Html_stack_cleanup_at_open(Section(html, t, FALSE), t), f)
    <3> DEFINE C == Html_stack_cleanup_at_open(Section(html, t, FALSE), t)
    <3>1. PICK no : no = FALSE
      OBVIOUS
    <3>2. Takes(html, t, no)
      BY <2>7, <3>1, TagTaken DEF HeadEnds
    <3>3. Takes(html, t, FALSE) /\ t \in Tags
      BY <3>1, <3>2 DEF Tags
    <3>4. Place(C, t)
      BY <3>3, PlaceFound
    <3> HIDE DEF C
    <3>5. NoControl(C)
      BY <3>4, Control DEF Place
    <3>6. \E c \in ControlTags : Flag[c] = f
      BY Control DEF Flag
    <3> QED BY <3>5, <3>6 DEF NoControl, C
  <2> QED BY <2>2, <2>4, <2>5, <2>6, <2>7 DEF ControlsApart
<1> QED BY <1>1, Invariance, PTL

(* Each round of the loop of finishParsing makes the stack smaller, and when it
   is empty the close functions have lowered every flag but those of html and
   body (html.cc:651-659). *)
THEOREM EofClosesAll ==
  ASSUME HeadEnds
  PROVE  Spec => []EofCloses
<1>1. IInv => EofCloses
  <2> SUFFICES ASSUME IInv, In(html, "EOF")
               PROVE  IF html.stack = <<>> THEN html.InFlags \subseteq {"EOF", "HTML", "BODY"}
                      ELSE Depth(Html_tag_cleanup_at_close(html, Top(html).tag)) < Depth(html)
    BY DEF EofCloses
  <2>1. Sound(html) /\ ~html.ReqTagClose /\ html \in ParserType /\ Depth(html) \in Nat
        /\ html.InFlags \in SUBSET Flags
    BY Fields DEF IInv, Sound
  <2>2. CASE html.stack = <<>>
    <3>1. \A u : ~On(html, u)
      <4>1. Depth(html) = 0
        BY <2>2 DEF Depth
      <4> QED BY <4>1, <2>1, NoTop
    <3>2. \A f \in {"HEAD", "FORM", "SELECT", "OPTION", "OPTGROUP", "TEXTAREA", "BUTTON",
                    "A", "PRE"} : ~In(html, f)
      BY <2>1, <3>1 DEF Sound, Sections, Apart, Options
    <3> QED BY <2>1, <2>2, <3>2 DEF In, Flags
  <2>3. CASE html.stack # <<>>
    <3> DEFINE d == Depth(html)
               t == Top(html).tag
               match == {k \in 1 .. d :
                           /\ html.stack[k].tag = t
                           /\ \A j \in k + 1 .. d : html.stack[j].tag # t /\ PassedBy(html, j, t)}
               R == Html_tag_cleanup_at_close(html, t)
    <3>1. d > 0
      <4>1. d # 0
        BY <2>1, <2>3, Fields DEF Depth
      <4> QED BY <4>1, <2>1
    <3>2. d \in match
      BY <2>1, <3>1, TopIs
    <3>3. match \in SUBSET (1 .. d)
      OBVIOUS
    <3>4. R = Html_tag_cleanup_to_idx(html, Max(match))
      BY <3>2 DEF Html_tag_cleanup_at_close
    <3> HIDE DEF match, R, t
    <3>5. PICK k : k = Max(match)
      OBVIOUS
    <3>6. k = d
      <4>1. k \in match /\ \A i \in match : i <= k
        BY <2>1, <3>2, <3>3, <3>5, MaxPicks
      <4> QED BY <2>1, <3>2, <3>3, <4>1
    <3>7. CutTo(html, d, R)
      BY <2>1, <3>1, <3>4, <3>5, <3>6, CleanupCuts
    <3>8. Depth(R) < d
      <4>1. Depth(R) \in Nat /\ Depth(R) <= d
        BY <3>7, Fields DEF CutTo, Cut
      <4> QED BY <4>1, <2>1, <3>7 DEF CutTo
    <3> QED BY <2>3, <3>8 DEF R, t
  <2> QED BY <2>2, <2>3
<1> QED BY <1>1, Invariance, PTL
=============================================================================
