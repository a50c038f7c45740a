-------------------------------- MODULE Html --------------------------------
(***************************************************************************)
(* The tag stack of the HTML parser (src/src/html.cc) with the state that  *)
(* the elements of forms keep beside it (src/src/form.cc).                 *)
(*                                                                         *)
(* A page is a sequence of tags, in any order and however badly nested.    *)
(* Each tag is one action: what Html_process_tag does to the record H of   *)
(* the parser's fields, a composition of operators in the order of its     *)
(* calls.  "Num" counts the elements html, head and body that were opened  *)
(* (the code asks whether one was open before; for the head, whether it is *)
(* one or more).  Of the inputs of a form only the last one is kept, as    *)
(* its kind: "options" is a select that holds an option or an optgroup,    *)
(* and "other" stands for no input, too.  A tag comes with what its        *)
(* attributes and its style make of it: shown, hidden (display: none), or  *)
(* of a type the form takes no input of.                                   *)
(*                                                                         *)
(* One representative stands for the elements with the same flags, the     *)
(* same handling of their end and no state of their own: div for the       *)
(* blocks, ins for del, object and iframe, td for th, li for dd...         *)
(***************************************************************************)
EXTENDS Integers, FiniteSets, SequencesExt

CONSTANTS Occurring,     \* the tags that occur in pages
          Hideable,      \* the tags a style of the page may hide
          MaxDepth       \* bound on the depth of the stack

(***************************************************************************)
(* The table Tags[]: the five flags, and the handling of the end tag.      *)
(***************************************************************************)
Tags == {"html", "head", "title", "script", "body", "div", "table", "tr", "td",
         "li", "p", "pre", "hr", "ins", "form", "a", "button", "select",
         "optgroup", "option", "textarea", "input", "isindex"}

HeadElement     == {"head", "title", "script", "isindex"}
BodyElement     == Tags \ {"html", "head", "title"}
BlockContainer  == {"html", "head", "script", "body", "div", "table", "tr",
                    "td", "li", "ins", "form", "button"}
InlineContainer == {"html", "head", "title", "body", "div", "td", "li", "p",
                    "pre", "ins", "form", "a", "button", "select", "optgroup",
                    "textarea"}
InlineElement   == {"head", "title", "script", "ins", "a", "button", "select",
                    "optgroup", "option", "textarea", "input", "isindex"}

OptionalEnd  == {"html", "head", "body", "tr", "td", "li", "p", "optgroup",
                 "option"}
ForbiddenEnd == {"hr", "input", "isindex"}

\* The positions of Tags[] that hold an element neither inline nor a container
\* of inline elements: dir, dl, frame, hr, menu, ol, table, tr, ul.
NotInlineAt == {20, 22, 31, 41, 56, 60, 79, 87, 90}

\* The elements that are not nested in one another, in the order of the test.
Controls == <<"a", "button", "select", "textarea">>

ControlTags == Range(Controls)

Flag == [a |-> "A", button |-> "BUTTON", select |-> "SELECT",
         textarea |-> "TEXTAREA"]

ASSUME HtmlAssumption ==
  /\ Occurring \subseteq Tags /\ Hideable \subseteq Tags
  /\ MaxDepth \in Nat

VARIABLE html       \* the fields of DilloHtml, see ParserType

vars == <<html>>

Inputs == {"select", "options", "textarea", "other"}

ParserType ==
  [stack : Seq([tag : Tags, display_none : BOOLEAN, verbatim : BOOLEAN]),
   InFlags : SUBSET {"HTML", "HEAD", "BODY", "FORM", "SELECT", "OPTION",
                     "OPTGROUP", "TEXTAREA", "BUTTON", "A", "PRE", "EOF"},
   Num : [{"html", "head", "body"} -> 0 .. 2],
   ReqTagClose : BOOLEAN,
   html5 : BOOLEAN,         \* DocTypeVersion >= 5
   form : Inputs,           \* last input of the last form
   outside : Inputs]        \* last input outside of the forms

\* DilloHtml::DilloHtml; the page may start with a doctype
Init ==
  html \in [stack : {<<>>}, InFlags : {{}}, Num : {[n \in {"html", "head", "body"} |-> 0]},
            ReqTagClose : {FALSE}, html5 : BOOLEAN, form : {"other"}, outside : {"other"}]

(***************************************************************************)
(* Flags, inputs and the top of the stack.                                 *)
(***************************************************************************)
In(H, f) == f \in H.InFlags
Raise(H, f) == [H EXCEPT !.InFlags = @ \cup {f}]
Lower(H, fs) == [H EXCEPT !.InFlags = @ \ fs]

Depth(H) == Len(H.stack)

Top(H) == IF H.stack = <<>>
          THEN [tag |-> "none", display_none |-> FALSE, verbatim |-> FALSE]
          ELSE Last(H.stack)

Html_push_tag(H, t) == [H EXCEPT !.stack = Append(@, [Top(H) EXCEPT !.tag = t])]

SetVerbatim(H) == [H EXCEPT !.stack[Depth(H)].verbatim = TRUE]

Html_get_current_input(H) == IF In(H, "FORM") THEN H.form ELSE H.outside

Html_add_input(H, kind) ==
  IF In(H, "FORM") THEN [H EXCEPT !.form = kind] ELSE [H EXCEPT !.outside = kind]

\* An option or optgroup goes to the current input, if that is a select.
AddOpt(H) ==
  IF Html_get_current_input(H) = "select" THEN Html_add_input(H, "options") ELSE H

(***************************************************************************)
(* The open and close functions of the elements.                           *)
(***************************************************************************)
\* html and body
OpenOnce(H, t) ==
  IF H.Num[t] > 0 THEN [H EXCEPT !.ReqTagClose = TRUE] ELSE [H EXCEPT !.Num[t] = 1]

Html_tag_open_head(H) ==
  LET C == [H EXCEPT !.Num["head"] = IF @ < 2 THEN @ + 1 ELSE @]
  IN IF In(H, "BODY") THEN [H EXCEPT !.ReqTagClose = TRUE]
     ELSE IF In(C, "HEAD") \/ C.Num["head"] > 1 THEN [C EXCEPT !.ReqTagClose = TRUE]
     ELSE Raise(C, "HEAD")

Html_tag_close_head(H) ==
  IF ~In(H, "HEAD") THEN H
  ELSE IF H.Num["head"] = 1 THEN Lower(H, {"HEAD"})
  ELSE [H EXCEPT !.Num["head"] = @ - 1]

Html_tag_close_form(H) == Lower(H, {"FORM", "SELECT", "OPTION", "TEXTAREA"})

\* Mutant: a select that was left open keeps taking options.
Html_tag_open_form_keeps(H) ==
  IF In(H, "FORM") THEN H ELSE [Raise(H, "FORM") EXCEPT !.form = "other"]

Html_tag_open_form(H) ==
  IF In(H, "FORM") THEN H
  ELSE [Raise(Html_tag_close_form(H), "FORM") EXCEPT !.form = "other"]

Html_tag_open_input(H, attr) ==
  IF In(H, "SELECT") \/ In(H, "BUTTON") \/ attr = "unknown" THEN H
  ELSE Html_add_input(H, "other")

\* a form of its own, with one input
Html_tag_open_isindex(H) == IF In(H, "FORM") THEN H ELSE [H EXCEPT !.form = "other"]

Html_tag_open_select(H) ==
  Html_add_input(Raise(Lower(H, {"OPTION"}), "SELECT"), "select")

Html_tag_close_select(H) == IF In(H, "SELECT") THEN Lower(H, {"SELECT", "OPTION"}) ELSE H

Html_tag_open_optgroup(H) ==
  IF ~In(H, "SELECT") \/ In(H, "OPTGROUP") THEN H
  ELSE AddOpt(Raise(Lower(H, {"OPTION"}), "OPTGROUP"))

Html_tag_close_optgroup(H) ==
  IF In(H, "OPTGROUP") THEN Lower(H, {"OPTGROUP", "OPTION"}) ELSE H

Html_tag_open_option(H) == IF In(H, "SELECT") THEN AddOpt(Raise(H, "OPTION")) ELSE H

Html_tag_open_button(H, attr) ==
  LET B == Raise(H, "BUTTON") IN IF attr = "unknown" THEN B ELSE Html_add_input(B, "other")

Open(H, t, attr) ==
  CASE t = "html"     -> OpenOnce(Raise(H, "HTML"), t)
    [] t = "body"     -> OpenOnce(Raise(H, "BODY"), t)
    [] t = "head"     -> Html_tag_open_head(H)
    [] t = "script"   -> SetVerbatim(H)
    [] t = "form"     -> Html_tag_open_form(H)
    [] t = "input"    -> Html_tag_open_input(H, attr)
    [] t = "isindex"  -> Html_tag_open_isindex(H)
    [] t = "select"   -> Html_tag_open_select(H)
    [] t = "optgroup" -> Html_tag_open_optgroup(H)
    [] t = "option"   -> Html_tag_open_option(H)
    [] t = "button"   -> Html_tag_open_button(H, attr)
    [] t = "textarea" -> Raise(H, "TEXTAREA")
    [] t = "a"        -> Raise(H, "A")
    [] t = "pre"      -> Raise(H, "PRE")
    [] OTHER          -> H

Close(H, t) ==
  CASE t = "head"     -> Html_tag_close_head(H)
    [] t = "form"     -> Html_tag_close_form(H)
    [] t = "select"   -> Html_tag_close_select(H)
    [] t = "optgroup" -> Html_tag_close_optgroup(H)
    [] t = "option"   -> Lower(H, {"OPTION"})
    [] t = "button"   -> Lower(H, {"BUTTON"})
    [] t = "textarea" -> Lower(H, {"TEXTAREA"})
    [] t = "a"        -> Lower(H, {"A"})
    [] t = "pre"      -> Lower(H, {"PRE"})
    [] OTHER          -> H

(***************************************************************************)
(* Cleaning up the stack.  Position 1 is the first element: the entry the  *)
(* code keeps below it is left out, so that positions are the code's.      *)
(***************************************************************************)
\* The top element goes, after its close function.
Pop(H) == [Close(H, Top(H).tag) EXCEPT !.stack = Front(@)]

\* Pop down to and including position k, one element at a time.
PopTo(H, k) ==
  LET popped[n \in Nat] == IF n = 0 THEN H ELSE Pop(popped[n - 1])
  IN IF k > Depth(H) THEN H ELSE popped[Depth(H) + 1 - k]

\* Mutant: the body is popped by its end tag, like any other element.
Html_tag_cleanup_to_idx_all(H, k) == PopTo(H, k)

\* Mutant: the body stays at the end of the page, too.
Html_tag_cleanup_to_idx_held(H, k) ==
  PopTo(H, Max({k} \cup {j + 1 : j \in {i \in k .. Depth(H) : H.stack[i].tag = "body"}}))

\* The body stays, unless the page has ended or this is a redundant body.
Html_tag_cleanup_to_idx(H, k) ==
  LET held == {j \in k .. Depth(H) : /\ H.stack[j].tag = "body"
                                     /\ ~In(H, "EOF") /\ ~H.ReqTagClose}
  IN PopTo(H, Max({k} \cup {j + 1 : j \in held}))

Html_triggers_optional_close(old, cur) ==
  \/ old = "p"        /\ cur \notin InlineElement
  \/ old = "li"       /\ cur = "li"
  \/ old = "td"       /\ cur \in {"td", "tr"}
  \/ old = "tr"       /\ cur = "tr"
  \/ old = "optgroup" /\ cur # "option"
  \/ old = "option"

\* Of the controls at these places, the first one that is open.
FirstOpen(H, among) ==
  LET open == {n \in among : In(H, Flag[Controls[n]])}
  IN IF open = {} THEN "none" ELSE Controls[Min(open)]

\* Mutant: a link is not looked at when a control is opened.
Html_forbids_no_a(H, t) ==
  IF t \in ControlTags \ {"a"} THEN FirstOpen(H, 2 .. 4) ELSE "none"

Html_forbids_cross_nesting(H, t) ==
  IF t \in ControlTags THEN FirstOpen(H, 1 .. 4) ELSE "none"

\* The open element old gives way to a new element t.
GivesWay(H, old, t) ==
  /\ ~(In(H, "PRE") /\ t = "hr")
  /\ IF old \in OptionalEnd THEN Html_triggers_optional_close(old, t)
     ELSE /\ t \notin InlineElement /\ old \notin BlockContainer
          /\ ~(old = "a" /\ H.html5)

Html_stack_cleanup_at_open(H, t) ==
  LET fi    == Html_forbids_cross_nesting(H, t)
      stays == IF fi # "none"
               THEN {k - 1 : k \in {j \in 1 .. Depth(H) : H.stack[j].tag = fi}}
               ELSE {k \in 1 .. Depth(H) : ~GivesWay(H, H.stack[k].tag, t)}
  IN Html_tag_cleanup_to_idx(H, Max({0} \cup stays) + 1)

\* The search for the element to close looks below position k of the stack.
PassedBy(H, k, t) ==
  \/ H.stack[k].tag \in OptionalEnd
  \/ t \in ControlTags /\ In(H, Flag[t])
  \/ t \in BlockContainer /\ k \notin NotInlineAt

Html_tag_cleanup_at_close(H, t) ==
  LET match == {k \in 1 .. Depth(H) :
                  /\ H.stack[k].tag = t
                  /\ \A j \in k + 1 .. Depth(H) : H.stack[j].tag # t /\ PassedBy(H, j, t)}
  IN IF match = {} THEN H ELSE Html_tag_cleanup_to_idx(H, Max(match))

(***************************************************************************)
(* The sections html, head and body, opened and closed where the page      *)
(* leaves their tags out.                                                  *)
(***************************************************************************)
ImplicitOpen(H, s) == Open(Html_push_tag(H, s), s, "shown")

Html_test_section(H, t, isClose) ==
  LET root == IF In(H, "HTML") \/ (t = "html" /\ ~isClose) THEN H
              ELSE ImplicitOpen(H, "html")
      body == IF In(root, "HEAD") THEN Html_tag_cleanup_at_close(root, "head") ELSE root
  IN IF t \in HeadElement
     THEN IF In(root, "HEAD") \/ root.Num["head"] > 0 \/ (t = "head" /\ ~isClose)
          THEN root ELSE ImplicitOpen(root, "head")
     ELSE IF t \in BodyElement
     THEN IF t = "body" /\ ~isClose THEN body ELSE ImplicitOpen(body, "body")
     ELSE root

Section(H, t, isClose) ==
  IF In(H, "BODY") THEN H ELSE Html_test_section(H, t, isClose)

(***************************************************************************)
(* Html_process_tag                                                        *)
(***************************************************************************)
\* The style hides the element, or its content function runs.
Display(H, t, attr) ==
  IF attr = "hidden" THEN [H EXCEPT !.stack[Depth(H)].display_none = TRUE]
  ELSE IF t = "textarea" /\ ~Top(H).display_none
  THEN Html_add_input(SetVerbatim(H), "textarea")
  ELSE H

\* Mutant: the request to close is kept for the next tag.
EndNow_again(H, t) == Html_tag_cleanup_at_close(H, t)

EndNow(H, t) == [Html_tag_cleanup_at_close(H, t) EXCEPT !.ReqTagClose = FALSE]

\* <t/> is <t></t>
Opened(H, t, attr) ==
  LET S == Section(H, t, FALSE)
      D == Display(Open(Html_push_tag(Html_stack_cleanup_at_open(S, t), t), t, attr), t, attr)
  IN IF t \in ForbiddenEnd THEN EndNow([D EXCEPT !.ReqTagClose = TRUE], t)
     ELSE IF D.ReqTagClose THEN EndNow(D, t)
     ELSE D

Closed(H, t) == EndNow(Section(H, t, TRUE), t)

\* <t>.  Inside of a verbatim element only its end tag counts.
StartTag(t) ==
  /\ ~In(html, "EOF") /\ ~Top(html).verbatim
  /\ \E attr \in {"shown", "hidden", "unknown"} :
       /\ attr = "unknown" => t \in {"input", "button"}
       /\ attr = "hidden" => t \in Hideable
       /\ html' = Opened(html, t, attr)
  /\ Depth(html') <= MaxDepth

\* </t>
EndTag(t) ==
  /\ ~In(html, "EOF")
  /\ Top(html).verbatim => t = Top(html).tag
  /\ html' = Closed(html, t)
  /\ Depth(html') <= MaxDepth

(***************************************************************************)
(* The end of the page: finishParsing, one round of its loop at a time.    *)
(***************************************************************************)
Eof == ~In(html, "EOF") /\ html' = Raise(html, "EOF")

CloseLeftOpen ==
  /\ In(html, "EOF") /\ html.stack # <<>>
  /\ html' = Html_tag_cleanup_at_close(html, Top(html).tag)

Finish ==
  /\ In(html, "EOF") /\ html.stack = <<>> /\ html.InFlags # {"EOF"}
  /\ html' = [html EXCEPT !.InFlags = {"EOF"}]

Next ==
  \/ \E t \in Occurring : StartTag(t) \/ EndTag(t)
  \/ Eof
  \/ CloseLeftOpen
  \/ Finish

Spec == Init /\ [][Next]_vars

-----------------------------------------------------------------------------
(***************************************************************************)
(* Properties                                                              *)
(***************************************************************************)
TypeOK == html \in ParserType /\ ~html.ReqTagClose

Occurs(t) == Cardinality({k \in 1 .. Depth(html) : html.stack[k].tag = t})

(* The flags of the sections are those of the stack: the head is on it when
   IN_HEAD says so and not beside a body, and once there is a body it stays,
   alone, to the end of the page, whatever end tags and second sections come
   (html.cc:3741-3745, 3878-3906). *)
SectionsMatch ==
  /\ Occurs("html") <= 1
  /\ Occurs("head") = IF In(html, "HEAD") THEN 1 ELSE 0
  /\ ~In(html, "EOF") => Occurs("body") = IF In(html, "BODY") THEN 1 ELSE 0
  /\ Occurs("head") = 0 \/ Occurs("body") = 0

(* A link, a button, a select and a text area are never open in one another,
   so what form.cc:647, 770 and 958 assert holds when the next one is opened;
   the flags of a link and a button are those of the stack. *)
ControlsApart ==
  /\ Cardinality({c \in ControlTags : In(html, Flag[c])}) <= 1
  /\ Occurs("a") = IF In(html, "A") THEN 1 ELSE 0
  /\ Occurs("button") = IF In(html, "BUTTON") THEN 1 ELSE 0
  /\ In(html, "SELECT") => Occurs("select") > 0
  /\ In(html, "TEXTAREA") => Occurs("textarea") > 0
  /\ (~Top(html).verbatim /\ ~In(html, "EOF")) =>
       \A t \in {"button", "select", "textarea"} :
         ~\E f \in {"BUTTON", "SELECT", "TEXTAREA"} :
            In(Html_stack_cleanup_at_open(Section(html, t, FALSE), t), f)

(* The functions for option, optgroup, select and textarea take the last input
   of the current form, or of the page, for the element they are inside of and
   cast it (form.cc:749, 837, 2123): it is that element, and an open option is
   in it. *)
InputIsCurrent ==
  LET current == Html_get_current_input(html)
  IN /\ In(html, "SELECT") => current \in {"select", "options"}
     /\ In(html, "OPTION") \/ In(html, "OPTGROUP") =>
          In(html, "SELECT") /\ current = "options"
     /\ Top(html).tag = "textarea" /\ Top(html).verbatim =>
          In(html, "TEXTAREA") /\ current = "textarea"

(* The loop of finishParsing ends, and leaves nothing open (html.cc:651-659):
   each of its rounds makes the stack smaller, and when it is empty the close
   functions have lowered every flag but those of html and body, which have no
   other end. *)
EofCloses ==
  In(html, "EOF") =>
    IF html.stack = <<>> THEN html.InFlags \subseteq {"EOF", "HTML", "BODY"}
    ELSE Depth(Html_tag_cleanup_at_close(html, Top(html).tag)) < Depth(html)

(* "Let a block container close inline elements left open inside it"
   (html.cc:3835), and besides them only what needs no end tag: never a table
   or a block that was opened inside. *)
BlockClosesInline ==
  [][\A t \in BlockContainer \ {"html", "head", "body"} :
       html' = Closed(html, t) /\ In(html, "BODY") /\ Depth(html') < Depth(html) =>
         \A k \in Depth(html') + 2 .. Depth(html) :
           html.stack[k].tag \in OptionalEnd \cup InlineElement \cup InlineContainer]_vars

(* "only pop {BODY,HTML} upon EOF or redundancy" (html.cc:3744): the elements
   html and body, once open, stay on the stack to the end of the page. *)
RootKept ==
  [][\A s \in {"html", "body"} : Occurs(s) = 1 /\ ~In(html, "EOF") => Occurs(s)' = 1]_vars
=============================================================================
