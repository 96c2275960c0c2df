--------------------------- MODULE HtmlToPlainText ---------------------------
(***************************************************************************)
(* htmlToPlainText: the copy of an HTML message that is sent without       *)
(* markup when Telegram refuses the HTML.  A text is a sequence of tokens: *)
(* a word, a white space, an entity, or a whole tag; "<" and ">" are signs *)
(* that belong to no tag.  The text's length limit (65,536) is far above   *)
(* what the program sends and is left out.                                 *)
(*                                                                         *)
(* Each pass is given by what it writes for each place of the text, so     *)
(* that Replies_proofs can put the passes together.                        *)
(***************************************************************************)
EXTENDS Integers, Sequences, SequencesExt

Newline == "newline"
Space   == "space"
Bullet  == "- "
Link    == "<a href=url>"

\* BLOCK_START_NEWLINE and BLOCK_END_NEWLINE; one tag stands for its kind.
BlockStart == {"<p>", "<ul>"}
BlockEnd   == {"</p>", "</li>", "</ul>"}
Anchors == {Link, "<a>"}
Tags == BlockStart \cup BlockEnd \cup Anchors
          \cup {"<li>", "<b>", "</b>", "<br>", "</a>"}

\* The tokens at some of the places of a text
Kept(text, places) ==
  FlattenSeq([i \in DOMAIN text |-> IF i \in places THEN <<text[i]>> ELSE <<>>])

\* The anchor tags before a place that no "</a>" has closed there
OpenBefore(text, i) ==
  {j \in 1..(i - 1) : text[j] \in Anchors /\ \A k \in j..(i - 1) : text[k] # "</a>"}

\* extractHref, and how it is appended to the label
UrlAfterLabel(open) == IF open = Link THEN <<" (", "url", ")">> ELSE <<>>

\* replaceAnchorTags: an anchor runs to the next "</a>"; without one its tag
\* is left to stripTags.  What lies between is copied, other tags included.
ReplacedAnchor(text, i) ==
  LET open == OpenBefore(text, i)
  IN  CASE /\ text[i] \in Anchors /\ open = {}
           /\ \E j \in (i + 1)..Len(text) : text[j] = "</a>" -> <<>>
        [] text[i] = "</a>" /\ open # {} -> UrlAfterLabel(text[Min(open)])
        [] OTHER -> <<text[i]>>

ReplaceAnchorTags(text) ==
  FlattenSeq([i \in DOMAIN text |-> ReplacedAnchor(text, i)])

\* replaceBrTags
ReplaceBrTags(text) ==
  [i \in DOMAIN text |-> IF text[i] = "<br>" THEN Newline ELSE text[i]]

\* applyStructuralTags: the tag itself is kept.
Structured(t) == CASE t \in BlockStart \cup BlockEnd -> <<Newline, t>>
                   [] t = "<li>" -> <<Bullet, t>>
                   [] OTHER -> <<t>>

ApplyStructuralTags(text) ==
  FlattenSeq([i \in DOMAIN text |-> Structured(text[i])])

\* stripTags: a "<" that opens no tag hides everything up to the next ">".
StripTags(text) ==
  LET InTag(i) == \E j \in 1..(i - 1) :
                    /\ text[j] = "<"
                    /\ \A k \in j..(i - 1) : text[k] \notin Tags \cup {">"}
  IN  Kept(text, {i \in DOMAIN text : /\ text[i] \notin Tags \cup {"<", ">"}
                                      /\ ~InTag(i)})

\* decodeHtmlEntities.  The ampersand is not decoded last: what begins as an
\* escaped ampersand and goes on like an entity is decoded twice.
Decoded(t) == CASE t = "&nbsp;" -> Space
                [] t = "&amp;"  -> "&"
                [] t \in {"&lt;", "&amp;lt;"} -> "<"
                [] t = "&gt;"   -> ">"
                [] t = "&quot;" -> "quote"
                [] t = "&#39;"  -> "apostrophe"
                [] OTHER -> t

DecodeHtmlEntities(text) == [i \in DOMAIN text |-> Decoded(text[i])]

\* collapseWhitespace: a space before a newline goes (only the one next to
\* it), and so does every newline after the second of a run.
CollapseWhitespace(text) ==
  LET At(i) == IF i \in DOMAIN text THEN text[i] ELSE "none"
      Dropped(i) == \/ text[i] = Space /\ At(i + 1) = Newline
                    \/ \A j \in (i - 2)..i : At(j) = Newline
  IN  Kept(text, {i \in DOMAIN text : ~Dropped(i)})

\* String.prototype.trim
Trim(text) ==
  LET printed == {i \in DOMAIN text : text[i] \notin {Newline, Space}}
  IN  Kept(text, {i \in DOMAIN text : \E j, k \in printed : j <= i /\ i <= k})

\* MUTANT of HtmlToPlainText: entities are decoded while there are tags.
HtmlToPlainText_DecodesFirst(html) ==
  Trim(CollapseWhitespace(StripTags(ApplyStructuralTags(ReplaceBrTags(
    ReplaceAnchorTags(DecodeHtmlEntities(html)))))))

HtmlToPlainText(html) ==
  Trim(CollapseWhitespace(DecodeHtmlEntities(StripTags(ApplyStructuralTags(
    ReplaceBrTags(ReplaceAnchorTags(html)))))))

-----------------------------------------------------------------------------
(* What a reader takes from a text, without regard to the passes.           *)

\* Of a plain text the words and signs, not the layout
Layout == {Newline, Space, Bullet, " (", ")"}
Words(text) == Kept(text, {i \in DOMAIN text : text[i] \notin Layout})

\* Of an HTML text the words and signs it shows, and behind each link where
\* it leads
ShownAt(html, i) ==
  CASE html[i] \notin Tags -> Words(<<Decoded(html[i])>>)
    [] html[i] = "</a>" /\ (\E j \in OpenBefore(html, i) : html[j] = Link) -> <<"url">>
    [] OTHER -> <<>>

Shown(html) == FlattenSeq([i \in DOMAIN html |-> ShownAt(html, i)])

\* The texts the program writes: names are escaped, and have no ampersand to
\* escape, and anchors are not nested.
WellFormed(html) ==
  \A i \in DOMAIN html :
    /\ html[i] \notin {"<", ">", "&amp;lt;"}
    /\ html[i] \in Anchors => OpenBefore(html, i) = {}
=============================================================================
