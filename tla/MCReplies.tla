------------------------------ MODULE MCReplies ------------------------------
(* A small world for the replies, and the examples of the repository's      *)
(* tests of the plain copy and of the manifests.                            *)
EXTENDS Replies

\* What a text for an owner is put together from; formatSenderRefHtml makes
\* the first.  A text has at most two of these.
Pieces == {
  [html |-> <<Link, "@name", "</a>">>,           shown |-> <<"@name", "url">>],
  [html |-> <<"<b>", "bold", "</b>">>,           shown |-> <<"bold">>],
  [html |-> <<"word", Space, Newline, Newline>>, shown |-> <<"word">>],
  [html |-> <<"<p>", "par", "<br>", "</p>">>,    shown |-> <<"par">>],
  [html |-> <<"<li>", "item", "</li>">>,         shown |-> <<"item">>],
  [html |-> <<"&lt;", "&amp;", "&nbsp;">>,       shown |-> <<"<", "&">>] }

AnyBodies ==
  {FlattenSeq([i \in DOMAIN ps |-> ps[i].html]) : ps \in BoundedSeq(Pieces, 2)}

\* What a reader sees of each, written down by hand
ASSUME ShownPieces == \A p \in Pieces : Shown(p.html) = p.shown

V(weight, block, media) == [weight |-> weight, blockFile |-> block, media |-> media]

\* The weights of the shipped manifests; two variants each, in equal and in
\* different shares; manifests that do not load.
AnyManifests ==
  LET Both(w, b) == (Warning :> w) @@ (Blocking :> b)
  IN  { Both(<<V(0, FALSE, TRUE), V(1, FALSE, TRUE)>>,
             <<V(1, FALSE, FALSE), V(0, FALSE, FALSE)>>),
        Both(<<V(1, FALSE, FALSE), V(0, FALSE, TRUE), V(2, FALSE, TRUE)>>,
             <<V(1, TRUE, FALSE), V(2, TRUE, FALSE)>>),
        Both(<<V(1, FALSE, FALSE), V(1, FALSE, TRUE)>>,
             <<V(2, FALSE, FALSE), V(1, FALSE, FALSE)>>),
        Both(<<V(0, FALSE, FALSE)>>, <<V(1, FALSE, FALSE)>>),
        Both(<<V(1, TRUE, FALSE), V(1, FALSE, TRUE)>>, <<V(1, TRUE, FALSE)>>) }

SomeHashes == {0, 5}

\* html-to-plain-text.test.ts
ASSUME TestedAnchor ==
  HtmlToPlainText(<<Link, "Click", "</a>">>) = <<"Click", " (", "url", ")">>
ASSUME TestedEntities ==
  HtmlToPlainText(<<"<p>", "Hi", "&nbsp;", "&amp;", Space, "<b>", "there",
                    "</b>", "</p>">>) = <<"Hi", Space, "&", Space, "there">>
ASSUME TestedList ==
  HtmlToPlainText(<<"<ul>", "<li>", "one", "</li>", "<li>", "two", "</li>",
                    "</ul>", Newline, Newline, Newline>>)
    = <<Bullet, "one", Newline, Bullet, "two">>
=============================================================================
