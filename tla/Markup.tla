------------------------------- MODULE Markup -------------------------------
(***************************************************************************)
(* A document, as a sequence of tokens: the runs of characters that the    *)
(* scanner of csp-shell or a browser tells apart.  A tag name stands for   *)
(* any spelling of its case, Blank for a space, a tab or a form feed.      *)
(* CommentOpen stands for the four characters and a letter after them; a   *)
(* comment ends at Dashes followed by Gt.                                  *)
(***************************************************************************)
EXTENDS Naturals, Sequences

CONSTANT Letter    \* characters that mean nothing to either reader

Open == "<script"
Close == "</script"
Gt == ">"
Slash == "/"
Equals == "="
Src == "src"
DoubleQuote == "double-quote"
SingleQuote == "single-quote"
Blank == "blank"
LF == "LF"
CR == "CR"
Bom == "byte-order-mark"
Nul == "U+0000"
Replacement == "U+FFFD"
CommentOpen == "<!--"
Dashes == "--"

Token == {Open, Close, Gt, Slash, Equals, Src, DoubleQuote, SingleQuote, Blank, LF,
          CR, Bom, Nul, Replacement, CommentOpen, Dashes} \cup Letter

Quote == {DoubleQuote, SingleQuote}
White == {Blank, LF}

\* The least element of a set of positions, 0 if there is none.
First(positions) ==
    IF positions = {} THEN 0
    ELSE CHOOSE i \in positions : \A j \in positions : i <= j
=============================================================================
