--------------------------- MODULE MCShellScanner ---------------------------
(***************************************************************************)
(* Documents to scan: every way to put a few pieces of markup one after    *)
(* another, between a fixed beginning and a fixed end.                     *)
(***************************************************************************)
EXTENDS ScannerRequirements

CONSTANTS a, MaxPieces

\* Elements one after another, inside each other and cut short.
Structure ==
    <<<<Open, Gt>>, <<Open, Blank, Src, Equals, a, Gt>>, <<Close, Gt>>, <<Open>>,
      <<Close>>, <<Blank>>, <<a>>>>

\* What may stand in the opening tag of a script.
OpeningTag ==
    <<<<Src>>, <<Equals>>, <<DoubleQuote>>, <<SingleQuote>>, <<Slash>>, <<Blank>>, <<a>>,
      <<Gt>>>>

\* What may stand in the text of a script, which takes one piece less.
Text ==
    <<<<CR>>, <<LF>>, <<Bom>>, <<Nul>>, <<Replacement>>, <<a>>, <<Close>>, <<Open>>,
      <<Blank>>>>

\* Whole tags, whole comments and text.
Commented == <<<<CommentOpen>>, <<Dashes, Gt>>, <<Open, Gt>>, <<Close, Gt>>, <<a>>>>

Plain(pieces) == [before |-> <<>>, pieces |-> pieces, after |-> <<>>, most |-> MaxPieces]

Context ==
    {Plain(Structure), Plain(Commented),
     [before |-> <<Open, Blank>>, pieces |-> OpeningTag,
      after |-> <<Gt, a, Close, Gt>>, most |-> MaxPieces],
     [before |-> <<Bom, Open, Gt>>, pieces |-> Text,
      after |-> <<Close, Gt>>, most |-> MaxPieces - 1]}

Choice == UNION {[1..n -> 1..9] : n \in 0..MaxPieces}

Fits(context, choice) ==
    /\ Len(choice) <= context.most
    /\ \A i \in DOMAIN choice : choice[i] <= Len(context.pieces)

Document(context, choice) ==
    context.before \o FlattenSeq([i \in DOMAIN choice |-> context.pieces[choice[i]]])
                   \o context.after

DocumentsIn(contexts) ==
    {Document(of[1], of[2]) : of \in {c \in contexts \X Choice : Fits(c[1], c[2])}}

AllDocuments == DocumentsIn(Context)

Comments == DocumentsIn({Plain(Commented)})
=============================================================================
