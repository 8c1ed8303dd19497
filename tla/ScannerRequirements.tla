------------------------ MODULE ScannerRequirements ------------------------
(***************************************************************************)
(* What the scan of a shell owes the browser that is going to read it.     *)
(***************************************************************************)
EXTENDS ShellScanner, HtmlReader, SequencesExt

Hashed == ToSet(hashes)

\* Every field has its type, and the search never starts outside the document.
ScannerTypeOK ==
    /\ shell \in Seq(Token)
    /\ html \in Seq(Token)
    /\ cursor \in 1..(Len(html) + 1)
    /\ digest \in {<<>>, shell}
    /\ hashes \in Seq(Seq(Token))
    /\ warnings \subseteq Warning
    /\ phase \in {"idle", "scanning", "done"}

\* The texts between the end of a tag and a closing tag of t: what the scan hashes.
Enclosed(t) ==
    LET ends   == {i \in DOMAIN t : t[i] = Gt}
        closes == {i \in DOMAIN t : t[i] = Close}
    IN  {SubSeq(t, at[1] + 1, at[2] - 1) : at \in ends \X closes}

-----------------------------------------------------------------------------
Tag == {"tag-name", "between", "name", "after-name", "before-value", "unquoted"} \cup Quote

\* The markup a bundler emits: the opening of a script is written only where it
\* opens one or in the text of an inline script, quotes stand only around the values
\* of attributes, and values that hold a slash or "src" are quoted.
Ordinary(s) ==
    LET t    == InputStream(s)
        read == Reading(t)
    IN  \A i \in DOMAIN t :
            /\ t[i] = Open =>
                  \/ read[i - 1].mode = "data"
                  \/ read[i - 1].mode \notin Tag \cup {"comment"} /\ ~read[i - 1].src
            /\ read[i].mode # "double"
            /\ read[i].mode \in {"name", "unquoted"} => t[i] \notin Quote
            /\ read[i].mode = "unquoted" => t[i] \notin {Slash, Src}

\* The document ends between two elements.
Complete(s) == LET t == InputStream(s) IN Reading(t)[Len(t)].mode = "data"

\* Every inline script of an ordinary shell has its hash in the result of a scan
\* without warnings: a missing one is a script the browser refuses under a header
\* that looks right (scan_normalised, find_close_tag, has_src_attribute and
\* normalize_newlines).
FindsEveryInlineScript ==
    phase = "done" /\ warnings = {} /\ Ordinary(shell) => InlineScripts(shell) \subseteq Hashed

\* A hash in the result of such a scan is that of the text of a script element: the
\* scan never makes up a script that does not exist (find_close_tag).
HashesAreOfScripts ==
    phase = "done" /\ warnings = {} /\ Ordinary(shell) /\ Complete(shell)
        => Hashed \subseteq ScriptElements(shell)

\* README.md of csp-shell: anything accepted is reported in ScanResult::warnings, so
\* a scan that misses a script of a complete shell says so.
LimitsAreReported ==
    phase = "done" /\ Complete(shell) /\ ~(InlineScripts(shell) \subseteq Hashed)
        => warnings # {}
=============================================================================
