---------------------------- MODULE ShellScanner ----------------------------
(***************************************************************************)
(* scan_shell of csp-shell/src/scan.rs: the walk over a shell that lists   *)
(* the digest of every inline script.  Each action is one way through the  *)
(* body of the loop in scan_normalised.  The digest of a text is the text: *)
(* SHA-256 is taken to be injective.                                       *)
(***************************************************************************)
EXTENDS Markup

CONSTANT Documents    \* the shells that may be scanned

ASSUME DocumentTypes == Documents \subseteq Seq(Token)

VARIABLES
    shell,      \* the shell, the argument of scan_shell
    html,       \* the preprocessed document, once there is one
    cursor,     \* the position the search goes on from
    digest,     \* ScanResult.digest
    hashes,     \* ScanResult.hashes
    warnings,   \* ScanResult.warnings, as a set
    phase       \* "idle", "scanning" or "done"

vars == <<shell, html, cursor, digest, hashes, warnings, phase>>

Warning == {"NulInScriptData", "AmbiguousTagBoundary", "UnterminatedTag",
            "UnterminatedScriptElement"}

-----------------------------------------------------------------------------
StripBom(s) == IF s # <<>> /\ s[1] = Bom THEN Tail(s) ELSE s

\* A faulty normalize_newlines: a CR on its own stays.
NormalizePairs(s) ==
    LET out[i \in 0..Len(s)] ==
            IF i = 0 THEN <<>>
            ELSE IF s[i] = CR /\ i < Len(s) /\ s[i + 1] = LF THEN out[i - 1]
            ELSE Append(out[i - 1], s[i])
    IN  out[Len(s)]

\* normalize_newlines: a CR becomes LF, and the LF after it goes.
NormalizeNewlines(s) ==
    LET out[i \in 0..Len(s)] ==
            IF i = 0 THEN <<>>
            ELSE IF s[i] = CR THEN Append(out[i - 1], LF)
            ELSE IF s[i] = LF /\ i > 1 /\ s[i - 1] = CR THEN out[i - 1]
            ELSE Append(out[i - 1], s[i])
    IN  out[Len(s)]

TagNameBoundary == White \cup {Slash, Gt}

AttributeBoundary == White \cup {Slash}

\* A faulty find_close_tag: any name that begins with "script" closes the element.
FindCloseBlindly(s, from) == First({i \in from..Len(s) : s[i] = Close})

\* find_close_tag; a document that ends in the name counts as closed.
FindCloseTag(s, from) ==
    First({i \in from..Len(s) :
              s[i] = Close /\ (i = Len(s) \/ s[i + 1] \in TagNameBoundary)})

\* The quote that is open after each of the first i tokens of an attribute region.
QuoteAfter(attributes) ==
    LET open[i \in 0..Len(attributes)] ==
            IF i = 0 THEN "none"
            ELSE LET q == open[i - 1]
                     c == attributes[i]
                 IN  IF q = c THEN "none" ELSE IF q = "none" /\ c \in Quote THEN c ELSE q
    IN  open

\* A faulty ends_inside_quotes: minds double quotes only.
EndsInDoubleQuotes(attributes) == QuoteAfter(attributes)[Len(attributes)] = DoubleQuote

\* ends_inside_quotes: the ">" that ended the tag was part of a value.
EndsInsideQuotes(attributes) == QuoteAfter(attributes)[Len(attributes)] # "none"

\* A faulty has_src_attribute: does not mind quotes.
HasSrcAnywhere(attributes) ==
    \E i \in 1..(Len(attributes) - 1) : attributes[i] = Src /\ attributes[i + 1] = Equals

\* has_src_attribute: outside quotes, at an attribute boundary, before an "=".
HasSrcAttribute(attributes) ==
    \E i, e \in DOMAIN attributes :
        /\ attributes[i] = Src
        /\ QuoteAfter(attributes)[i - 1] = "none"
        /\ i = 1 \/ attributes[i - 1] \in AttributeBoundary
        /\ i < e /\ attributes[e] = Equals
        /\ \A k \in (i + 1)..(e - 1) : attributes[k] \in White

PushUnique(v, x) == IF \E i \in DOMAIN v : v[i] = x THEN v ELSE Append(v, x)

-----------------------------------------------------------------------------
\* The next opening tag, the position after its name, its end, its attributes.
TagStart == First({i \in cursor..Len(html) : html[i] = Open})
AfterName == TagStart + 1
TagEnd == First({i \in AfterName..Len(html) : html[i] = Gt})
Attributes == SubSeq(html, AfterName, TagEnd - 1)

Init ==
    /\ shell = <<>> /\ html = <<>> /\ cursor = 1
    /\ digest = <<>> /\ hashes = <<>> /\ warnings = {}
    /\ phase = "idle"

\* scan_shell, up to the walk.
ScanShell(argument) ==
    /\ shell' = argument
    /\ digest' = argument
    /\ html' = NormalizeNewlines(StripBom(argument))
    /\ phase' = "scanning"
    /\ UNCHANGED <<cursor, hashes, warnings>>

Stop(ws) ==
    /\ warnings' = warnings \cup ws
    /\ phase' = "done"
    /\ UNCHANGED <<shell, html, cursor, digest, hashes>>

Resume(at) ==
    /\ cursor' = at
    /\ UNCHANGED <<shell, html, digest, phase>>

\* No further opening tag.
Finish == phase = "scanning" /\ TagStart = 0 /\ Stop({})

\* The document ends in the name of a tag.
NameAtTheEnd ==
    /\ phase = "scanning" /\ TagStart # 0 /\ AfterName > Len(html)
    /\ Stop({"UnterminatedTag"})

\* From here on the name is followed by something.
AtName == phase = "scanning" /\ TagStart # 0 /\ AfterName <= Len(html)

\* A faulty resumption after a name that only begins with "script".
SkipToTheSameName ==
    /\ AtName /\ html[AfterName] \notin TagNameBoundary
    /\ Resume(TagStart)
    /\ UNCHANGED <<hashes, warnings>>

\* <scriptfoo> is not a script.
SkipOtherName ==
    /\ AtName /\ html[AfterName] \notin TagNameBoundary
    /\ Resume(AfterName)
    /\ UNCHANGED <<hashes, warnings>>

AtTag == AtName /\ html[AfterName] \in TagNameBoundary

ClosedTooEarly ==
    LET close == FindCloseTag(html, AfterName) IN close # 0 /\ close < TagEnd

\* The tag has no end, or the element is closed before it.
TagWithoutEnd ==
    /\ AtTag /\ (TagEnd = 0 \/ ClosedTooEarly)
    /\ Stop({"UnterminatedTag"})

AtElement == AtTag /\ TagEnd # 0 /\ ~ClosedTooEarly

\* A faulty skip of an external script: two tokens past the end of the tag.
SkipTooFar ==
    /\ AtElement /\ HasSrcAttribute(Attributes)
    /\ Resume(TagEnd + 2)
    /\ UNCHANGED <<hashes, warnings>>

\* An external script needs no hash.
SkipExternal ==
    /\ AtElement /\ HasSrcAttribute(Attributes)
    /\ Resume(TagEnd + 1)
    /\ UNCHANGED <<hashes, warnings>>

Ambiguity == IF EndsInsideQuotes(Attributes) THEN {"AmbiguousTagBoundary"} ELSE {}

\* The element is never closed.
ElementWithoutEnd ==
    /\ AtElement /\ ~HasSrcAttribute(Attributes)
    /\ FindCloseTag(html, TagEnd + 1) = 0
    /\ Stop(Ambiguity \cup {"UnterminatedScriptElement"})

\* The text up to the closing tag gets its hash.
HashInline ==
    /\ AtElement /\ ~HasSrcAttribute(Attributes)
    /\ LET end     == FindCloseTag(html, TagEnd + 1)
           content == SubSeq(html, TagEnd + 1, end - 1)
       IN  /\ end # 0
           /\ hashes' = PushUnique(hashes, content)
           /\ warnings' = warnings \cup Ambiguity \cup
                  (IF \E i \in DOMAIN content : content[i] = Nul
                   THEN {"NulInScriptData"} ELSE {})
           /\ Resume(end + 1)

Walk ==
    \/ Finish
    \/ NameAtTheEnd
    \/ SkipOtherName
    \/ TagWithoutEnd
    \/ SkipExternal
    \/ ElementWithoutEnd
    \/ HashInline

Next ==
    \/ phase = "idle" /\ \E argument \in Documents : ScanShell(argument)
    \/ Walk

\* Once called, the loop runs until it returns.
Spec == Init /\ [][Next]_vars /\ WF_vars(Walk)
=============================================================================
