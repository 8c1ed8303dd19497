---------------------------- MODULE ScannerProofs ----------------------------
(***************************************************************************)
(* Proofs about the scan of a shell.  The scanner and the browser walk the *)
(* same document; the inductive invariant says where the browser stands    *)
(* when the scanner has got to its cursor, and what the hashes are to the  *)
(* scripts the browser has seen by then.                                   *)
(***************************************************************************)
EXTENDS ScannerRequirements, IterationTheorems, SequenceTheorems

\* What the tokenizer is in after the name of a tag, up to its end.
InTag == Tag \ {"tag-name"}

\* What the tokenizer is in when it is in the text of a script.
InText == {"text", "escaped", "maybe-end", "maybe-double"}

\* The browser, in the state r, has no script open whose text the hashes H miss, and
\* it has seen the end of every script whose text is in H, but for one that it is in
\* the closing tag of.
Behind(r, H) ==
    /\ r.inline \subseteq H
    /\ \/ /\ \/ r.mode \in {"data", "comment"}
             \/ r.mode \in Tag /\ r.tag = "other"
             \/ r.mode \in Tag /\ r.tag = "script" /\ r.src
             \/ r.mode \in InText /\ r.src
          /\ H \subseteq r.all
       \/ /\ r.mode \in InTag /\ r.tag = "end"
          /\ r.back = "external" \/ r.text \in H
          /\ H \subseteq r.all \cup {r.text}

\* It has read the name of an opening tag that is about to turn out another name.
InOtherName(r, c, H) ==
    /\ r.inline \subseteq H /\ H \subseteq r.all
    /\ r.mode = "tag-name" /\ r.tag = "script" /\ c \notin TagNameBoundary

\* It has read the name of the closing tag of a script that has its hash.
InClosingName(r, H) ==
    /\ r.inline \subseteq H /\ H \subseteq r.all \cup {r.text}
    /\ r.mode = "maybe-end" /\ r.text \in H

\* Where the browser stands after k tokens of t.
Met(t, k, H) ==
    LET r == Reading(t)[k]
    IN  \/ Behind(r, H)
        \/ k < Len(t) /\ InOtherName(r, t[k + 1], H)
        \/ InClosingName(r, H) /\ (k < Len(t) => t[k + 1] \in TagNameBoundary)

\* Where it stands at the end.
MetAtEnd(t, H) ==
    LET r == Reading(t)[Len(t)]
    IN  r.inline \subseteq H /\ (r.mode = "data" => H \subseteq r.all)

\* The invariant that the scan without warnings of an ordinary shell preserves.
SInv ==
    /\ ScannerTypeOK
    /\ phase = "idle" => cursor = 1 /\ hashes = <<>> /\ warnings = {}
    /\ phase # "idle" => html = InputStream(shell)
    /\ warnings = {} /\ Ordinary(shell) =>
          /\ phase = "scanning" => Met(html, cursor - 1, Hashed)
          /\ phase = "done" => MetAtEnd(html, Hashed)

-----------------------------------------------------------------------------
(***************************************************************************)
(* The browser, token by token.                                            *)
(***************************************************************************)

Modes == {"data", "comment"} \cup Tag \cup InText \cup {"double", "maybe-escaped"}

Readers ==
    [mode : Modes, tag : {"other", "script", "end"},
     name : {"other", "src", "text", "escaped"}, src : BOOLEAN, text : Seq(Token),
     back : {"text", "external"}, inline : SUBSET Seq(Token), all : SUBSET Seq(Token)]

\* What changes neither the scripts seen, nor the text of the current one.
SameScripts(r, q) == q.inline = r.inline /\ q.all = r.all /\ q.text = r.text

\* Nor which tag the browser is in.
SameTag(r, q) == SameScripts(r, q) /\ q.tag = r.tag /\ q.back = r.back

\* Entering a mode changes nothing else.
LEMMA ModeIs ==
    ASSUME NEW r \in Readers, NEW m \in Modes, NEW q, q = Mode(r, m)
    PROVE  /\ q \in Readers /\ q.mode = m
           /\ SameTag(r, q) /\ q.src = r.src /\ q.name = r.name
BY DEF Mode, Readers, SameTag, SameScripts

\* Every token of a script joins its text, a U+0000 as its replacement.
LEMMA AddIs ==
    ASSUME NEW r \in Readers, NEW c \in Token, NEW q, q = Add(r, c)
    PROVE  /\ q \in Readers /\ q.mode = r.mode
           /\ q.inline = r.inline /\ q.all = r.all /\ q.tag = r.tag /\ q.back = r.back
           /\ q.src = r.src /\ q.name = r.name
           /\ c # Nul => q.text = Append(r.text, c)
<1> DEFINE d == IF c = Nul THEN Replacement ELSE c
           v == Append(r.text, d)
<1>1. d \in Token
  BY DEF Token
<1>2. r.text \in Seq(Token)
  BY DEF Readers
<1>3. v \in Seq(Token)
  <2> HIDE DEF d
  <2> QED BY <1>1, <1>2
<1>4. q = [r EXCEPT !.text = v]
  BY DEF Add
<1>5. c # Nul => v = Append(r.text, c)
  OBVIOUS
<1> HIDE DEF v
<1> QED BY <1>3, <1>4, <1>5 DEF Readers

\* A tag begins without attributes.
LEMMA BeginTagIs ==
    ASSUME NEW r \in Readers, NEW tag \in {"other", "script"}, NEW q, q = BeginTag(r, tag)
    PROVE  /\ q \in Readers /\ q.mode = "tag-name" /\ q.tag = tag /\ ~q.src
           /\ SameScripts(r, q)
BY DEF BeginTag, Readers, SameScripts, Modes, Tag

\* An attribute name begins.
LEMMA BeginNameIs ==
    ASSUME NEW r \in Readers, NEW c, NEW q, q = BeginName(r, c)
    PROVE  /\ q \in Readers /\ q.mode = "name" /\ SameTag(r, q) /\ q.src = r.src
           /\ c = Src => q.name = "src"
BY DEF BeginName, Readers, SameTag, SameScripts, Modes, Tag

\* An attribute name ends.
LEMMA NamedIs ==
    ASSUME NEW r \in Readers, NEW q, q = Named(r)
    PROVE  /\ q \in Readers /\ q.mode = r.mode /\ SameTag(r, q)
           /\ r.src \/ r.name = "src" => q.src
BY DEF Named, Readers, SameTag, SameScripts

\* A tag ends; the end tag of a script puts its text into the document.
LEMMA EndTagIs ==
    ASSUME NEW r \in Readers, NEW q, q = EndTag(r)
    PROVE  /\ q \in Readers /\ q.src = r.src
           /\ r.tag = "script" => /\ q.mode = "text" /\ q.text = <<>>
                                  /\ q.inline = r.inline /\ q.all = r.all
           /\ r.tag = "end" => /\ q.mode = "data" /\ q.all = r.all \cup {r.text}
                               /\ r.back = "external" => q.inline = r.inline
                               /\ q.inline \subseteq r.inline \cup {r.text}
           /\ r.tag = "other" => q.mode = "data" /\ SameScripts(r, q)
<1>1. r.tag \in {"other", "script", "end"} /\ <<>> \in Seq(Token)
  BY DEF Readers
<1>2. {"text", "data"} \subseteq Modes
  BY DEF Modes, InText
<1>3. CASE r.tag = "script"
  <2>1. q = [r EXCEPT !.mode = "text", !.text = <<>>]
    BY <1>3 DEF EndTag
  <2> QED BY <1>1, <1>2, <1>3, <2>1 DEF Readers
<1>4. CASE r.tag = "end"
  <2> DEFINE all == r.all \cup {r.text}
             inline == IF r.back = "external" THEN r.inline ELSE r.inline \cup {r.text}
  <2>1. q = [r EXCEPT !.mode = "data", !.all = all, !.inline = inline]
    BY <1>4 DEF EndTag
  <2>2. all \in SUBSET Seq(Token) /\ inline \in SUBSET Seq(Token)
    BY DEF Readers
  <2>3. /\ all = r.all \cup {r.text} /\ inline \subseteq r.inline \cup {r.text}
        /\ r.back = "external" => inline = r.inline
    OBVIOUS
  <2> HIDE DEF all, inline
  <2>4. q \in Readers /\ q.mode = "data" /\ q.all = all /\ q.inline = inline /\ q.src = r.src
    BY <1>2, <2>1, <2>2 DEF Readers
  <2> QED BY <1>4, <2>3, <2>4
<1>5. CASE r.tag = "other"
  <2>1. q = Mode(r, "data")
    BY <1>5 DEF EndTag
  <2> QED BY <1>2, <1>5, <2>1, ModeIs DEF SameTag
<1> QED BY <1>1, <1>3, <1>4, <1>5

\* Between two attributes.
LEMMA BetweenIs ==
    ASSUME NEW r \in Readers, NEW c, NEW q, q = Between(r, c)
    PROVE  /\ c \in White \cup {Slash} => /\ q \in Readers /\ q.mode = "between"
                                          /\ SameTag(r, q) /\ q.src = r.src
           /\ c = Gt => q = EndTag(r)
           /\ c \notin White \cup {Slash, Gt} => q = BeginName(r, c)
<1>1. "between" \in Modes
  BY DEF Modes, Tag
<1>2. CASE c \in White \cup {Slash}
  <2>1. q = Mode(r, "between") /\ c # Gt
    BY <1>2 DEF Between, White, Slash, Gt, Blank, LF
  <2> QED BY <1>1, <1>2, <2>1, ModeIs
<1>3. CASE c = Gt
  BY <1>3 DEF Between, White, Slash, Gt, Blank, LF
<1>4. CASE c \notin White \cup {Slash, Gt}
  BY <1>4 DEF Between
<1> QED BY <1>2, <1>3, <1>4

\* A step of the browser inside a tag: it goes on, or the tag ends.
StepsInTag(r, c, q) ==
    IF c = Gt /\ r.mode \notin Quote
    THEN \E s \in Readers : SameTag(r, s) /\ (r.src => s.src) /\ q = EndTag(s)
    ELSE q \in Readers /\ q.mode \in InTag /\ SameTag(r, q) /\ (r.src => q.src)

LEMMA BetweenSteps ==
    ASSUME NEW r \in Readers, NEW s \in Readers, SameTag(r, s), r.src => s.src,
           r.mode \notin Quote, NEW c, NEW q, q = Between(s, c)
    PROVE  StepsInTag(r, c, q)
<1>1. {"between", "name"} \subseteq InTag
  BY DEF InTag, Tag
<1>2. CASE c = Gt
  BY <1>2, BetweenIs DEF StepsInTag
<1>3. CASE c \in White \cup {Slash}
  BY <1>1, <1>3, BetweenIs DEF StepsInTag, SameTag, SameScripts
<1>4. CASE c \notin White \cup {Slash, Gt}
  <2>1. q = BeginName(s, c)
    BY <1>4, BetweenIs
  <2>2. q \in Readers /\ q.mode = "name" /\ SameTag(s, q) /\ q.src = s.src
    BY <2>1, BeginNameIs
  <2> QED BY <1>1, <1>4, <2>2 DEF StepsInTag, SameTag, SameScripts
<1> QED BY <1>2, <1>3, <1>4

\* What the browser does in each mode inside a tag.
LEMMA ReadTagName ==
    ASSUME NEW r, r.mode = "tag-name", NEW b, NEW c, NEW q, q = Read(r, b, c)
    PROVE  q = IF Follows(c) THEN Between(r, c) ELSE [r EXCEPT !.tag = "other"]
BY DEF Read, Quote, DoubleQuote, SingleQuote

LEMMA ReadBetween ==
    ASSUME NEW r, r.mode = "between", NEW b, NEW c, NEW q, q = Read(r, b, c)
    PROVE  q = Between(r, c)
BY DEF Read, Quote, DoubleQuote, SingleQuote

LEMMA ReadName ==
    ASSUME NEW r, r.mode = "name", NEW b, NEW c, NEW q, q = Read(r, b, c)
    PROVE  q = IF c = Equals THEN Mode(Named(r), "before-value")
                ELSE IF c \in White THEN Mode(Named(r), "after-name")
                ELSE IF Follows(c) THEN Between(Named(r), c)
                ELSE [r EXCEPT !.name = "other"]
BY DEF Read, Quote, DoubleQuote, SingleQuote

LEMMA ReadAfterName ==
    ASSUME NEW r, r.mode = "after-name", NEW b, NEW c, NEW q, q = Read(r, b, c)
    PROVE  q = IF c = Equals THEN Mode(r, "before-value")
                ELSE IF c \in White THEN r ELSE Between(r, c)
BY DEF Read, Quote, DoubleQuote, SingleQuote

LEMMA ReadBeforeValue ==
    ASSUME NEW r, r.mode = "before-value", NEW b, NEW c, NEW q, q = Read(r, b, c)
    PROVE  q = IF c \in White THEN r
                ELSE IF c = Gt THEN EndTag(r)
                ELSE IF c \in Quote THEN Mode(r, c) ELSE Mode(r, "unquoted")
BY DEF Read, Quote, DoubleQuote, SingleQuote

LEMMA ReadUnquoted ==
    ASSUME NEW r, r.mode = "unquoted", NEW b, NEW c, NEW q, q = Read(r, b, c)
    PROVE  q = IF c \in White THEN Mode(r, "between")
                ELSE IF c = Gt THEN EndTag(r) ELSE r
BY DEF Read, Quote, DoubleQuote, SingleQuote

LEMMA ReadQuoted ==
    ASSUME NEW r, r.mode \in Quote, NEW b, NEW c, NEW q, q = Read(r, b, c)
    PROVE  q = IF c = r.mode THEN Mode(r, "between") ELSE r
BY DEF Read, Quote, DoubleQuote, SingleQuote

\* A step from inside a tag.
LEMMA TagSteps ==
    ASSUME NEW r \in Readers, r.mode \in InTag, NEW b, NEW c, NEW q, q = Read(r, b, c)
    PROVE  StepsInTag(r, c, q)
<1>0. /\ InTag \subseteq Modes
      /\ {"between", "name", "after-name", "before-value", "unquoted"} \subseteq InTag
      /\ Quote \subseteq InTag
      /\ Quote \cap {"between", "name", "after-name", "before-value", "unquoted"} = {}
      /\ InTag \subseteq {"between", "name", "after-name", "before-value", "unquoted"} \cup Quote
  BY DEF InTag, Tag, Modes, Quote, DoubleQuote, SingleQuote
<1>1. SameTag(r, r)
  BY DEF SameTag, SameScripts
<1>2. ASSUME NEW m \in InTag, NEW s \in Readers, SameTag(r, s), r.src => s.src,
             q = Mode(s, m), c # Gt \/ r.mode \in Quote
      PROVE  StepsInTag(r, c, q)
  <2>1. m \in Modes
    BY <1>0
  <2>2. q \in Readers /\ q.mode = m /\ SameTag(s, q) /\ q.src = s.src
    BY <1>2, <2>1, ModeIs
  <2> QED BY <1>2, <2>2 DEF StepsInTag, SameTag, SameScripts
<1>3. ASSUME q = r, c # Gt \/ r.mode \in Quote PROVE StepsInTag(r, c, q)
  BY <1>1, <1>3 DEF StepsInTag
<1>11. Gt \notin White /\ Gt # Equals /\ Gt \notin Quote
  BY DEF Gt, White, Blank, LF, Equals, Quote, DoubleQuote, SingleQuote
<1>4. ASSUME c = Gt, r.mode \notin Quote, q = EndTag(r) PROVE StepsInTag(r, c, q)
  BY <1>1, <1>4 DEF StepsInTag
<1>5. CASE r.mode = "between"
  <2>1. q = Between(r, c)
    BY <1>5, ReadBetween
  <2> QED BY <1>0, <1>1, <1>5, <2>1, BetweenSteps
<1>6. CASE r.mode = "name"
  <2> DEFINE s == Named(r)
  <2>1. s \in Readers /\ SameTag(r, s) /\ (r.src => s.src)
    BY NamedIs
  <2>2. \/ c # Gt /\ q \in {Mode(s, "before-value"), Mode(s, "after-name")}
        \/ q = Between(s, c)
        \/ c # Gt /\ q = [r EXCEPT !.name = "other"]
    BY <1>6, <1>11, ReadName DEF Follows
  <2> HIDE DEF s
  <2>3. CASE q = Between(s, c)
    BY <1>0, <1>6, <2>1, <2>3, BetweenSteps
  <2>4. CASE c # Gt /\ q = [r EXCEPT !.name = "other"]
    <3>1. q \in Readers /\ q.mode = r.mode /\ SameTag(r, q) /\ q.src = r.src
      BY <2>4 DEF Readers, SameTag, SameScripts
    <3> QED BY <1>6, <2>4, <3>1 DEF StepsInTag
  <2> QED BY <1>0, <1>2, <2>1, <2>2, <2>3, <2>4
<1>7. CASE r.mode = "after-name"
  <2>1. (c # Gt /\ q \in {Mode(r, "before-value"), r}) \/ q = Between(r, c)
    BY <1>7, <1>11, ReadAfterName
  <2>2. CASE q = Between(r, c)
    BY <1>0, <1>1, <1>7, <2>2, BetweenSteps
  <2> QED BY <1>0, <1>1, <1>2, <1>3, <2>1, <2>2
<1>8. CASE r.mode = "before-value"
  <2>1. \/ c # Gt /\ q = r
        \/ c = Gt /\ q = EndTag(r)
        \/ c # Gt /\ c \in Quote /\ q = Mode(r, c)
        \/ c # Gt /\ q = Mode(r, "unquoted")
    BY <1>8, <1>11, ReadBeforeValue
  <2> QED BY <1>0, <1>1, <1>2, <1>3, <1>4, <1>8, <2>1
<1>9. CASE r.mode = "unquoted"
  <2>1. \/ c # Gt /\ q \in {Mode(r, "between"), r}
        \/ c = Gt /\ q = EndTag(r)
    BY <1>9, <1>11, ReadUnquoted
  <2> QED BY <1>0, <1>1, <1>2, <1>3, <1>4, <1>9, <2>1
<1>10. CASE r.mode \in Quote
  <2>1. q \in {Mode(r, "between"), r}
    BY <1>10, ReadQuoted
  <2> QED BY <1>0, <1>1, <1>2, <1>3, <1>10, <2>1
<1> QED BY <1>0, <1>5, <1>6, <1>7, <1>8, <1>9, <1>10

\* Where the browser is after a token between two attributes.
LEMMA BetweenMode ==
    ASSUME NEW r \in Readers, NEW c, c # Gt, NEW q, q = Between(r, c)
    PROVE  /\ c \in White \cup {Slash} => q.mode = "between"
           /\ c \notin White \cup {Slash} => q.mode = "name"
           /\ c = Src => q.name = "src"
<1>1. CASE c \in White \cup {Slash}
  <2>1. c # Src
    BY <1>1 DEF White, Blank, LF, Slash, Src
  <2> QED BY <1>1, <2>1, BetweenIs
<1>2. CASE c \notin White \cup {Slash, Gt}
  <2>1. q = BeginName(r, c)
    BY <1>2, BetweenIs
  <2> QED BY <1>2, <2>1, BeginNameIs
<1> QED BY <1>1, <1>2

\* The modes a tag is read in, apart from those of its quoted values.
LEMMA ModesInTag ==
    ASSUME NEW m \in InTag
    PROVE  m \in {"between", "name", "after-name", "before-value", "unquoted"} \cup Quote
BY DEF InTag, Tag

LEMMA Quotes ==
    /\ Quote \cap {"between", "name", "after-name", "before-value", "unquoted"} = {}
    /\ Quote \cap (White \cup {Slash, Gt, Equals}) = {}
    /\ Quote \cap {"none"} = {} /\ Quote \subseteq InTag
BY DEF Quote, DoubleQuote, SingleQuote, White, Blank, LF, Slash, Gt, Equals, InTag, Tag

\* Quotes open at the beginning of a value, and close at the next of their kind.
LEMMA QuoteSteps ==
    ASSUME NEW r \in Readers, r.mode \in InTag, NEW b, NEW c, c # Gt,
           NEW q, q = Read(r, b, c)
    PROVE  /\ r.mode \in Quote => q.mode = IF c = r.mode THEN "between" ELSE r.mode
           /\ r.mode \notin Quote /\ c \notin Quote => q.mode \notin Quote
           /\ r.mode \notin Quote /\ c \in Quote => q.mode \in {c, "name", "unquoted"}
<1>0. /\ {"between", "name", "after-name", "before-value", "unquoted"} \subseteq Modes
      /\ Quote \subseteq Modes
  BY DEF Modes, Tag
<1>1. ASSUME NEW s \in Readers, q = Between(s, c)
      PROVE  q.mode \in {"between", "name"} /\ (c \in Quote => q.mode = "name")
  BY <1>1, BetweenMode, Quotes
<1>2. ASSUME NEW s \in Readers, NEW m \in Modes, q = Mode(s, m) PROVE q.mode = m
  BY <1>2, ModeIs
<1>3. CASE r.mode = "between"
  <2>1. q = Between(r, c)
    BY <1>3, ReadBetween
  <2> QED BY <1>1, <1>3, <2>1, Quotes
<1>4. CASE r.mode = "name"
  <2> DEFINE s == Named(r)
  <2>1. s \in Readers
    BY NamedIs
  <2>2. \/ c \notin Quote /\ q \in {Mode(s, "before-value"), Mode(s, "after-name")}
        \/ q = Between(s, c)
        \/ q = [r EXCEPT !.name = "other"]
    BY <1>4, Quotes, ReadName
  <2> HIDE DEF s
  <2>3. CASE c \notin Quote /\ q \in {Mode(s, "before-value"), Mode(s, "after-name")}
    <3>1. q.mode \in {"before-value", "after-name"}
      BY <1>0, <1>2, <2>1, <2>3
    <3> QED BY <1>4, <2>3, <3>1, Quotes
  <2>4. CASE q = Between(s, c)
    BY <1>1, <1>4, <2>1, <2>4, Quotes
  <2>5. CASE q = [r EXCEPT !.name = "other"]
    <3>1. q.mode = "name"
      BY <1>4, <2>5 DEF Readers
    <3> QED BY <1>4, <3>1, Quotes
  <2> QED BY <2>2, <2>3, <2>4, <2>5
<1>5. CASE r.mode = "after-name"
  <2>1. \/ c \notin Quote /\ q \in {Mode(r, "before-value"), r}
        \/ q = Between(r, c)
    BY <1>5, Quotes, ReadAfterName
  <2>2. CASE c \notin Quote /\ q \in {Mode(r, "before-value"), r}
    <3>1. q.mode \in {"before-value", "after-name"}
      BY <1>0, <1>2, <1>5, <2>2
    <3> QED BY <1>5, <2>2, <3>1, Quotes
  <2> QED BY <1>1, <1>5, <2>1, <2>2, Quotes
<1>6. CASE r.mode = "before-value"
  <2>1. \/ c \notin Quote /\ q \in {r, Mode(r, "unquoted")}
        \/ c \in Quote /\ q = Mode(r, c)
    BY <1>6, Quotes, ReadBeforeValue
  <2>2. CASE c \notin Quote /\ q \in {r, Mode(r, "unquoted")}
    <3>1. q.mode \in {"before-value", "unquoted"}
      BY <1>0, <1>2, <1>6, <2>2
    <3> QED BY <1>6, <2>2, <3>1, Quotes
  <2>3. CASE c \in Quote /\ q = Mode(r, c)
    <3>1. c \in Modes
      BY <1>0, <2>3
    <3>2. q.mode = c
      BY <1>2, <2>3, <3>1
    <3> QED BY <1>6, <2>3, <3>2, Quotes
  <2> QED BY <2>1, <2>2, <2>3
<1>7. CASE r.mode = "unquoted"
  <2>1. \/ c \notin Quote /\ q = Mode(r, "between")
        \/ q = r
    BY <1>7, Quotes, ReadUnquoted
  <2>2. CASE c \notin Quote /\ q = Mode(r, "between")
    <3>1. q.mode = "between"
      BY <1>0, <1>2, <2>2
    <3> QED BY <1>7, <2>2, <3>1, Quotes
  <2> QED BY <1>7, <2>1, <2>2, Quotes
<1>8. CASE r.mode \in Quote
  <2>1. q = IF c = r.mode THEN Mode(r, "between") ELSE r
    BY <1>8, ReadQuoted
  <2>2. CASE c = r.mode
    <3>1. q.mode = "between"
      BY <1>0, <1>2, <2>1, <2>2
    <3> QED BY <1>8, <2>2, <3>1
  <2> QED BY <1>8, <2>1, <2>2
<1> QED BY <1>3, <1>4, <1>5, <1>6, <1>7, <1>8, ModesInTag

\* Where an attribute may begin.
LEMMA BoundarySteps ==
    ASSUME NEW r \in Readers, r.mode \in Tag, NEW b, NEW c \in AttributeBoundary,
           NEW q, q = Read(r, b, c), q.mode \notin Quote,
           c = Slash => q.mode # "unquoted"
    PROVE  q.mode \in {"between", "after-name", "before-value"}
<1>0. {"between", "after-name", "before-value", "unquoted"} \subseteq Modes
  BY DEF Modes, Tag
<1>1. /\ c \in White \cup {Slash} /\ c # Gt /\ c # Equals /\ c \notin Quote /\ Follows(c)
      /\ c \notin White => c = Slash
  BY Quotes DEF AttributeBoundary, Follows, White, Blank, LF, Slash, Gt, Equals
<1>2. ASSUME NEW s \in Readers, q = Between(s, c) PROVE q.mode = "between"
  BY <1>1, <1>2, BetweenMode
<1>3. ASSUME NEW s \in Readers, NEW m \in Modes, q = Mode(s, m) PROVE q.mode = m
  BY <1>3, ModeIs
<1>4. CASE r.mode = "tag-name"
  <2>1. q = Between(r, c)
    BY <1>1, <1>4, ReadTagName
  <2> QED BY <1>2, <2>1
<1>5. CASE r.mode = "between"
  <2>1. q = Between(r, c)
    BY <1>5, ReadBetween
  <2> QED BY <1>2, <2>1
<1>6. CASE r.mode = "name"
  <2> DEFINE s == Named(r)
  <2>1. s \in Readers
    BY NamedIs
  <2>2. q \in {Mode(s, "after-name"), Between(s, c)}
    BY <1>1, <1>6, ReadName
  <2> HIDE DEF s
  <2> QED BY <1>0, <1>2, <1>3, <2>1, <2>2
<1>7. CASE r.mode = "after-name"
  <2>1. q \in {r, Between(r, c)}
    BY <1>1, <1>7, ReadAfterName
  <2> QED BY <1>2, <1>7, <2>1
<1>8. CASE r.mode = "before-value"
  <2>1. q = r \/ (c = Slash /\ q = Mode(r, "unquoted"))
    BY <1>1, <1>8, ReadBeforeValue
  <2> QED BY <1>0, <1>3, <1>8, <2>1
<1>9. CASE r.mode = "unquoted"
  <2>1. q = Mode(r, "between") \/ (c = Slash /\ q = r)
    BY <1>1, <1>9, ReadUnquoted
  <2> QED BY <1>0, <1>3, <1>9, <2>1
<1>10. CASE r.mode \in Quote
  <2>1. q = r
    BY <1>1, <1>10, ReadQuoted
  <2> QED BY <1>10, <2>1
<1>11. r.mode \in InTag \cup {"tag-name"}
  BY DEF InTag
<1> QED BY <1>4, <1>5, <1>6, <1>7, <1>8, <1>9, <1>10, <1>11, ModesInTag

\* The name "src" begins, and ends.
LEMMA SrcBegins ==
    ASSUME NEW r \in Readers, r.mode \in {"between", "after-name", "before-value"}, NEW b,
           NEW q, q = Read(r, b, Src), q.mode # "unquoted"
    PROVE  q.mode = "name" /\ q.name = "src"
<1>1. /\ Src \notin White \cup {Slash} /\ Src # Gt /\ Src # Equals /\ Src \notin Quote
      /\ "unquoted" \in Modes
  BY DEF Src, White, Blank, LF, Slash, Gt, Equals, Quote, DoubleQuote, SingleQuote, Modes, Tag
<1>2. ASSUME q = Between(r, Src) PROVE q.mode = "name" /\ q.name = "src"
  BY <1>1, <1>2, BetweenMode
<1>3. CASE r.mode = "between"
  <2>1. q = Between(r, Src)
    BY <1>3, ReadBetween
  <2> QED BY <1>2, <2>1
<1>4. CASE r.mode = "after-name"
  <2>1. q = Between(r, Src)
    BY <1>1, <1>4, ReadAfterName
  <2> QED BY <1>2, <2>1
<1>5. CASE r.mode = "before-value"
  <2>1. q = Mode(r, "unquoted")
    BY <1>1, <1>5, ReadBeforeValue
  <2> QED BY <1>1, <2>1, ModeIs
<1> QED BY <1>3, <1>4, <1>5

LEMMA SrcEnds ==
    ASSUME NEW r \in Readers, r.mode = "name", r.name = "src", NEW b,
           NEW c \in White \cup {Equals}, NEW q, q = Read(r, b, c)
    PROVE  q.src
<1>1. {"before-value", "after-name"} \subseteq Modes
  BY DEF Modes, Tag
<1> DEFINE s == Named(r)
<1>2. s \in Readers /\ s.src
  BY NamedIs
<1>3. q \in {Mode(s, "before-value"), Mode(s, "after-name")}
  BY ReadName
<1> HIDE DEF s
<1> QED BY <1>1, <1>2, <1>3, ModeIs

-----------------------------------------------------------------------------
(***************************************************************************)
(* The browser in the text of a script.                                    *)
(***************************************************************************)

InScript == InText \cup {"double", "maybe-escaped"}

\* What comes before a closing tag is kept in the name.
Reached == {r \in Readers : r.mode = "maybe-end" => r.name \in {"text", "escaped"}}

\* A step in the text of a script: it goes on, "double" only from what is in a
\* comment.
StepsInText(r, q) ==
    /\ q \in Reached /\ q.mode \in InScript
    /\ q.inline = r.inline /\ q.all = r.all /\ q.tag = r.tag /\ q.back = r.back
    /\ q.src = r.src
    /\ r.mode \in InText => q.mode \in InText \cup {"double"}

\* A token joins the text, or opens what may be the closing tag.
Takes(r, c, q) ==
    \/ /\ c # Close /\ q.mode \in {"text", "escaped", "maybe-double"}
       /\ q.text = Append(r.text, c)
    \/ c = Close /\ q.mode = "maybe-end" /\ q.text = r.text

LEMMA ScriptTextSteps ==
    ASSUME NEW r \in Readers, r.mode \in {"text", "escaped", "double"},
           NEW b, NEW c \in Token, NEW q, q = ScriptText(r, b, c)
    PROVE  /\ StepsInText(r, q)
           /\ r.mode # "double" /\ c # Nul => Takes(r, c, q)
<1>0. {"text", "escaped", "double", "maybe-double", "maybe-escaped", "maybe-end"} \subseteq Modes
  BY DEF Modes, InText
<1>1. ASSUME NEW m \in {"text", "escaped", "maybe-double", "maybe-escaped", "double"},
             m \in {"double", "maybe-escaped"} <=> (r.mode = "double" /\ m # "text"),
             r.mode # "double" => c # Close, q = Add(Mode(r, m), c)
      PROVE  /\ StepsInText(r, q)
             /\ r.mode # "double" /\ c # Nul => Takes(r, c, q)
  <2> DEFINE s == Mode(r, m)
  <2>1. m \in Modes
    BY <1>0
  <2>2. s \in Readers /\ s.mode = m /\ SameTag(r, s) /\ s.src = r.src
    BY <2>1, ModeIs
  <2>3. q = Add(s, c)
    BY <1>1
  <2> HIDE DEF s
  <2>4. /\ q \in Readers /\ q.mode = s.mode
        /\ q.inline = s.inline /\ q.all = s.all /\ q.tag = s.tag /\ q.back = s.back
        /\ q.src = s.src
        /\ c # Nul => q.text = Append(s.text, c)
    BY <2>2, <2>3, AddIs
  <2>5. StepsInText(r, q)
    BY <1>1, <2>2, <2>4 DEF StepsInText, Reached, SameTag, SameScripts, InScript, InText
  <2>6. r.mode # "double" /\ c # Nul => Takes(r, c, q)
    BY <1>1, <2>2, <2>4 DEF Takes, SameTag, SameScripts
  <2> QED BY <2>5, <2>6
<1>2. Mode(r, r.mode) = r
  BY DEF Mode, Readers
<1>3. CASE r.mode \in {"text", "escaped"} /\ c = Close
  <2>0. c # CommentOpen /\ c # Open /\ c # Gt
    BY <1>3 DEF Close, CommentOpen, Open, Gt
  <2>1. q = [r EXCEPT !.name = r.mode, !.mode = "maybe-end"]
    BY <1>3, <2>0 DEF ScriptText
  <2>2. /\ q \in Readers /\ q.mode = "maybe-end" /\ q.name = r.mode
        /\ q.inline = r.inline /\ q.all = r.all /\ q.tag = r.tag /\ q.back = r.back
        /\ q.src = r.src /\ q.text = r.text
    BY <1>0, <1>3, <2>1 DEF Readers
  <2> QED BY <1>3, <2>2 DEF StepsInText, Reached, InScript, InText, Takes
<1>4. CASE r.mode = "text" /\ c # Close
  <2>1. q = Add(Mode(r, "escaped"), c) \/ q = Add(r, c)
    BY <1>4 DEF ScriptText
  <2> QED BY <1>1, <1>2, <1>4, <2>1
<1>5. CASE r.mode = "escaped" /\ c # Close
  <2>1. q \in {Add(Mode(r, "maybe-double"), c), Add(Mode(r, "text"), c), Add(r, c)}
    BY <1>5 DEF ScriptText
  <2> QED BY <1>1, <1>2, <1>5, <2>1
<1>6. CASE r.mode = "double"
  <2>1. q \in {Add(Mode(r, "maybe-escaped"), c), Add(Mode(r, "text"), c), Add(r, c)}
    BY <1>6 DEF ScriptText
  <2> QED BY <1>1, <1>2, <1>6, <2>1
<1> QED BY <1>3, <1>4, <1>5, <1>6

\* What the browser does in each mode of the text of a script.
LEMMA ReadText ==
    ASSUME NEW r, r.mode \in {"text", "escaped", "double"}, NEW b, NEW c,
           NEW q, q = Read(r, b, c)
    PROVE  q = ScriptText(r, b, c)
BY DEF Read, Quote, DoubleQuote, SingleQuote

LEMMA ReadMaybeEnd ==
    ASSUME NEW r, r.mode = "maybe-end", NEW b, NEW c, NEW q, q = Read(r, b, c)
    PROVE  q = IF Follows(c)
                THEN Between([r EXCEPT !.tag = "end",
                                       !.back = IF r.src THEN "external" ELSE "text"], c)
                ELSE ScriptText(Add(Mode(r, r.name), Close), b, c)
BY DEF Read, Quote, DoubleQuote, SingleQuote

LEMMA ReadMaybeDouble ==
    ASSUME NEW r, r.mode = "maybe-double", NEW b, NEW c, NEW q, q = Read(r, b, c)
    PROVE  q = IF Follows(c) THEN Add(Mode(r, "double"), c)
                ELSE ScriptText(Mode(r, "escaped"), b, c)
BY DEF Read, Quote, DoubleQuote, SingleQuote

LEMMA ReadMaybeEscaped ==
    ASSUME NEW r, r.mode = "maybe-escaped", NEW b, NEW c, NEW q, q = Read(r, b, c)
    PROVE  q = IF Follows(c) THEN Add(Mode(r, "escaped"), c)
                ELSE ScriptText(Mode(r, "double"), b, c)
BY DEF Read, Quote, DoubleQuote, SingleQuote

\* A step from the text of a script, but for the end of the name of a closing tag.
LEMMA TextSteps ==
    ASSUME NEW r \in Reached, r.mode \in InScript, NEW b, NEW c \in Token,
           NEW q, q = Read(r, b, c), r.mode = "maybe-end" => ~Follows(c)
    PROVE  /\ StepsInText(r, q)
           /\ r.mode \in {"text", "escaped", "maybe-double"} /\ c # Nul /\ q.mode # "double"
                 => Takes(r, c, q)
<1>0. /\ {"text", "escaped", "double"} \subseteq Modes
      /\ r \in Readers
  BY DEF Modes, InText, Reached
<1>1. ASSUME NEW s \in Readers, NEW d, s.mode \in {"text", "escaped", "double"},
             q = ScriptText(s, d, c),
             s.mode = "double" <=> r.mode \in {"double", "maybe-escaped"},
             s.inline = r.inline, s.all = r.all, s.tag = r.tag, s.back = r.back,
             s.src = r.src
      PROVE  /\ StepsInText(r, q)
             /\ s.mode # "double" /\ c # Nul => Takes(s, c, q)
  <2>1. /\ StepsInText(s, q)
        /\ s.mode # "double" /\ c # Nul => Takes(s, c, q)
    BY <1>1, ScriptTextSteps
  <2> QED BY <1>1, <2>1 DEF StepsInText, InText
<1>2. ASSUME NEW m \in {"double", "escaped"}, q = Add(Mode(r, m), c),
             r.mode = IF m = "double" THEN "maybe-double" ELSE "maybe-escaped"
      PROVE  StepsInText(r, q) /\ q.mode = m
  <2> DEFINE s == Mode(r, m)
  <2>1. m \in Modes
    BY <1>0
  <2>2. s \in Readers /\ s.mode = m /\ SameTag(r, s) /\ s.src = r.src
    BY <1>0, <2>1, ModeIs
  <2>3. q = Add(s, c)
    BY <1>2
  <2> HIDE DEF s
  <2>4. /\ q \in Readers /\ q.mode = s.mode
        /\ q.inline = s.inline /\ q.all = s.all /\ q.tag = s.tag /\ q.back = s.back
        /\ q.src = s.src
    BY <2>2, <2>3, AddIs
  <2> QED BY <1>2, <2>2, <2>4 DEF StepsInText, Reached, SameTag, SameScripts, InScript, InText
<1>3. CASE r.mode \in {"text", "escaped", "double"}
  <2>1. q = ScriptText(r, b, c)
    BY <1>3, ReadText
  <2> QED BY <1>0, <1>3, <2>1, ScriptTextSteps
<1>4. CASE r.mode = "maybe-end"
  <2> DEFINE m == r.name
             o == Mode(r, m)
             s == Add(o, Close)
  <2>1. m \in Modes /\ m \in {"text", "escaped"}
    BY <1>0, <1>4 DEF Reached
  <2>3. q = ScriptText(s, b, c)
    BY <1>4, ReadMaybeEnd
  <2> HIDE DEF m
  <2>2. o \in Readers /\ o.mode = m /\ SameTag(r, o) /\ o.src = r.src
    BY <1>0, <2>1, ModeIs
  <2>4. Close \in Token
    BY DEF Token
  <2>5. /\ s \in Readers /\ s.mode = o.mode
        /\ s.inline = o.inline /\ s.all = o.all /\ s.tag = o.tag /\ s.back = o.back
        /\ s.src = o.src
    <3> HIDE DEF o
    <3> QED BY <2>2, <2>4, AddIs
  <2> HIDE DEF o, s
  <2>6. StepsInText(r, q)
    BY <1>1, <1>4, <2>1, <2>2, <2>3, <2>5 DEF SameTag, SameScripts
  <2> QED BY <1>4, <2>6
<1>5. CASE r.mode = "maybe-double"
  <2> DEFINE s == Mode(r, "escaped")
  <2>1. s \in Readers /\ s.mode = "escaped" /\ SameTag(r, s) /\ s.src = r.src
    BY <1>0, ModeIs
  <2>2. q = Add(Mode(r, "double"), c) \/ q = ScriptText(s, b, c)
    BY <1>5, ReadMaybeDouble
  <2> HIDE DEF s
  <2>3. CASE q = Add(Mode(r, "double"), c)
    BY <1>2, <1>5, <2>3
  <2>4. CASE q = ScriptText(s, b, c)
    <3>1. StepsInText(r, q) /\ (c # Nul => Takes(s, c, q))
      BY <1>1, <1>5, <2>1, <2>4 DEF SameTag, SameScripts
    <3> QED BY <2>1, <3>1 DEF Takes, SameTag, SameScripts
  <2> QED BY <2>2, <2>3, <2>4
<1>6. CASE r.mode = "maybe-escaped"
  <2> DEFINE s == Mode(r, "double")
  <2>1. s \in Readers /\ s.mode = "double" /\ SameTag(r, s) /\ s.src = r.src
    BY <1>0, ModeIs
  <2>2. q = Add(Mode(r, "escaped"), c) \/ q = ScriptText(s, b, c)
    BY <1>6, ReadMaybeEscaped
  <2> HIDE DEF s
  <2>3. CASE q = Add(Mode(r, "escaped"), c)
    BY <1>2, <1>6, <2>3
  <2>4. CASE q = ScriptText(s, b, c)
    BY <1>1, <1>6, <2>1, <2>4 DEF SameTag, SameScripts
  <2> QED BY <1>6, <2>2, <2>3, <2>4
<1> QED BY <1>3, <1>4, <1>5, <1>6 DEF InScript, InText

-----------------------------------------------------------------------------
(***************************************************************************)
(* Every step of the browser, and the state behind the scanner.            *)
(***************************************************************************)

LEMMA ReadData ==
    ASSUME NEW r, r.mode = "data", NEW b, NEW c, NEW q, q = Read(r, b, c)
    PROVE  q = IF c = Open THEN BeginTag(r, "script")
                ELSE IF c = Close THEN BeginTag(r, "other")
                ELSE IF c = CommentOpen THEN Mode(r, "comment") ELSE r
BY DEF Read, Quote, DoubleQuote, SingleQuote

LEMMA ReadComment ==
    ASSUME NEW r, r.mode = "comment", NEW b, NEW c, NEW q, q = Read(r, b, c)
    PROVE  q \in {Mode(r, "data"), r}
BY DEF Read, Quote, DoubleQuote, SingleQuote

\* A step from the name of a tag: it is another name, or complete.
LEMMA NameSteps ==
    ASSUME NEW r \in Readers, r.mode = "tag-name", NEW b, NEW c, NEW q, q = Read(r, b, c)
    PROVE  /\ c \notin TagNameBoundary =>
                 /\ q \in Readers /\ q.mode = "tag-name" /\ q.tag = "other"
                 /\ SameScripts(r, q)
           /\ c \in TagNameBoundary /\ c # Gt =>
                 /\ q \in Readers /\ q.mode = "between" /\ SameTag(r, q) /\ q.src = r.src
           /\ c = Gt => q = EndTag(r)
<1>1. Follows(c) <=> c \in TagNameBoundary
  BY DEF Follows, TagNameBoundary
<1>2. c \in TagNameBoundary <=> c \in White \cup {Slash} \/ c = Gt
  BY DEF TagNameBoundary
<1>3. CASE c \notin TagNameBoundary
  <2>1. q = [r EXCEPT !.tag = "other"]
    BY <1>1, <1>3, ReadTagName
  <2> QED BY <1>2, <1>3, <2>1 DEF Readers, SameScripts
<1>4. CASE c \in TagNameBoundary
  <2>1. q = Between(r, c)
    BY <1>1, <1>4, ReadTagName
  <2> QED BY <1>2, <1>4, <2>1, BetweenIs
<1> QED BY <1>3, <1>4

\* A step from the name of a closing tag that is complete.
LEMMA ClosingSteps ==
    ASSUME NEW r \in Reached, r.mode = "maybe-end", NEW b, NEW c \in TagNameBoundary,
           NEW q, q = Read(r, b, c)
    PROVE  /\ q \in Readers
           /\ \/ /\ q.mode = "between" /\ q.tag = "end" /\ SameScripts(r, q)
                 /\ r.src => q.back = "external"
              \/ /\ q.mode = "data" /\ q.all = r.all \cup {r.text}
                 /\ r.src => q.inline = r.inline
                 /\ q.inline \subseteq r.inline \cup {r.text}
<1> DEFINE back == IF r.src THEN "external" ELSE "text"
           s == [r EXCEPT !.tag = "end", !.back = back]
<1>0. r \in Readers /\ back \in {"text", "external"} /\ (r.src => back = "external")
  BY DEF Reached
<1>1. Follows(c) /\ (c \in White \cup {Slash} \/ c = Gt)
  BY DEF Follows, TagNameBoundary
<1>2. q = Between(s, c)
  BY <1>1, ReadMaybeEnd
<1> HIDE DEF back
<1>3. /\ s \in Readers /\ s.tag = "end" /\ s.back = back /\ SameScripts(r, s)
  BY <1>0 DEF Readers, SameScripts
<1> HIDE DEF s
<1>4. CASE c \in White \cup {Slash}
  <2>1. q \in Readers /\ q.mode = "between" /\ SameTag(s, q)
    BY <1>2, <1>3, <1>4, BetweenIs
  <2> QED BY <1>0, <1>3, <2>1 DEF SameTag, SameScripts
<1>5. CASE c = Gt
  <2>1. q = EndTag(s)
    BY <1>2, <1>3, <1>5, BetweenIs
  <2>2. /\ q \in Readers /\ q.mode = "data" /\ q.all = s.all \cup {s.text}
        /\ s.back = "external" => q.inline = s.inline
        /\ q.inline \subseteq s.inline \cup {s.text}
    BY <1>3, <2>1, EndTagIs
  <2> QED BY <1>0, <1>3, <2>2 DEF SameScripts
<1> QED BY <1>1, <1>4, <1>5

\* The end of a tag leaves the tag.
LEMMA EndTagMode ==
    ASSUME NEW r \in Readers, NEW q, q = EndTag(r)
    PROVE  q \in Readers /\ q.mode \in {"text", "data"}
<1>1. r.tag \in {"other", "script", "end"}
  BY DEF Readers
<1> QED BY <1>1, EndTagIs

\* The browser stays among the states it can reach.
LEMMA ReadReached ==
    ASSUME NEW r \in Reached, NEW b, NEW c \in Token, NEW q, q = Read(r, b, c)
    PROVE  q \in Reached
<1>0. r \in Readers /\ r.mode \in Modes
  BY DEF Reached, Readers
<1>1. SUFFICES q \in Reached \/ (q \in Readers /\ q.mode # "maybe-end")
  BY DEF Reached
<1>2. CASE r.mode = "data"
  <2>1. q \in {BeginTag(r, "script"), BeginTag(r, "other"), Mode(r, "comment"), r}
    BY <1>2, ReadData
  <2>2. "comment" \in Modes
    BY DEF Modes
  <2> QED BY <1>0, <1>2, <2>1, <2>2, BeginTagIs, ModeIs
<1>3. CASE r.mode = "comment"
  <2>1. q \in {Mode(r, "data"), r}
    BY <1>3, ReadComment
  <2>2. "data" \in Modes
    BY DEF Modes
  <2> QED BY <1>0, <1>3, <2>1, <2>2, ModeIs
<1>4. CASE r.mode = "tag-name"
  BY <1>0, <1>4, NameSteps, EndTagMode
<1>5. CASE r.mode \in InTag
  <2>1. "maybe-end" \notin InTag
    BY DEF InTag, Tag, Quote, DoubleQuote, SingleQuote
  <2>2. StepsInTag(r, c, q)
    BY <1>0, <1>5, TagSteps
  <2> QED BY <2>1, <2>2, EndTagMode DEF StepsInTag
<1>6. CASE r.mode = "maybe-end" /\ Follows(c)
  <2>1. c \in TagNameBoundary
    BY <1>6 DEF Follows, TagNameBoundary
  <2> QED BY <1>6, <2>1, ClosingSteps
<1>7. CASE r.mode \in InScript /\ (r.mode = "maybe-end" => ~Follows(c))
  BY <1>7, TextSteps DEF StepsInText
<1> QED BY <1>0, <1>2, <1>3, <1>4, <1>5, <1>6, <1>7 DEF Modes, InTag, InScript

\* A browser that has nothing open stays so until the next script opens.
LEMMA BehindSteps ==
    ASSUME NEW r \in Reached, NEW H, Behind(r, H), NEW b, NEW c \in Token,
           NEW q, q = Read(r, b, c), q.mode # "double",
           r.mode = "data" => c # Open
    PROVE  Behind(q, H)
<1>0. r \in Readers
  BY DEF Reached
<1>1. /\ {"between", "tag-name"} \subseteq Tag /\ "between" \in InTag /\ InTag \subseteq Tag
      /\ {"comment", "data"} \subseteq Modes
      /\ \A m \in Tag : m = "tag-name" \/ m \in InTag
  BY DEF Tag, InTag, Modes
<1>2. CASE r.mode = "data"
  <2>1. q = BeginTag(r, "other") \/ q \in {Mode(r, "comment"), r}
    BY <1>2, ReadData
  <2>2. r.inline \subseteq H /\ H \subseteq r.all
    BY <1>2 DEF Behind, InTag, Tag, Quote, DoubleQuote, SingleQuote
  <2>3. CASE q = BeginTag(r, "other")
    <3>1. q.mode = "tag-name" /\ q.tag = "other" /\ SameScripts(r, q)
      BY <1>0, <2>3, BeginTagIs
    <3> QED BY <1>1, <2>2, <3>1 DEF Behind, SameScripts
  <2>4. CASE q \in {Mode(r, "comment"), r}
    <3>1. q.mode \in {"comment", "data"} /\ q.inline = r.inline /\ q.all = r.all
      BY <1>0, <1>1, <1>2, <2>4, ModeIs DEF SameTag, SameScripts
    <3> QED BY <2>2, <3>1 DEF Behind
  <2> QED BY <2>1, <2>3, <2>4
<1>3. CASE r.mode = "comment"
  <2>1. q \in {Mode(r, "data"), r}
    BY <1>3, ReadComment
  <2>2. r.inline \subseteq H /\ H \subseteq r.all
    BY <1>3 DEF Behind, InTag, Tag, Quote, DoubleQuote, SingleQuote
  <2>3. q.mode \in {"comment", "data"} /\ q.inline = r.inline /\ q.all = r.all
    BY <1>0, <1>1, <1>3, <2>1, ModeIs DEF SameTag, SameScripts
  <2> QED BY <2>2, <2>3 DEF Behind
<1>4. ASSUME NEW s \in Readers, SameTag(r, s), r.src => s.src, r.mode \in Tag,
             q = EndTag(s)
      PROVE  Behind(q, H)
  <2>1. /\ s.inline = r.inline /\ s.all = r.all /\ s.text = r.text
        /\ s.tag = r.tag /\ s.back = r.back
    BY <1>4 DEF SameTag, SameScripts
  <2>2. r.mode \notin {"data", "comment"} \cup InText
    BY <1>4 DEF Tag, InText, Quote, DoubleQuote, SingleQuote
  <2>3. CASE s.tag = "script"
    <3>1. q.mode = "text" /\ q.inline = r.inline /\ q.all = r.all /\ q.src = s.src
      BY <1>4, <2>1, <2>3, EndTagIs
    <3>2. r.inline \subseteq H /\ H \subseteq r.all /\ r.src
      BY <2>1, <2>2, <2>3 DEF Behind
    <3> QED BY <1>4, <3>1, <3>2 DEF Behind, InText
  <2>4. CASE s.tag = "other"
    <3>1. q.mode = "data" /\ q.inline = r.inline /\ q.all = r.all
      BY <1>4, <2>1, <2>4, EndTagIs DEF SameScripts
    <3>2. r.inline \subseteq H /\ H \subseteq r.all
      BY <2>1, <2>2, <2>4 DEF Behind
    <3> QED BY <3>1, <3>2 DEF Behind
  <2>5. CASE s.tag = "end"
    <3>1. /\ q.mode = "data" /\ q.all = r.all \cup {r.text}
          /\ r.back = "external" => q.inline = r.inline
          /\ q.inline \subseteq r.inline \cup {r.text}
      BY <1>4, <2>1, <2>5, EndTagIs
    <3>2. /\ r.inline \subseteq H /\ (r.back = "external" \/ r.text \in H)
          /\ H \subseteq r.all \cup {r.text}
      BY <2>1, <2>2, <2>5 DEF Behind
    <3>3. q.inline \subseteq H
      BY <3>1, <3>2
    <3> QED BY <3>1, <3>2, <3>3 DEF Behind
  <2> QED BY <2>3, <2>4, <2>5 DEF Readers
<1>5. CASE r.mode = "tag-name"
  <2>1. r.mode \notin {"data", "comment"} \cup InText \cup InTag
    BY <1>5 DEF InTag, InText
  <2>2. r.inline \subseteq H /\ H \subseteq r.all
    BY <2>1 DEF Behind
  <2>3. CASE c \notin TagNameBoundary
    <3>1. q.mode = "tag-name" /\ q.tag = "other" /\ SameScripts(r, q)
      BY <1>0, <1>5, <2>3, NameSteps
    <3> QED BY <1>1, <2>2, <3>1 DEF Behind, SameScripts
  <2>4. CASE c \in TagNameBoundary /\ c # Gt
    <3>1. q.mode = "between" /\ SameTag(r, q) /\ q.src = r.src
      BY <1>0, <1>5, <2>4, NameSteps
    <3>2. r.tag = "other" \/ (r.tag = "script" /\ r.src)
      BY <2>1 DEF Behind
    <3> QED BY <1>1, <2>2, <3>1, <3>2 DEF Behind, SameTag, SameScripts
  <2>5. CASE c = Gt
    <3>1. q = EndTag(r) /\ SameTag(r, r) /\ r.mode \in Tag
      BY <1>0, <1>1, <1>5, <2>5, NameSteps DEF SameTag, SameScripts
    <3> QED BY <1>0, <1>4, <3>1
  <2> QED BY <2>3, <2>4, <2>5
<1>6. CASE r.mode \in InTag
  <2>1. StepsInTag(r, c, q)
    BY <1>0, <1>6, TagSteps
  <2>2. CASE c = Gt /\ r.mode \notin Quote
    <3>1. PICK s \in Readers : SameTag(r, s) /\ (r.src => s.src) /\ q = EndTag(s)
      BY <2>1, <2>2 DEF StepsInTag
    <3>2. r.mode \in Tag
      BY <1>1, <1>6
    <3> QED BY <1>4, <3>1, <3>2
  <2>3. CASE ~(c = Gt /\ r.mode \notin Quote)
    <3>1. q \in Readers /\ q.mode \in InTag /\ SameTag(r, q) /\ (r.src => q.src)
      BY <2>1, <2>3 DEF StepsInTag
    <3>2. r.mode \notin {"data", "comment"} \cup InText
      BY <1>6 DEF InTag, Tag, InText, Quote, DoubleQuote, SingleQuote
    <3>3. q.mode \in Tag
      BY <1>1, <3>1
    <3> QED BY <3>1, <3>2, <3>3 DEF Behind, SameTag, SameScripts
  <2> QED BY <2>2, <2>3
<1>7. CASE r.mode \in InText
  <2>1. r.mode \notin Tag \cup {"data", "comment"}
    BY <1>7 DEF Tag, InText, Quote, DoubleQuote, SingleQuote
  <2>2. r.inline \subseteq H /\ H \subseteq r.all /\ r.src
    BY <1>1, <2>1 DEF Behind
  <2>3. CASE r.mode = "maybe-end" /\ Follows(c)
    <3>1. c \in TagNameBoundary
      BY <2>3 DEF Follows, TagNameBoundary
    <3>2. \/ /\ q.mode = "between" /\ q.tag = "end" /\ SameScripts(r, q)
             /\ q.back = "external"
          \/ q.mode = "data" /\ q.all = r.all \cup {r.text} /\ q.inline = r.inline
      BY <2>2, <2>3, <3>1, ClosingSteps
    <3> QED BY <1>1, <2>2, <3>2 DEF Behind, SameScripts
  <2>4. CASE ~(r.mode = "maybe-end" /\ Follows(c))
    <3>1. StepsInText(r, q)
      BY <1>7, <2>4, TextSteps DEF InScript
    <3>2. q.mode \in InText /\ q.src /\ q.inline = r.inline /\ q.all = r.all
      BY <1>7, <2>2, <3>1 DEF StepsInText
    <3> QED BY <2>2, <3>2 DEF Behind
  <2> QED BY <2>3, <2>4
<1>8. r.mode \in {"data", "comment"} \cup Tag \cup InText
  BY <1>1 DEF Behind
<1> QED BY <1>1, <1>2, <1>3, <1>5, <1>6, <1>7, <1>8

-----------------------------------------------------------------------------
(***************************************************************************)
(* Reading a document.                                                     *)
(***************************************************************************)

\* The token before the i-th.
Before(t, i) == IF i = 1 THEN "nothing" ELSE t[i - 1]

\* The browser reads token after token.
LEMMA ReadingSteps ==
    ASSUME NEW t \in Seq(Token)
    PROVE  /\ Reading(t)[0] = Start
           /\ \A i \in 1..Len(t) : Reading(t)[i] = Read(Reading(t)[i - 1], Before(t, i), t[i])
           /\ \A i \in 0..Len(t) : Reading(t)[i] \in Reached
<1> DEFINE n == Len(t)
           Is(k, g) == g = [i \in 0..k |-> IF i = 0 THEN Start
                              ELSE Read(g[i - 1], Before(t, i), t[i])]
           OK == {k \in 0..n : \E g : Is(k, g)}
<1>0. n \in Nat /\ \A i \in 1..n : t[i] \in Token
  BY LenProperties
<1> HIDE DEF n
<1>1. 0 \in OK
  <2>1. Is(0, [i \in 0..0 |-> Start])
    OBVIOUS
  <2> HIDE DEF Is
  <2> QED BY <1>0, <2>1
<1>2. ASSUME NEW k \in 1..n, k - 1 \in OK PROVE k \in OK
  <2>1. PICK g : Is(k - 1, g)
    BY <1>2
  <2> DEFINE last == Read(g[k - 1], Before(t, k), t[k])
             h == [i \in 0..k |-> IF i = k THEN last ELSE g[i]]
  <2>2. ASSUME NEW i \in 0..k
        PROVE  h[i] = IF i = 0 THEN Start ELSE Read(h[i - 1], Before(t, i), t[i])
    <3>1. CASE i = k
      <4>1. h[i] = last /\ h[i - 1] = g[k - 1] /\ i # 0
        BY <3>1
      <4> HIDE DEF h
      <4> QED BY <3>1, <4>1
    <3>2. CASE i # k /\ i # 0
      <4>1. h[i] = g[i] /\ h[i - 1] = g[i - 1] /\ i \in 0..(k - 1)
        BY <3>2
      <4>2. g[i] = Read(g[i - 1], Before(t, i), t[i])
        BY <2>1, <3>2, <4>1
      <4> HIDE DEF h
      <4> QED BY <3>2, <4>1, <4>2
    <3>3. CASE i = 0
      <4>1. h[i] = g[i] /\ i \in 0..(k - 1)
        BY <3>3
      <4>2. g[i] = Start
        BY <2>1, <3>3, <4>1
      <4> HIDE DEF h
      <4> QED BY <3>3, <4>1, <4>2
    <3> QED BY <3>1, <3>2, <3>3
  <2>3. h = [i \in 0..k |-> h[i]]
    OBVIOUS
  <2>4. Is(k, h)
    <3> HIDE DEF h
    <3> QED BY <2>2, <2>3
  <2> HIDE DEF Is, h
  <2> QED BY <1>0, <2>4
<1>3. \E g : Is(n, g)
  <2>1. \A k \in 0..n : k \in OK
    <3> HIDE DEF OK
    <3> QED BY <1>0, <1>1, <1>2, InductionUpTo
  <2> HIDE DEF Is
  <2> QED BY <1>0, <2>1
<1>4. Is(n, Reading(t))
  <2>1. Reading(t) = CHOOSE g : Is(n, g)
    BY DEF Reading, Before, n
  <2> HIDE DEF Is
  <2> QED BY <1>3, <2>1
<1> DEFINE R == Reading(t)
<1>5. R[0] = Start /\ \A i \in 1..n : R[i] = Read(R[i - 1], Before(t, i), t[i])
  BY <1>0, <1>4
<1> HIDE DEF R
<1> DEFINE Good == {i \in 0..n : R[i] \in Reached}
<1>6. 0 \in Good
  <2>1. Start \in Reached
    BY DEF Start, Reached, Readers, Modes
  <2> QED BY <1>0, <1>5, <2>1
<1>7. ASSUME NEW i \in 1..n, i - 1 \in Good PROVE i \in Good
  <2>1. R[i - 1] \in Reached
    BY <1>7
  <2>2. R[i] \in Reached
    BY <1>0, <1>5, <2>1, ReadReached
  <2> QED BY <2>2
<1>8. \A i \in 0..n : i \in Good
  <2> HIDE DEF Good
  <2> QED BY <1>0, <1>6, <1>7, InductionUpTo
<1>9. \A i \in 0..n : R[i] \in Reached
  BY <1>8
<1> QED BY <1>5, <1>9 DEF R, n

\* What one more token adds to the input stream of the browser, and to the document
\* as the scanner normalizes it.
Streamed(t, i, v) ==
    IF t[i] = CR /\ i < Len(t) /\ t[i + 1] = LF THEN v
    ELSE Append(v, IF t[i] = CR THEN LF ELSE t[i])

Normalized(t, i, v) ==
    IF t[i] = CR THEN Append(v, LF)
    ELSE IF t[i] = LF /\ i > 1 /\ t[i - 1] = CR THEN v
    ELSE Append(v, t[i])

LEMMA LineEnds == CR \in Token /\ LF \in Token /\ CR # LF
BY DEF CR, LF, Token

\* The input stream, token by token.
LEMMA StreamSteps ==
    ASSUME NEW s, NEW t \in Seq(Token), t = StripBom(s)
    PROVE  \E f \in [0..Len(t) -> Seq(Token)] :
              /\ f[0] = <<>> /\ \A i \in 1..Len(t) : f[i] = Streamed(t, i, f[i - 1])
              /\ InputStream(s) = f[Len(t)]
<1> DEFINE n == Len(t)
           Round(f) == [i \in 0..n |->
                          IF i = 0 THEN <<>>
                          ELSE IF t[i] = CR /\ i < n /\ t[i + 1] = LF THEN f[i - 1]
                          ELSE Append(f[i - 1], IF t[i] = CR THEN LF ELSE t[i])]
           stream == CHOOSE f : f = Round(f)
           Texts == Seq(Token)
           step == [x \in Texts \X (1..n) |-> Streamed(t, x[2], x[1])]
<1>0. n \in Nat /\ <<>> \in Texts
  OBVIOUS
<1>1. InputStream(s) = stream[n]
  BY DEF InputStream, StripBom
<1>2. ASSUME NEW i \in 1..n, NEW v \in Texts PROVE Streamed(t, i, v) \in Texts
  <2>1. t[i] \in Token
    OBVIOUS
  <2> QED BY <2>1, LineEnds DEF Streamed
<1>3. PICK g : IsRecord(Texts, n, <<>>, step, g)
  <2>1. IsRound(Texts, n, step)
    <3> HIDE DEF Texts, n
    <3> QED BY <1>2 DEF IsRound
  <2> HIDE DEF Texts, n, step
  <2> QED BY <1>0, <2>1, IterationExists
<1>4. g \in [0..n -> Texts] /\ g[0] = <<>>
  BY <1>3 DEF IsRecord
<1>5. ASSUME NEW i \in 1..n PROVE g[i] = Streamed(t, i, g[i - 1])
  <2>1. g[i - 1] \in Texts
    <3> HIDE DEF Texts, n
    <3> QED BY <1>0, <1>4
  <2>2. g[i] = step[<<g[i - 1], i>>]
    <3> HIDE DEF Texts, n, step
    <3> QED BY <1>3 DEF IsRecord
  <2> HIDE DEF Texts, n
  <2> QED BY <2>1, <2>2
<1>6. g = Round(g)
  <2>1. ASSUME NEW i \in 0..n PROVE g[i] = Round(g)[i]
    <3>1. CASE i = 0
      BY <1>4, <3>1
    <3>2. CASE i # 0
      BY <1>5, <3>2 DEF Streamed
    <3> QED BY <3>1, <3>2
  <2>2. g = [i \in 0..n |-> g[i]] /\ DOMAIN Round(g) = 0..n
    <3> HIDE DEF n, Texts
    <3> QED BY <1>4
  <2> QED BY <2>1, <2>2
<1>7. stream = Round(stream)
  <2> HIDE DEF Round
  <2> QED BY <1>6
<1>8. stream[0] = <<>> /\ \A i \in 1..n : stream[i] = Streamed(t, i, stream[i - 1])
  <2> HIDE DEF stream
  <2>1. \A i \in 0..n : stream[i] = Round(stream)[i]
    BY <1>7
  <2>2. stream[0] = <<>>
    BY <1>0, <2>1
  <2>3. ASSUME NEW i \in 1..n PROVE stream[i] = Streamed(t, i, stream[i - 1])
    BY <1>0, <2>1 DEF Streamed
  <2> QED BY <2>2, <2>3
<1>9. stream \in [0..n -> Texts]
  <2> DEFINE Good == {i \in 0..n : stream[i] \in Texts}
  <2> HIDE DEF stream
  <2>1. 0 \in Good
    <3> HIDE DEF Texts, n
    <3> QED BY <1>0, <1>8
  <2>2. ASSUME NEW i \in 1..n, i - 1 \in Good PROVE i \in Good
    <3> HIDE DEF Texts, n
    <3> QED BY <1>0, <1>2, <1>8, <2>2
  <2>3. \A i \in 0..n : i \in Good
    <3> HIDE DEF Good
    <3> QED BY <1>0, <2>1, <2>2, InductionUpTo
  <2>4. stream = [i \in 0..n |-> stream[i]]
    <3>1. stream = [i \in 0..n |-> Round(stream)[i]]
      BY <1>7
    <3>2. \A i \in 0..n : stream[i] = Round(stream)[i]
      BY <1>7
    <3> HIDE DEF Round
    <3> QED BY <3>1, <3>2
  <2> HIDE DEF Texts, n
  <2> QED BY <2>3, <2>4
<1> HIDE DEF stream
<1> QED BY <1>1, <1>8, <1>9

\* The document the scanner walks, token by token.
LEMMA NormalizeSteps ==
    ASSUME NEW t \in Seq(Token)
    PROVE  \E f \in [0..Len(t) -> Seq(Token)] :
              /\ f[0] = <<>> /\ \A i \in 1..Len(t) : f[i] = Normalized(t, i, f[i - 1])
              /\ NormalizeNewlines(t) = f[Len(t)]
<1> DEFINE n == Len(t)
           Round(f) == [i \in 0..n |->
                          IF i = 0 THEN <<>>
                          ELSE IF t[i] = CR THEN Append(f[i - 1], LF)
                          ELSE IF t[i] = LF /\ i > 1 /\ t[i - 1] = CR THEN f[i - 1]
                          ELSE Append(f[i - 1], t[i])]
           out == CHOOSE f : f = Round(f)
           Texts == Seq(Token)
           step == [x \in Texts \X (1..n) |-> Normalized(t, x[2], x[1])]
<1>0. n \in Nat /\ <<>> \in Texts
  OBVIOUS
<1>1. NormalizeNewlines(t) = out[n]
  BY DEF NormalizeNewlines
<1>2. ASSUME NEW i \in 1..n, NEW v \in Texts PROVE Normalized(t, i, v) \in Texts
  <2>1. t[i] \in Token
    OBVIOUS
  <2> QED BY <2>1, LineEnds DEF Normalized
<1>3. PICK g : IsRecord(Texts, n, <<>>, step, g)
  <2>1. IsRound(Texts, n, step)
    <3> HIDE DEF Texts, n
    <3> QED BY <1>2 DEF IsRound
  <2> HIDE DEF Texts, n, step
  <2> QED BY <1>0, <2>1, IterationExists
<1>4. g \in [0..n -> Texts] /\ g[0] = <<>>
  BY <1>3 DEF IsRecord
<1>5. ASSUME NEW i \in 1..n PROVE g[i] = Normalized(t, i, g[i - 1])
  <2>1. g[i - 1] \in Texts
    <3> HIDE DEF Texts, n
    <3> QED BY <1>0, <1>4
  <2>2. g[i] = step[<<g[i - 1], i>>]
    <3> HIDE DEF Texts, n, step
    <3> QED BY <1>3 DEF IsRecord
  <2> HIDE DEF Texts, n
  <2> QED BY <2>1, <2>2
<1>6. g = Round(g)
  <2>1. ASSUME NEW i \in 0..n PROVE g[i] = Round(g)[i]
    <3>1. CASE i = 0
      BY <1>4, <3>1
    <3>2. CASE i # 0
      BY <1>5, <3>2 DEF Normalized
    <3> QED BY <3>1, <3>2
  <2>2. g = [i \in 0..n |-> g[i]] /\ DOMAIN Round(g) = 0..n
    <3> HIDE DEF n, Texts
    <3> QED BY <1>4
  <2> QED BY <2>1, <2>2
<1>7. out = Round(out)
  <2> HIDE DEF Round
  <2> QED BY <1>6
<1>8. out[0] = <<>> /\ \A i \in 1..n : out[i] = Normalized(t, i, out[i - 1])
  <2> HIDE DEF out
  <2>1. \A i \in 0..n : out[i] = Round(out)[i]
    BY <1>7
  <2>2. out[0] = <<>>
    BY <1>0, <2>1
  <2>3. ASSUME NEW i \in 1..n PROVE out[i] = Normalized(t, i, out[i - 1])
    BY <1>0, <2>1 DEF Normalized
  <2> QED BY <2>2, <2>3
<1>9. out \in [0..n -> Texts]
  <2> DEFINE Good == {i \in 0..n : out[i] \in Texts}
  <2> HIDE DEF out
  <2>1. 0 \in Good
    <3> HIDE DEF Texts, n
    <3> QED BY <1>0, <1>8
  <2>2. ASSUME NEW i \in 1..n, i - 1 \in Good PROVE i \in Good
    <3> HIDE DEF Texts, n
    <3> QED BY <1>0, <1>2, <1>8, <2>2
  <2>3. \A i \in 0..n : i \in Good
    <3> HIDE DEF Good
    <3> QED BY <1>0, <2>1, <2>2, InductionUpTo
  <2>4. out = [i \in 0..n |-> out[i]]
    <3>1. out = [i \in 0..n |-> Round(out)[i]]
      BY <1>7
    <3>2. \A i \in 0..n : out[i] = Round(out)[i]
      BY <1>7
    <3> HIDE DEF Round
    <3> QED BY <3>1, <3>2
  <2> HIDE DEF Texts, n
  <2> QED BY <2>3, <2>4
<1> HIDE DEF out
<1> QED BY <1>1, <1>8, <1>9

\* The scanner walks what the browser reads.
LEMMA StreamsAgree ==
    ASSUME NEW s \in Seq(Token)
    PROVE  /\ NormalizeNewlines(StripBom(s)) = InputStream(s)
           /\ InputStream(s) \in Seq(Token)
<1> DEFINE t == StripBom(s)
           n == Len(t)
           Texts == Seq(Token)
<1>0. t \in Seq(Token)
  BY DEF StripBom
<1>1. n \in Nat
  BY <1>0
<1> HIDE DEF t
<1>2. PICK f \in [0..n -> Texts] :
        /\ f[0] = <<>> /\ \A i \in 1..n : f[i] = Streamed(t, i, f[i - 1])
        /\ InputStream(s) = f[n]
  BY <1>0, StreamSteps DEF t
<1>3. PICK g \in [0..n -> Texts] :
        /\ g[0] = <<>> /\ \A i \in 1..n : g[i] = Normalized(t, i, g[i - 1])
        /\ NormalizeNewlines(t) = g[n]
  BY <1>0, NormalizeSteps
<1> HIDE DEF Texts
<1> DEFINE Pair(i) == i # 0 /\ t[i] = CR /\ i < n /\ t[i + 1] = LF
           Good(i) == g[i] = IF Pair(i) THEN Append(f[i], LF) ELSE f[i]
<1>4. Good(0)
  BY <1>1, <1>2, <1>3
<1>5. ASSUME NEW i \in 1..n, Good(i - 1) PROVE Good(i)
  <2>1. f[i] = IF Pair(i) THEN f[i - 1] ELSE Append(f[i - 1], IF t[i] = CR THEN LF ELSE t[i])
    BY <1>1, <1>2 DEF Streamed
  <2>2. g[i] = IF t[i] = CR THEN Append(g[i - 1], LF)
               ELSE IF t[i] = LF /\ i > 1 /\ t[i - 1] = CR THEN g[i - 1]
               ELSE Append(g[i - 1], t[i])
    BY <1>1, <1>3 DEF Normalized
  <2>3. Pair(i - 1) <=> t[i] = LF /\ i > 1 /\ t[i - 1] = CR
    BY <1>1
  <2>4. i - 1 < n /\ CR # LF
    BY <1>1, LineEnds
  <2>5. CASE t[i] = CR
    <3>1. g[i - 1] = f[i - 1]
      BY <1>5, <2>3, <2>4, <2>5
    <3> HIDE DEF n
    <3> QED BY <2>1, <2>2, <2>5, <3>1
  <2>6. CASE t[i] # CR
    <3>1. ~Pair(i)
      BY <2>6
    <3> HIDE DEF Pair
    <3> QED BY <1>5, <2>1, <2>2, <2>3, <2>6, <3>1
  <2> QED BY <2>5, <2>6
<1>6. Good(n)
  <2> DEFINE S == {i \in 0..n : Good(i)}
  <2> HIDE DEF Good
  <2>1. 0 \in S /\ \A i \in 1..n : i - 1 \in S => i \in S
    BY <1>1, <1>4, <1>5
  <2>2. \A i \in 0..n : i \in S
    <3> HIDE DEF S, n
    <3> QED BY <1>1, <2>1, InductionUpTo
  <2> QED BY <1>1, <2>2
<1>7. g[n] = f[n]
  <2>1. ~Pair(n)
    BY <1>1
  <2> QED BY <1>6, <2>1
<1>8. f[n] \in Texts
  <2> HIDE DEF n
  <2> QED BY <1>1, <1>2
<1> QED BY <1>2, <1>3, <1>7, <1>8 DEF t, Texts

-----------------------------------------------------------------------------
(***************************************************************************)
(* The scanner next to the browser: what one way through the loop makes of *)
(* where the browser stands.                                               *)
(***************************************************************************)

\* Ordinary, for what the browser reads.
OrdinaryText(t) ==
    \A i \in 1..Len(t) :
        /\ t[i] = Open =>
              \/ Reading(t)[i - 1].mode = "data"
              \/ Reading(t)[i - 1].mode \notin Tag \cup {"comment"} /\ ~Reading(t)[i - 1].src
        /\ Reading(t)[i].mode # "double"
        /\ Reading(t)[i].mode \in {"name", "unquoted"} => t[i] \notin Quote
        /\ Reading(t)[i].mode = "unquoted" => t[i] \notin {Slash, Src}

\* A step of the browser.
LEMMA ReadingAt ==
    ASSUME NEW t \in Seq(Token), OrdinaryText(t), NEW i \in 1..Len(t)
    PROVE  /\ Reading(t)[i] = Read(Reading(t)[i - 1], Before(t, i), t[i])
           /\ Reading(t)[i] \in Reached /\ Reading(t)[i - 1] \in Reached
           /\ Reading(t)[i] \in Readers /\ Reading(t)[i - 1] \in Readers
           /\ t[i] \in Token
           /\ Reading(t)[i].mode # "double"
           /\ Reading(t)[i].mode = "unquoted" => t[i] \notin {Slash, Src}
<1>1. i \in 0..Len(t) /\ i - 1 \in 0..Len(t) /\ t[i] \in Token
  OBVIOUS
<1> QED BY <1>1, ReadingSteps DEF OrdinaryText, Reached

LEMMA OrdinaryIs ==
    ASSUME NEW s \in Seq(Token), Ordinary(s)
    PROVE  OrdinaryText(InputStream(s))
<1> DEFINE t == InputStream(s)
<1>1. t \in Seq(Token)
  BY StreamsAgree
<1>2. DOMAIN t = 1..Len(t)
  BY <1>1, LenProperties
<1>3. \A i \in DOMAIN t :
        /\ t[i] = Open =>
              \/ Reading(t)[i - 1].mode = "data"
              \/ Reading(t)[i - 1].mode \notin Tag \cup {"comment"} /\ ~Reading(t)[i - 1].src
        /\ Reading(t)[i].mode # "double"
        /\ Reading(t)[i].mode \in {"name", "unquoted"} => t[i] \notin Quote
        /\ Reading(t)[i].mode = "unquoted" => t[i] \notin {Slash, Src}
  BY DEF Ordinary
<1> HIDE DEF t
<1>4. OrdinaryText(t)
  BY <1>2, <1>3 DEF OrdinaryText
<1> QED BY <1>4 DEF t

\* The first of a set of positions.
LEMMA FirstIs ==
    ASSUME NEW S \in SUBSET Nat, 0 \notin S
    PROVE  /\ First(S) = 0 => S = {}
           /\ First(S) # 0 => First(S) \in S /\ \A j \in S : First(S) <= j
<1>1. CASE S = {}
  BY <1>1 DEF First
<1>2. CASE S # {}
  <2>1. \E i \in S : \A j \in S : i <= j
    BY <1>2, LeastNatural
  <2>2. First(S) \in S /\ \A j \in S : First(S) <= j
    BY <1>2, <2>1 DEF First
  <2> QED BY <1>2, <2>2
<1> QED BY <1>1, <1>2

\* Whatever the browser was about to leave it has left a token later.
LEMMA MetSteps ==
    ASSUME NEW t \in Seq(Token), OrdinaryText(t), NEW H,
           NEW k \in 0..(Len(t) - 1), Met(t, k, H),
           t[k + 1] = Open => Reading(t)[k].mode # "data"
    PROVE  Behind(Reading(t)[k + 1], H)
<1> DEFINE r == Reading(t)[k]
           b == Before(t, k + 1)
           c == t[k + 1]
           q == Reading(t)[k + 1]
           n == Len(t)
<1>0. n \in Nat /\ k + 1 \in 1..n /\ k \in 0..n /\ k < n /\ (k + 1) - 1 = k
  OBVIOUS
<1>1. c \in Token
  BY <1>0
<1>2. r \in Reached /\ q = Read(r, b, c)
  BY <1>0, ReadingSteps
<1>3. q.mode # "double" /\ (c = Open => r.mode \notin Tag)
  <2>1. /\ q.mode # "double"
        /\ c = Open => r.mode = "data" \/ r.mode \notin Tag
    BY <1>0 DEF OrdinaryText
  <2>2. "data" \notin Tag
    BY DEF Tag, Quote, DoubleQuote, SingleQuote
  <2> QED BY <2>1, <2>2
<1>4. \/ Behind(r, H)
      \/ InOtherName(r, c, H)
      \/ InClosingName(r, H) /\ c \in TagNameBoundary
  BY <1>0 DEF Met
<1>5. r.mode = "data" => c # Open
  OBVIOUS
<1> SUFFICES Behind(q, H)
  OBVIOUS
<1> HIDE DEF r, b, c, q
<1>6. r \in Readers
  BY <1>2 DEF Reached
<1>7. CASE Behind(r, H)
  BY <1>1, <1>2, <1>3, <1>5, <1>7, BehindSteps
<1>8. CASE InOtherName(r, c, H)
  <2>1. r.mode = "tag-name" /\ c \notin TagNameBoundary /\ r.inline \subseteq H /\ H \subseteq r.all
    BY <1>8 DEF InOtherName
  <2>2. q.mode = "tag-name" /\ q.tag = "other" /\ SameScripts(r, q)
    BY <1>2, <1>6, <2>1, NameSteps
  <2> QED BY <2>1, <2>2 DEF Behind, SameScripts, Tag
<1>9. CASE InClosingName(r, H) /\ c \in TagNameBoundary
  <2>1. /\ r.inline \subseteq H /\ H \subseteq r.all \cup {r.text}
        /\ r.mode = "maybe-end" /\ r.text \in H
    BY <1>9 DEF InClosingName
  <2>2. \/ q.mode = "between" /\ q.tag = "end" /\ SameScripts(r, q)
        \/ /\ q.mode = "data" /\ q.all = r.all \cup {r.text}
           /\ q.inline \subseteq r.inline \cup {r.text}
    BY <1>2, <1>9, <2>1, ClosingSteps
  <2>3. "between" \in InTag
    BY DEF InTag, Tag
  <2> QED BY <2>1, <2>2, <2>3 DEF Behind, SameScripts
<1> QED BY <1>4, <1>7, <1>8, <1>9

\* The browser follows to the next opening of a script, and to the end if there is
\* none.
LEMMA MetUpTo ==
    ASSUME NEW t \in Seq(Token), OrdinaryText(t), NEW H,
           NEW k \in 0..Len(t), Met(t, k, H), NEW m \in k..Len(t),
           \A i \in (k + 1)..m : t[i] # Open
    PROVE  Met(t, m, H)
<1> DEFINE n == Len(t)
           S == {i \in 0..(m - k) : Met(t, k + i, H)}
<1>0. n \in Nat /\ m - k \in Nat /\ k + 0 = k /\ k + (m - k) = m
  OBVIOUS
<1>1. 0 \in S
  BY <1>0
<1>2. ASSUME NEW i \in 1..(m - k), i - 1 \in S PROVE i \in S
  <2> DEFINE j == k + (i - 1)
  <2>1. Met(t, j, H)
    BY <1>2
  <2>2. j \in 0..(n - 1) /\ j + 1 = k + i /\ j + 1 \in (k + 1)..m /\ i \in 0..(m - k)
    BY <1>0
  <2> HIDE DEF j
  <2>3. t[j + 1] # Open
    BY <2>2
  <2>4. Behind(Reading(t)[j + 1], H)
    BY <2>1, <2>2, <2>3, MetSteps
  <2>5. Met(t, j + 1, H)
    BY <2>4 DEF Met
  <2> QED BY <2>2, <2>5
<1>3. \A i \in 0..(m - k) : i \in S
  <2> HIDE DEF S
  <2> QED BY <1>0, <1>1, <1>2, InductionUpTo
<1>4. m - k \in S
  <2> HIDE DEF S
  <2> QED BY <1>0, <1>3
<1> QED BY <1>0, <1>4

\* A script opens only where the browser has nothing open.
LEMMA MetAtOpen ==
    ASSUME NEW t \in Seq(Token), OrdinaryText(t), NEW H,
           NEW s \in 1..Len(t), Met(t, s - 1, H), t[s] = Open
    PROVE  LET r == Reading(t)[s]
           IN  /\ r \in Readers /\ r.mode = "tag-name" /\ r.tag = "script" /\ ~r.src
               /\ r.inline \subseteq H /\ H \subseteq r.all
<1> DEFINE r == Reading(t)[s - 1]
           q == Reading(t)[s]
           n == Len(t)
<1>0. n \in Nat /\ s - 1 \in 0..n /\ (s - 1) + 1 = s
  OBVIOUS
<1>1. r \in Reached /\ q = Read(r, Before(t, s), Open)
  BY <1>0, ReadingSteps
<1>2. \/ r.mode = "data"
      \/ r.mode \notin Tag \cup {"comment"} /\ ~r.src
  BY DEF OrdinaryText
<1>3. \/ Behind(r, H)
      \/ InOtherName(r, Open, H)
      \/ InClosingName(r, H) /\ (s - 1 < n => Open \in TagNameBoundary)
  BY <1>0 DEF Met
<1>4. s - 1 < n
  BY <1>0
<1> HIDE DEF r, q, n
<1>5. Open \notin TagNameBoundary
  BY DEF TagNameBoundary, White, Blank, LF, Slash, Gt, Open
<1>6. InTag \subseteq Tag /\ "tag-name" \in Tag /\ "tag-name" # "data"
  BY DEF InTag, Tag
<1>7. ~InOtherName(r, Open, H)
  BY <1>2, <1>6 DEF InOtherName
<1>8. Behind(r, H)
  BY <1>3, <1>4, <1>5, <1>7
<1>9. r.mode = "data"
  BY <1>2, <1>6, <1>8 DEF Behind
<1>10. r.inline \subseteq H /\ H \subseteq r.all
  BY <1>8, <1>9 DEF Behind, InTag, Tag, Quote, DoubleQuote, SingleQuote
<1>11. q = BeginTag(r, "script")
  BY <1>1, <1>9, ReadData
<1>12. r \in Readers
  BY <1>1 DEF Reached
<1>13. q \in Readers /\ q.mode = "tag-name" /\ q.tag = "script" /\ ~q.src /\ SameScripts(r, q)
  BY <1>11, <1>12, BeginTagIs
<1> QED BY <1>10, <1>13 DEF SameScripts, q

-----------------------------------------------------------------------------
(***************************************************************************)
(* The attributes of an opening tag.                                       *)
(***************************************************************************)

\* What a token does to the quote that is open (ends_inside_quotes).
QuoteNext(q, c) == IF q = c THEN "none" ELSE IF q = "none" /\ c \in Quote THEN c ELSE q

LEMMA QuoteAfterSteps ==
    ASSUME NEW v \in Seq(Token)
    PROVE  /\ QuoteAfter(v)[0] = "none"
           /\ \A i \in 1..Len(v) : QuoteAfter(v)[i] = QuoteNext(QuoteAfter(v)[i - 1], v[i])
<1> DEFINE n == Len(v)
           Round(f) == [i \in 0..n |->
                          IF i = 0 THEN "none"
                          ELSE LET q == f[i - 1]
                                   c == v[i]
                               IN  IF q = c THEN "none"
                                   ELSE IF q = "none" /\ c \in Quote THEN c ELSE q]
           open == CHOOSE f : f = Round(f)
           T == Quote \cup {"none"}
           step == [x \in T \X (1..n) |-> QuoteNext(x[1], v[x[2]])]
<1>0. n \in Nat /\ "none" \in T
  OBVIOUS
<1>1. QuoteAfter(v) = open
  BY DEF QuoteAfter
<1>2. PICK g : IsRecord(T, n, "none", step, g)
  <2>1. \A q \in T : \A c : QuoteNext(q, c) \in T
    BY DEF QuoteNext
  <2>2. IsRound(T, n, step)
    <3> HIDE DEF T, n
    <3> QED BY <2>1 DEF IsRound
  <2> HIDE DEF T, n, step
  <2> QED BY <1>0, <2>2, IterationExists
<1>3. g \in [0..n -> T] /\ g[0] = "none"
  BY <1>2 DEF IsRecord
<1>4. ASSUME NEW i \in 1..n PROVE g[i] = QuoteNext(g[i - 1], v[i])
  <2>1. g[i - 1] \in T
    <3> HIDE DEF T, n
    <3> QED BY <1>0, <1>3
  <2>2. g[i] = step[<<g[i - 1], i>>]
    <3> HIDE DEF T, n, step
    <3> QED BY <1>2 DEF IsRecord
  <2> HIDE DEF T, n
  <2> QED BY <2>1, <2>2
<1>5. g = Round(g)
  <2>1. ASSUME NEW i \in 0..n PROVE g[i] = Round(g)[i]
    <3>1. CASE i = 0
      BY <1>3, <3>1
    <3>2. CASE i # 0
      BY <1>4, <3>2 DEF QuoteNext
    <3> QED BY <3>1, <3>2
  <2>2. g = [i \in 0..n |-> g[i]] /\ DOMAIN Round(g) = 0..n
    <3> HIDE DEF n, T
    <3> QED BY <1>3
  <2> QED BY <2>1, <2>2
<1>6. open = Round(open)
  <2> HIDE DEF Round
  <2> QED BY <1>5
<1>7. \A i \in 0..n : open[i] = Round(open)[i]
  BY <1>6
<1>8. open[0] = "none"
  <2> HIDE DEF open
  <2> QED BY <1>0, <1>7
<1>9. ASSUME NEW i \in 1..n PROVE open[i] = QuoteNext(open[i - 1], v[i])
  <2> HIDE DEF open
  <2> QED BY <1>0, <1>7 DEF QuoteNext
<1> QED BY <1>1, <1>8, <1>9

\* The browser, in the attributes of a script that it began to read in the state r,
\* agrees with the scanner on the quote that is open.
InAttributes(r, q, quote) ==
    /\ q \in Readers /\ q.mode \in InTag /\ q.tag = "script"
    /\ q.inline = r.inline /\ q.all = r.all
    /\ quote = IF q.mode \in Quote THEN q.mode ELSE "none"

\* The name of a script that has been read up to s is followed by the attributes up to
\* the end of the tag, at e.
IsTag(t, s, e) ==
    /\ s \in 1..Len(t) /\ e \in (s + 1)..Len(t)
    /\ Reading(t)[s].mode = "tag-name" /\ Reading(t)[s].tag = "script"
    /\ t[s + 1] \in TagNameBoundary
    /\ t[e] = Gt /\ \A i \in (s + 1)..(e - 1) : t[i] # Gt

LEMMA FirstAttribute ==
    ASSUME NEW r \in Readers, r.mode = "tag-name", r.tag = "script", NEW b,
           NEW c \in TagNameBoundary, c # Gt, NEW q, q = Read(r, b, c)
    PROVE  q.mode = "between" /\ q.src = r.src /\ InAttributes(r, q, QuoteNext("none", c))
<1>1. q \in Readers /\ q.mode = "between" /\ SameTag(r, q) /\ q.src = r.src
  BY NameSteps
<1>2. c \notin Quote /\ "between" \notin Quote /\ "between" \in InTag
  BY Quotes DEF TagNameBoundary, InTag, Tag
<1> QED BY <1>1, <1>2 DEF InAttributes, QuoteNext, SameTag, SameScripts

LEMMA NextAttribute ==
    ASSUME NEW r, NEW p, NEW quote, InAttributes(r, p, quote), NEW b, NEW c \in Token,
           c # Gt, NEW q, q = Read(p, b, c),
           q.mode \in {"name", "unquoted"} => c \notin Quote
    PROVE  InAttributes(r, q, QuoteNext(quote, c)) /\ (p.src => q.src)
<1>1. /\ p \in Readers /\ p.mode \in InTag /\ p.tag = "script"
      /\ p.inline = r.inline /\ p.all = r.all
      /\ quote = IF p.mode \in Quote THEN p.mode ELSE "none"
  BY DEF InAttributes
<1>2. q \in Readers /\ q.mode \in InTag /\ SameTag(p, q) /\ (p.src => q.src)
  BY <1>1, TagSteps DEF StepsInTag
<1>3. /\ p.mode \in Quote => q.mode = IF c = p.mode THEN "between" ELSE p.mode
      /\ p.mode \notin Quote /\ c \notin Quote => q.mode \notin Quote
      /\ p.mode \notin Quote /\ c \in Quote => q.mode \in {c, "name", "unquoted"}
  BY <1>1, QuoteSteps
<1>4. "none" \notin Quote /\ "between" \notin Quote
  BY Quotes
<1>5. QuoteNext(quote, c) = IF q.mode \in Quote THEN q.mode ELSE "none"
  <2>1. CASE p.mode \in Quote
    BY <1>1, <1>3, <1>4, <2>1 DEF QuoteNext
  <2>2. CASE p.mode \notin Quote /\ c \notin Quote
    BY <1>1, <1>3, <1>4, <2>2 DEF QuoteNext
  <2>3. CASE p.mode \notin Quote /\ c \in Quote
    BY <1>1, <1>3, <1>4, <2>3 DEF QuoteNext
  <2> QED BY <2>1, <2>2, <2>3
<1> QED BY <1>1, <1>2, <1>5 DEF InAttributes, SameTag, SameScripts

\* What the browser makes of the attributes v of such a tag.
AttributesAre(t, s, e, v) ==
    /\ v \in Seq(Token) /\ Len(v) = e - s - 1
    /\ \A j \in 1..(e - s - 1) : v[j] = t[s + j]
    /\ \A j \in 1..(e - s - 1) :
           InAttributes(Reading(t)[s], Reading(t)[s + j], QuoteAfter(v)[j])
    /\ \A j \in 1..(e - s - 1 - 1) : Reading(t)[s + j].src => Reading(t)[s + j + 1].src

LEMMA AttributesRead ==
    ASSUME NEW t \in Seq(Token), OrdinaryText(t), NEW s, NEW e, IsTag(t, s, e)
    PROVE  AttributesAre(t, s, e, SubSeq(t, s + 1, e - 1))
<1> DEFINE n == Len(t)
           m == e - s - 1
           R == Reading(t)
           r == R[s]
           v == SubSeq(t, s + 1, e - 1)
           K == QuoteAfter(v)
<1>0. /\ n \in Nat /\ s \in 1..n /\ e \in (s + 1)..n /\ m \in Nat
      /\ \A i \in 1..n : t[i] \in Token
  BY DEF IsTag
<1>1. v \in Seq(Token) /\ Len(v) = m /\ \A j \in 1..m : v[j] = t[s + j]
  <2>1. \A i \in (s + 1)..(e - 1) : t[i] \in Token
    BY <1>0
  <2>2. Len(v) = IF s + 1 <= e - 1 THEN (e - 1) - (s + 1) + 1 ELSE 0
    BY <1>0, SubSeqProperties
  <2> QED BY <1>0, <2>1, <2>2, SubSeqProperties
<1>2. K[0] = "none" /\ \A j \in 1..m : K[j] = QuoteNext(K[j - 1], v[j])
  BY <1>1, QuoteAfterSteps
<1>3. ASSUME NEW j \in 1..m
      PROVE  /\ R[s + j] = Read(R[s + j - 1], Before(t, s + j), t[s + j])
             /\ t[s + j] \in Token /\ t[s + j] # Gt
             /\ R[s + j].mode \in {"name", "unquoted"} => t[s + j] \notin Quote
  <2>1. s + j \in 1..n /\ s + j \in (s + 1)..(e - 1)
    BY <1>0
  <2> QED BY SMTT(40), <1>0, <2>1, ReadingSteps DEF IsTag, OrdinaryText
<1>4. r \in Readers /\ r.mode = "tag-name" /\ r.tag = "script" /\ t[s + 1] \in TagNameBoundary
  <2>1. s \in 0..n
    BY <1>0
  <2> QED BY <2>1, ReadingSteps DEF Reached, IsTag
<1> DEFINE Good(j) == InAttributes(r, R[s + j], K[j])
<1> HIDE DEF R, K, r, n, v
<1>5. 1 \in 1..m => Good(1)
  <2>1. SUFFICES ASSUME 1 \in 1..m PROVE Good(1)
    OBVIOUS
  <2>2. /\ R[s + 1] = Read(r, Before(t, s + 1), t[s + 1])
        /\ t[s + 1] # Gt
    <3>1. s + 1 - 1 = s
      BY <1>0
    <3> QED BY <1>3, <2>1, <3>1 DEF r
  <2>3. K[1] = QuoteNext("none", t[s + 1])
    BY <1>1, <1>2, <2>1
  <2> QED BY <1>4, <2>2, <2>3, FirstAttribute
<1>6. ASSUME NEW j \in 1..m, j - 1 \in 1..m, Good(j - 1)
      PROVE  Good(j) /\ (R[s + j - 1].src => R[s + j].src)
  <2>1. R[s + j] = Read(R[s + j - 1], Before(t, s + j), t[s + j])
    BY <1>3
  <2>2. K[j] = QuoteNext(K[j - 1], t[s + j])
    BY <1>1, <1>2
  <2>3. s + (j - 1) = s + j - 1
    BY <1>0
  <2>4. InAttributes(r, R[s + j - 1], K[j - 1])
    BY <1>6, <2>3
  <2> QED BY <1>3, <2>1, <2>2, <2>4, NextAttribute
<1>7. \A j \in 1..m : Good(j)
  <2> DEFINE S == {j \in 0..m : j = 0 \/ Good(j)}
  <2> HIDE DEF Good
  <2>1. 0 \in S
    BY <1>0
  <2>2. ASSUME NEW j \in 1..m, j - 1 \in S PROVE j \in S
    <3>1. CASE j = 1
      BY <1>0, <1>5, <3>1
    <3>2. CASE j # 1
      <4>1. j - 1 \in 1..m /\ j - 1 # 0
        BY <1>0, <3>2
      <4> QED BY <1>6, <2>2, <4>1
    <3> QED BY <3>1, <3>2
  <2>3. \A j \in 0..m : j \in S
    <3> HIDE DEF S, m
    <3> QED BY <1>0, <2>1, <2>2, InductionUpTo
  <2> QED BY <1>0, <2>3
<1>8. ASSUME NEW j \in 1..(m - 1) PROVE R[s + j].src => R[s + j + 1].src
  <2>1. j + 1 \in 1..m /\ (j + 1) - 1 = j /\ j \in 1..m
    BY <1>0
  <2>2. s + (j + 1) - 1 = s + j /\ s + (j + 1) = s + j + 1
    BY <1>0
  <2> DEFINE i == j + 1
  <2>3. Good(i - 1) /\ i - 1 \in 1..m /\ i \in 1..m
    BY <1>7, <2>1
  <2>4. R[s + i - 1].src => R[s + i].src
    <3> HIDE DEF i, Good
    <3> QED BY <1>6, <2>3
  <2> QED BY <2>2, <2>4
<1>9. AttributesAre(t, s, e, v)
  BY <1>1, <1>7, <1>8 DEF R, K, r, AttributesAre
<1> QED BY <1>9 DEF v

\* A src attribute that the scanner sees is one that the browser sees.
LEMMA SrcRead ==
    ASSUME NEW t \in Seq(Token), OrdinaryText(t), NEW s, NEW e, IsTag(t, s, e),
           HasSrcAttribute(SubSeq(t, s + 1, e - 1))
    PROVE  e - 1 > s /\ Reading(t)[e - 1].src
<1> DEFINE n == Len(t)
           m == e - s - 1
           R == Reading(t)
           v == SubSeq(t, s + 1, e - 1)
           K == QuoteAfter(v)
<1>0. n \in Nat /\ s \in 1..n /\ e \in (s + 1)..n /\ m \in Nat
  BY DEF IsTag
<1>1. /\ v \in Seq(Token) /\ Len(v) = m
      /\ \A j \in 1..m : v[j] = t[s + j]
      /\ \A j \in 1..m : InAttributes(R[s], R[s + j], K[j])
      /\ \A j \in 1..(m - 1) : R[s + j].src => R[s + j + 1].src
  <2>1. AttributesAre(t, s, e, v)
    BY AttributesRead
  <2> HIDE DEF v
  <2> QED BY <2>1 DEF AttributesAre
<1>2. DOMAIN v = 1..m
  BY <1>1
<1>3. PICK i \in DOMAIN v, last \in DOMAIN v :
        /\ v[i] = Src
        /\ K[i - 1] = "none"
        /\ i = 1 \/ v[i - 1] \in AttributeBoundary
        /\ i < last /\ v[last] = Equals
        /\ \A k \in (i + 1)..(last - 1) : v[k] \in White
  BY DEF HasSrcAttribute
<1> HIDE DEF v
<1>4. i \in 1..m /\ last \in 1..m
  BY <1>2
<1>5. ASSUME NEW j \in 1..m
      PROVE  /\ R[s + j] = Read(R[s + j - 1], Before(t, s + j), t[s + j])
             /\ R[s + j - 1] \in Readers
             /\ R[s + j].mode = "unquoted" => t[s + j] \notin {Slash, Src}
  <2> DEFINE k == s + j
  <2>1. k \in 1..n
    BY <1>0
  <2> HIDE DEF k
  <2>2. /\ R[k] = Read(R[k - 1], Before(t, k), t[k])
        /\ R[k - 1] \in Readers
        /\ R[k].mode = "unquoted" => t[k] \notin {Slash, Src}
    BY <2>1, ReadingAt
  <2> HIDE DEF R
  <2>3. k = s + j /\ k - 1 = s + j - 1
    BY <1>0 DEF k
  <2> QED BY <2>2, <2>3
<1>6. t[s + 1] \in TagNameBoundary /\ R[s].mode = "tag-name"
  BY DEF IsTag
<1> HIDE DEF R, K, m
<1>7. i # 1
  <2>1. Src \notin TagNameBoundary
    BY DEF TagNameBoundary, White, Blank, LF, Slash, Gt, Src
  <2> QED BY <1>1, <1>3, <1>4, <1>6, <2>1
<1> DEFINE h == i - 1
<1>8. h \in 1..m /\ i = h + 1 /\ h + 2 \in 1..m
  BY <1>0, <1>3, <1>4, <1>7
<1>9. v[h] \in AttributeBoundary /\ K[h] = "none"
  BY <1>3, <1>7
<1> HIDE DEF h
<1>10. R[s + h].mode \in {"between", "after-name", "before-value"}
  <2>1. R[s + h].mode \notin Quote
    BY <1>1, <1>8, <1>9, Quotes DEF InAttributes
  <2>2. R[s + h - 1].mode \in Tag
    <3>1. CASE h = 1
      <4>1. s + h - 1 = s
        BY <1>0, <3>1
      <4> QED BY <1>6, <4>1 DEF Tag
    <3>2. CASE h # 1
      <4>1. h - 1 \in 1..m /\ s + (h - 1) = s + h - 1
        BY <1>0, <1>8, <3>2
      <4>2. R[s + h - 1].mode \in InTag
        BY <1>1, <4>1 DEF InAttributes
      <4> QED BY <4>2 DEF InTag
    <3> QED BY <3>1, <3>2
  <2>3. t[s + h] \in AttributeBoundary
    BY <1>1, <1>8, <1>9
  <2>4. t[s + h] = Slash => R[s + h].mode # "unquoted"
    BY <1>5, <1>8
  <2>5. R[s + h] = Read(R[s + h - 1], Before(t, s + h), t[s + h]) /\ R[s + h - 1] \in Readers
    BY <1>5, <1>8
  <2> QED BY <2>1, <2>2, <2>3, <2>4, <2>5, BoundarySteps
<1>11. R[s + i].mode = "name" /\ R[s + i].name = "src"
  <2>1. s + i - 1 = s + h /\ t[s + i] = Src
    BY <1>0, <1>1, <1>3, <1>4, <1>8
  <2>2. /\ R[s + i] = Read(R[s + h], Before(t, s + i), Src) /\ R[s + h] \in Readers
        /\ R[s + i].mode # "unquoted"
    BY <1>4, <1>5, <2>1
  <2> QED BY <1>10, <2>2, SrcBegins
<1> DEFINE j == i + 1
<1>12. j \in 1..m /\ s + j - 1 = s + i
  BY <1>0, <1>4, <1>8
<1>13. v[j] \in White \cup {Equals}
  <2>1. CASE last = j
    BY <1>3, <2>1
  <2>2. CASE last # j
    <3>1. j \in (i + 1)..(last - 1)
      BY <1>3, <1>4, <2>2
    <3> QED BY <1>3, <3>1
  <2> QED BY <2>1, <2>2
<1> HIDE DEF j
<1>14. R[s + j].src
  <2>1. t[s + j] \in White \cup {Equals}
    BY <1>1, <1>12, <1>13
  <2>2. R[s + j] = Read(R[s + i], Before(t, s + j), t[s + j]) /\ R[s + i] \in Readers
    BY <1>5, <1>12
  <2> QED BY <1>11, <2>1, <2>2, SrcEnds
<1>15. R[s + m].src
  <2> DEFINE S == {k \in 0..(m - j) : R[s + (j + k)].src}
  <2>1. m - j \in Nat /\ j + 0 = j /\ j + (m - j) = m
    BY <1>0, <1>12
  <2>2. 0 \in S
    BY <1>14, <2>1
  <2>3. ASSUME NEW k \in 1..(m - j), k - 1 \in S PROVE k \in S
    <3> DEFINE l == j + (k - 1)
    <3>1. R[s + l].src
      BY <2>3
    <3>2. l \in 1..(m - 1) /\ s + l + 1 = s + (j + k) /\ k \in 0..(m - j)
      BY <1>0, <1>12
    <3> HIDE DEF l
    <3>3. R[s + l + 1].src
      BY <1>1, <3>1, <3>2
    <3> QED BY <3>2, <3>3
  <2>4. \A k \in 0..(m - j) : k \in S
    <3> HIDE DEF S
    <3> QED BY <2>1, <2>2, <2>3, InductionUpTo
  <2>5. m - j \in S
    <3> HIDE DEF S
    <3> QED BY <2>1, <2>4
  <2> QED BY <2>1, <2>5
<1>16. s + m = e - 1 /\ e - 1 > s
  BY <1>0, <1>4 DEF m
<1> QED BY <1>15, <1>16 DEF R

\* The end of the tag of an external script: nothing is open that needs a hash.
LEMMA ExternalRead ==
    ASSUME NEW t \in Seq(Token), OrdinaryText(t), NEW s, NEW e, IsTag(t, s, e),
           HasSrcAttribute(SubSeq(t, s + 1, e - 1)), NEW H,
           Reading(t)[s].inline \subseteq H, H \subseteq Reading(t)[s].all
    PROVE  Behind(Reading(t)[e], H)
<1> DEFINE n == Len(t)
           v == SubSeq(t, s + 1, e - 1)
           m == e - s - 1
           r == Reading(t)[e - 1]
           q == Reading(t)[e]
<1>0. /\ n \in Nat /\ s \in 1..n /\ e \in (s + 1)..n /\ e \in 1..n
      /\ t[e] = Gt
  BY DEF IsTag
<1>1. e - 1 > s /\ r.src
  BY SrcRead
<1>2. r \in Readers /\ r.mode \in InTag /\ r.tag = "script"
      /\ r.inline = Reading(t)[s].inline /\ r.all = Reading(t)[s].all
  <2>1. m \in 1..m /\ s + m = e - 1
    BY <1>0, <1>1
  <2>2. Len(v) = m
    <3>1. AttributesAre(t, s, e, v)
      BY AttributesRead
    <3> HIDE DEF v
    <3> QED BY <3>1 DEF AttributesAre
  <2>3. InAttributes(Reading(t)[s], Reading(t)[s + m], QuoteAfter(v)[m])
    <3>1. AttributesAre(t, s, e, v)
      BY AttributesRead
    <3>2. \A j \in 1..m : InAttributes(Reading(t)[s], Reading(t)[s + j], QuoteAfter(v)[j])
      <4> HIDE DEF v
      <4> QED BY <3>1 DEF AttributesAre
    <3> HIDE DEF v, m
    <3> QED BY <2>1, <3>2
  <2> QED BY <2>1, <2>3 DEF InAttributes
<1>3. q = Read(r, Before(t, e), Gt)
  BY <1>0, ReadingSteps
<1>4. r.inline \subseteq H /\ H \subseteq r.all
  BY <1>2
<1> SUFFICES Behind(q, H)
  OBVIOUS
<1> HIDE DEF r, q
<1>5. StepsInTag(r, Gt, q)
  BY <1>2, <1>3, TagSteps
<1>6. CASE r.mode \notin Quote
  <2>1. PICK p \in Readers : SameTag(r, p) /\ (r.src => p.src) /\ q = EndTag(p)
    BY <1>5, <1>6 DEF StepsInTag
  <2>2. p.tag = "script" /\ p.src /\ p.inline = r.inline /\ p.all = r.all
    BY <1>1, <1>2, <2>1 DEF SameTag, SameScripts
  <2>3. q.mode = "text" /\ q.src /\ q.inline = r.inline /\ q.all = r.all
    BY <2>1, <2>2, EndTagIs
  <2> QED BY <1>4, <2>3 DEF Behind, InText
<1>7. CASE r.mode \in Quote
  <2>1. q.mode \in InTag /\ SameTag(r, q) /\ q.src
    BY <1>1, <1>5, <1>7 DEF StepsInTag
  <2> QED BY <1>2, <1>4, <2>1 DEF Behind, InTag, SameTag, SameScripts
<1> QED BY <1>6, <1>7

\* The end of a tag whose quotes are all closed: the text begins.
LEMMA TextBegins ==
    ASSUME NEW t \in Seq(Token), OrdinaryText(t), NEW s, NEW e, IsTag(t, s, e),
           ~EndsInsideQuotes(SubSeq(t, s + 1, e - 1))
    PROVE  /\ Reading(t)[e].mode = "text" /\ Reading(t)[e].text = <<>>
           /\ Reading(t)[e].inline = Reading(t)[s].inline
           /\ Reading(t)[e].all = Reading(t)[s].all
<1> DEFINE n == Len(t)
           v == SubSeq(t, s + 1, e - 1)
           m == e - s - 1
           a == Reading(t)[s]
           r == Reading(t)[e - 1]
           q == Reading(t)[e]
<1>0. /\ n \in Nat /\ s \in 1..n /\ s \in 0..n /\ e \in (s + 1)..n /\ e \in 1..n /\ e - 1 \in 0..n
      /\ t[e] = Gt /\ a.mode = "tag-name" /\ a.tag = "script" /\ m \in Nat
  BY DEF IsTag
<1>1. q = Read(r, Before(t, e), Gt) /\ r \in Readers
  BY <1>0, ReadingSteps DEF Reached
<1> SUFFICES ASSUME ~(q.mode = "text" /\ q.text = <<>> /\ q.inline = a.inline /\ q.all = a.all)
             PROVE  FALSE
  OBVIOUS
<1>2. CASE m = 0
  <2>1. e - 1 = s
    BY <1>0, <1>2
  <2>2. r = a
    BY <2>1
  <2> HIDE DEF r, q, a
  <2>3. q = EndTag(r)
    BY <1>0, <1>1, <2>2, NameSteps
  <2> QED BY <1>0, <1>1, <2>2, <2>3, EndTagIs
<1>3. CASE m # 0
  <2>1. m \in 1..m /\ s + m = e - 1
    BY <1>0, <1>3
  <2>2. Len(v) = m
    <3>1. AttributesAre(t, s, e, v)
      BY AttributesRead
    <3> HIDE DEF v
    <3> QED BY <3>1 DEF AttributesAre
  <2>3. InAttributes(a, Reading(t)[s + m], QuoteAfter(v)[m])
    <3>1. AttributesAre(t, s, e, v)
      BY AttributesRead
    <3>2. \A j \in 1..m : InAttributes(Reading(t)[s], Reading(t)[s + j], QuoteAfter(v)[j])
      <4> HIDE DEF v
      <4> QED BY <3>1 DEF AttributesAre
    <3> HIDE DEF v, m
    <3> QED BY <2>1, <3>2
  <2>4. QuoteAfter(v)[m] = "none"
    <3> HIDE DEF m
    <3> QED BY <2>2 DEF EndsInsideQuotes
  <2>5. InAttributes(a, r, "none")
    BY <2>1, <2>3, <2>4
  <2> HIDE DEF r, q, a
  <2>6. /\ r.mode \in InTag /\ r.mode \notin Quote /\ r.tag = "script"
        /\ r.inline = a.inline /\ r.all = a.all
    BY <2>5, Quotes DEF InAttributes
  <2>7. PICK p \in Readers : SameTag(r, p) /\ q = EndTag(p)
    BY <1>1, <2>6, TagSteps DEF StepsInTag
  <2>8. p.tag = "script" /\ p.inline = a.inline /\ p.all = a.all
    BY <2>6, <2>7 DEF SameTag, SameScripts
  <2> QED BY <2>7, <2>8, EndTagIs
<1> QED BY <1>2, <1>3

-----------------------------------------------------------------------------
(***************************************************************************)
(* The text of a script.                                                   *)
(***************************************************************************)

\* The browser has read v since the text of a script began in the state a; last is the
\* last token of it, which it may still take for a closing tag.
HasRead(a, v, last, r) ==
    /\ r.inline = a.inline /\ r.all = a.all
    /\ \/ r.mode \in {"text", "escaped", "maybe-double"} /\ r.text = v
       \/ r.mode = "maybe-end" /\ v = Append(r.text, Close) /\ last = Close

LEMMA HasReadSteps ==
    ASSUME NEW r \in Reached, NEW a, NEW v, NEW last, HasRead(a, v, last, r),
           NEW b, NEW c \in Token, c # Nul, last = Close => c \notin TagNameBoundary,
           NEW q, q = Read(r, b, c), q.mode # "double"
    PROVE  /\ HasRead(a, Append(v, c), c, q)
           /\ c = Close => q.mode = "maybe-end" /\ q.text = v
<1>0. r \in Readers
  BY DEF Reached
<1>1. ASSUME NEW s, s.text = v, Takes(s, c, q), q.inline = a.inline, q.all = a.all
      PROVE  /\ HasRead(a, Append(v, c), c, q)
             /\ c = Close => q.mode = "maybe-end" /\ q.text = v
  BY <1>1 DEF Takes, HasRead
<1>2. CASE r.mode \in {"text", "escaped", "maybe-double"}
  <2>1. StepsInText(r, q) /\ Takes(r, c, q)
    BY <1>2, TextSteps DEF InScript, InText
  <2>2. r.text = v /\ r.inline = a.inline /\ r.all = a.all
    BY <1>2 DEF HasRead
  <2>3. q.inline = a.inline /\ q.all = a.all
    BY <2>1, <2>2 DEF StepsInText
  <2> QED BY <1>1, <2>1, <2>2, <2>3
<1>3. CASE r.mode = "maybe-end"
  <2>1. /\ v = Append(r.text, Close) /\ c \notin TagNameBoundary
        /\ r.inline = a.inline /\ r.all = a.all
    BY <1>3 DEF HasRead
  <2>2. ~Follows(c)
    BY <2>1 DEF Follows, TagNameBoundary
  <2> DEFINE m == r.name
             o == Mode(r, m)
             s == Add(o, Close)
  <2>3. m \in Modes /\ m \in {"text", "escaped"}
    BY <1>3 DEF Reached, Modes, InText
  <2>4. q = ScriptText(s, b, c)
    BY <1>3, <2>2, ReadMaybeEnd
  <2> HIDE DEF m
  <2>5. o \in Readers /\ o.mode = m /\ SameTag(r, o)
    BY <1>0, <2>3, ModeIs
  <2>6. Close \in Token /\ Close # Nul
    BY DEF Token, Close, Nul
  <2> HIDE DEF o
  <2>7. /\ s \in Readers /\ s.mode = o.mode /\ s.text = Append(o.text, Close)
        /\ s.inline = o.inline /\ s.all = o.all
    BY <2>5, <2>6, AddIs
  <2> HIDE DEF s
  <2>8. s.text = v /\ s.inline = a.inline /\ s.all = a.all
    BY <2>1, <2>5, <2>7 DEF SameTag, SameScripts
  <2>9. StepsInText(s, q) /\ Takes(s, c, q)
    BY <2>3, <2>4, <2>5, <2>7, ScriptTextSteps
  <2>10. q.inline = a.inline /\ q.all = a.all
    BY <2>8, <2>9 DEF StepsInText
  <2> QED BY <1>1, <2>8, <2>9, <2>10
<1> QED BY <1>2, <1>3 DEF HasRead

\* The text of a script, up to the first closing tag: what the scanner takes a hash of
\* is what the browser runs.
LEMMA TextRead ==
    ASSUME NEW t \in Seq(Token), OrdinaryText(t), NEW e \in 1..Len(t),
           Reading(t)[e].mode = "text", Reading(t)[e].text = <<>>,
           NEW f \in (e + 1)..Len(t), t[f] = Close,
           \A i \in (e + 1)..(f - 1) :
              t[i] # Nul /\ ~(t[i] = Close /\ t[i + 1] \in TagNameBoundary)
    PROVE  /\ Reading(t)[f].mode = "maybe-end"
           /\ Reading(t)[f].text = SubSeq(t, e + 1, f - 1)
           /\ Reading(t)[f].inline = Reading(t)[e].inline
           /\ Reading(t)[f].all = Reading(t)[e].all
<1> DEFINE n == Len(t)
           R == Reading(t)
           a == R[e]
           v(j) == SubSeq(t, e + 1, j)
           last(j) == IF j = e THEN Gt ELSE t[j]
           Good(j) == HasRead(a, v(j), last(j), R[j])
<1>0. n \in Nat /\ e \in 1..n /\ f \in (e + 1)..n /\ f - 1 \in e..(n - 1) /\ (f - 1) + 1 = f
  OBVIOUS
<1>1. ASSUME NEW j \in e..(n - 1) PROVE v(j + 1) = Append(v(j), t[j + 1])
  <2> DEFINE m == e + 1
             k == j + 1
             w == SubSeq(t, m, k - 1)
  <2>1. m \in 1..n /\ k \in m..n /\ k - 1 = j /\ t[k] \in Token
    BY <1>0
  <2>2. \A i \in m..(k - 1) : t[i] \in Token
    BY <1>0
  <2> HIDE DEF m, k
  <2>3. SubSeq(t, m, k) = w \o <<t[k]>>
    BY <2>1, SubSeqRecursiveSecond
  <2>4. w \in Seq(Token)
    <3>1. m \in Int /\ k - 1 \in Int
      BY <2>1
    <3> QED BY <2>2, <3>1, SubSeqProperties
  <2>5. w \o <<t[k]>> = Append(w, t[k])
    <3> HIDE DEF w
    <3> QED BY <2>1, <2>4, AppendIsConcat
  <2>6. SubSeq(t, m, k) = Append(w, t[k])
    BY <2>3, <2>5
  <2>7. w = SubSeq(t, m, j)
    BY <2>1
  <2> QED BY <2>6, <2>7 DEF m, k
<1>2. v(e) = <<>>
  BY <1>0, SubSeqEmpty
<1>3. ASSUME NEW k \in (e + 1)..n
      PROVE  /\ R[k] = Read(R[k - 1], Before(t, k), t[k]) /\ R[k - 1] \in Reached
             /\ t[k] \in Token /\ R[k].mode # "double"
  <2>1. k \in 1..n
    BY <1>0
  <2> QED BY <2>1, ReadingAt
<1>4. Gt # Close /\ Close # Nul /\ Close \notin TagNameBoundary
  BY DEF Gt, Close, Nul, TagNameBoundary, White, Blank, LF, Slash
<1>5. a.mode = "text" /\ a.text = <<>>
  OBVIOUS
<1>6. \A i \in (e + 1)..(f - 1) :
        t[i] # Nul /\ ~(t[i] = Close /\ t[i + 1] \in TagNameBoundary)
  OBVIOUS
<1> HIDE DEF n, R, a, v
<1>7. Good(e)
  BY <1>2, <1>5 DEF HasRead, a
<1>8. ASSUME NEW j \in e..(f - 1), Good(j)
      PROVE  /\ j + 1 < f => Good(j + 1)
             /\ j + 1 = f => R[f].mode = "maybe-end" /\ R[f].text = v(j)
             /\ R[j + 1].inline = a.inline /\ R[j + 1].all = a.all
  <2> DEFINE k == j + 1
  <2>1. k \in (e + 1)..n /\ k - 1 = j /\ j \in e..(n - 1) /\ k # e /\ k \in (e + 1)..f
    BY <1>0
  <2>2. v(k) = Append(v(j), t[k])
    BY <1>1, <2>1
  <2>3. last(j) = Close => t[k] \notin TagNameBoundary
    <3>1. CASE j = e
      BY <1>4, <3>1
    <3>2. CASE j # e
      <4>1. j \in (e + 1)..(f - 1)
        BY <1>0, <3>2
      <4> QED BY <1>6, <3>2, <4>1
    <3> QED BY <3>1, <3>2
  <2> HIDE DEF k, last
  <2>4. t[k] # Nul
    <3>1. CASE k = f
      BY <1>4, <3>1
    <3>2. CASE k # f
      <4>1. k \in (e + 1)..(f - 1)
        BY <1>0, <2>1, <3>2
      <4> QED BY <1>6, <4>1
    <3> QED BY <3>1, <3>2
  <2>5. R[k] = Read(R[j], Before(t, k), t[k]) /\ R[j] \in Reached
        /\ t[k] \in Token /\ R[k].mode # "double"
    BY <1>3, <2>1
  <2>6. HasRead(a, v(j), last(j), R[j])
    BY <1>8
  <2>7. /\ HasRead(a, Append(v(j), t[k]), t[k], R[k])
        /\ t[k] = Close => R[k].mode = "maybe-end" /\ R[k].text = v(j)
    BY <2>3, <2>4, <2>5, <2>6, HasReadSteps
  <2>8. t[k] = last(k)
    BY <2>1 DEF last
  <2>9. Good(k)
    BY <2>2, <2>7, <2>8
  <2>10. k = f => R[f].mode = "maybe-end" /\ R[f].text = v(j)
    BY <2>7
  <2>11. R[k].inline = a.inline /\ R[k].all = a.all
    BY <2>7 DEF HasRead
  <2> QED BY <2>9, <2>10, <2>11 DEF k
<1>9. Good(f - 1)
  <2> DEFINE S == {i \in 0..(f - 1 - e) : Good(e + i)}
  <2>1. f - 1 - e \in Nat /\ e + 0 = e /\ e + (f - 1 - e) = f - 1
    BY <1>0
  <2> HIDE DEF Good
  <2>2. 0 \in S
    BY <1>7, <2>1
  <2>3. ASSUME NEW i \in 1..(f - 1 - e), i - 1 \in S PROVE i \in S
    <3> DEFINE j == e + (i - 1)
    <3>1. Good(j)
      BY <2>3
    <3>2. j \in e..(f - 1) /\ j + 1 < f /\ j + 1 = e + i /\ i \in 0..(f - 1 - e)
      BY <1>0
    <3> HIDE DEF j
    <3>3. Good(j + 1)
      BY <1>8, <3>1, <3>2
    <3> QED BY <3>2, <3>3
  <2>4. \A i \in 0..(f - 1 - e) : i \in S
    <3> HIDE DEF S
    <3> QED BY <2>1, <2>2, <2>3, InductionUpTo
  <2>5. f - 1 - e \in S
    <3> HIDE DEF S
    <3> QED BY <2>1, <2>4
  <2> QED BY <2>1, <2>5
<1> DEFINE j == f - 1
<1>10. j \in e..(f - 1) /\ j + 1 = f /\ Good(j)
  BY <1>0, <1>9
<1> HIDE DEF Good, j
<1>11. R[f].mode = "maybe-end" /\ R[f].text = v(j) /\ R[f].inline = a.inline /\ R[f].all = a.all
  BY <1>8, <1>10
<1> QED BY <1>11 DEF R, a, v, j

-----------------------------------------------------------------------------
(***************************************************************************)
(* The steps of the scanner.                                               *)
(***************************************************************************)

\* What a search finds, from a position on.
LEMMA SearchFrom ==
    ASSUME NEW n \in Nat, NEW from \in Nat \ {0}, NEW S, S \subseteq from..n
    PROVE  /\ First(S) = 0 => S = {}
           /\ First(S) # 0 => /\ First(S) \in S /\ First(S) \in from..n
                              /\ \A j \in from..(First(S) - 1) : j \notin S
<1>1. S \in SUBSET Nat /\ 0 \notin S
  OBVIOUS
<1>2. /\ First(S) = 0 => S = {}
      /\ First(S) # 0 => First(S) \in S /\ \A j \in S : First(S) <= j
  BY <1>1, FirstIs
<1>3. ASSUME First(S) # 0, NEW j \in from..(First(S) - 1), j \in S PROVE FALSE
  <2>1. First(S) <= j /\ First(S) \in from..n
    BY <1>2, <1>3
  <2> QED BY <1>3, <2>1
<1> QED BY <1>2, <1>3

\* The next opening tag and its end.
LEMMA TagSearched ==
    ASSUME ScannerTypeOK
    PROVE  /\ TagStart = 0 => \A i \in cursor..Len(html) : html[i] # Open
           /\ TagStart # 0 =>
                /\ TagStart \in cursor..Len(html) /\ TagStart \in 1..Len(html)
                /\ html[TagStart] = Open
                /\ \A i \in cursor..(TagStart - 1) : html[i] # Open
           /\ TagStart # 0 /\ TagEnd # 0 =>
                /\ TagEnd \in AfterName..Len(html) /\ TagEnd \in 1..Len(html)
                /\ html[TagEnd] = Gt
                /\ \A i \in AfterName..(TagEnd - 1) : html[i] # Gt
<1> DEFINE n == Len(html)
           S == {i \in cursor..n : html[i] = Open}
           E == {i \in AfterName..n : html[i] = Gt}
<1>0. n \in Nat /\ cursor \in Nat \ {0}
  BY DEF ScannerTypeOK
<1> HIDE DEF n
<1>1. TagStart = First(S) /\ TagEnd = First(E)
  BY DEF TagStart, TagEnd, n
<1>2. /\ First(S) = 0 => S = {}
      /\ First(S) # 0 => /\ First(S) \in S /\ First(S) \in cursor..n
                         /\ \A j \in cursor..(First(S) - 1) : j \notin S
  <2>1. S \subseteq cursor..n
    OBVIOUS
  <2> HIDE DEF S
  <2> QED BY <1>0, <2>1, SearchFrom
<1>3. TagStart = 0 => \A i \in cursor..n : html[i] # Open
  BY <1>1, <1>2
<1>4. TagStart # 0 => /\ TagStart \in cursor..n /\ TagStart \in 1..n
                      /\ html[TagStart] = Open
  <2> SUFFICES ASSUME TagStart # 0
               PROVE  TagStart \in cursor..n /\ TagStart \in 1..n /\ html[TagStart] = Open
    OBVIOUS
  <2>1. TagStart \in S
    <3> HIDE DEF S
    <3> QED BY <1>1, <1>2
  <2> QED BY <1>0, <2>1
<1>5. TagStart # 0 => \A i \in cursor..(TagStart - 1) : html[i] # Open
  <2> SUFFICES ASSUME TagStart # 0, NEW i \in cursor..(TagStart - 1) PROVE html[i] # Open
    OBVIOUS
  <2>1. i \notin S
    <3> HIDE DEF S
    <3> QED BY <1>1, <1>2
  <2>2. i \in cursor..n
    BY <1>0, <1>4
  <2> QED BY <2>1, <2>2
<1>6. ASSUME TagStart # 0, TagEnd # 0
      PROVE  /\ TagEnd \in AfterName..n /\ TagEnd \in 1..n /\ html[TagEnd] = Gt
             /\ \A i \in AfterName..(TagEnd - 1) : html[i] # Gt
  <2> DEFINE a == AfterName
  <2>1. a \in Nat \ {0}
    BY <1>0, <1>4, <1>6 DEF AfterName
  <2>2. E \subseteq a..n
    OBVIOUS
  <2>3. E = {i \in a..n : html[i] = Gt}
    OBVIOUS
  <2> HIDE DEF a, E
  <2>4. TagEnd \in E /\ \A j \in a..(TagEnd - 1) : j \notin E
    BY <1>0, <1>1, <1>6, <2>1, <2>2, SearchFrom
  <2>5. TagEnd \in a..n /\ TagEnd \in 1..n /\ html[TagEnd] = Gt
    BY <1>0, <2>1, <2>3, <2>4
  <2>6. ASSUME NEW i \in a..(TagEnd - 1) PROVE html[i] # Gt
    <3>1. i \in a..n
      BY <1>0, <2>1, <2>5
    <3> QED BY <2>3, <2>4, <3>1
  <2> QED BY <2>5, <2>6 DEF a
<1> QED BY <1>3, <1>4, <1>5, <1>6 DEF n

\* The closing tag.
LEMMA CloseSearched ==
    ASSUME NEW t \in Seq(Token), NEW from \in Nat \ {0}, NEW f, f = FindCloseTag(t, from), f # 0
    PROVE  /\ f \in from..Len(t) /\ t[f] = Close
           /\ f < Len(t) => t[f + 1] \in TagNameBoundary
           /\ \A i \in from..(f - 1) : ~(t[i] = Close /\ t[i + 1] \in TagNameBoundary)
<1> DEFINE n == Len(t)
           S == {i \in from..n : t[i] = Close /\ (i = n \/ t[i + 1] \in TagNameBoundary)}
<1>0. n \in Nat
  OBVIOUS
<1>1. f = First(S)
  BY DEF FindCloseTag
<1>2. S \subseteq from..n
  OBVIOUS
<1>3. f \in S /\ \A j \in from..(f - 1) : j \notin S
  <2> HIDE DEF S, n
  <2> QED BY <1>0, <1>1, <1>2, SearchFrom
<1>4. f \in from..n /\ t[f] = Close /\ (f < n => t[f + 1] \in TagNameBoundary)
  <2> HIDE DEF n
  <2> QED BY <1>0, <1>3
<1>5. ASSUME NEW i \in from..(f - 1) PROVE ~(t[i] = Close /\ t[i + 1] \in TagNameBoundary)
  <2>1. i \in from..n /\ i \notin S
    <3>1. i \notin S
      <4> HIDE DEF S
      <4> QED BY <1>3
    <3> HIDE DEF S, n
    <3> QED BY <1>0, <1>4, <3>1
  <2> HIDE DEF n
  <2> QED BY <2>1
<1> QED BY <1>4, <1>5

\* A hash is listed once.
LEMMA PushUniqueIs ==
    ASSUME NEW T, NEW v \in Seq(T), NEW x \in T, NEW w, w = PushUnique(v, x)
    PROVE  w \in Seq(T) /\ ToSet(w) = ToSet(v) \cup {x}
<1>1. CASE \E i \in DOMAIN v : v[i] = x
  BY <1>1 DEF PushUnique, ToSet
<1>2. CASE ~\E i \in DOMAIN v : v[i] = x
  <2>1. w = Append(v, x)
    BY <1>2 DEF PushUnique
  <2> QED BY <2>1 DEF ToSet
<1> QED BY <1>1, <1>2

\* What the scanner takes the hash of.
Content(end) == SubSeq(html, TagEnd + 1, end - 1)

\* Every step keeps the types.
LEMMA TypesStay ==
    ASSUME ScannerTypeOK, Next,
           phase = "idle" => cursor = 1 /\ hashes = <<>> /\ warnings = {}
    PROVE  ScannerTypeOK'
<1> DEFINE Texts == Seq(Token)
           n == Len(html)
<1>0. /\ shell \in Texts /\ html \in Texts /\ n \in Nat /\ cursor \in 1..(n + 1)
      /\ digest \in {<<>>, shell} /\ hashes \in Seq(Texts) /\ warnings \subseteq Warning
      /\ \A i \in 1..n : html[i] \in Token
  BY DEF ScannerTypeOK
<1>1. ASSUME NEW argument \in Documents, ScanShell(argument), phase = "idle"
      PROVE  ScannerTypeOK'
  <2>1. argument \in Seq(Token)
    BY DocumentTypes
  <2>2. html' \in Seq(Token)
    BY <1>1, <2>1, StreamsAgree DEF ScanShell
  <2>3. cursor' \in 1..(Len(html') + 1)
    BY <1>1, <2>2 DEF ScanShell
  <2> QED BY <1>0, <1>1, <2>1, <2>2, <2>3 DEF ScanShell, ScannerTypeOK
<1>2. ASSUME NEW ws \in SUBSET Warning, Stop(ws) PROVE ScannerTypeOK'
  BY <1>2 DEF Stop, ScannerTypeOK
<1>3. ASSUME NEW at \in 1..(n + 1), Resume(at), hashes' \in Seq(Texts), warnings' \subseteq Warning
      PROVE  ScannerTypeOK'
  BY <1>3 DEF Resume, ScannerTypeOK
<1>4. Ambiguity \subseteq Warning
  BY DEF Ambiguity, Warning
<1>5. /\ TagStart # 0 => TagStart \in 1..n /\ AfterName \in 1..(n + 1)
      /\ TagStart # 0 /\ TagEnd # 0 => TagEnd \in 1..n
  <2>1. /\ TagStart # 0 => TagStart \in 1..n
        /\ TagStart # 0 /\ TagEnd # 0 => TagEnd \in 1..n
    BY TagSearched
  <2>2. ASSUME TagStart # 0 PROVE AfterName \in 1..(n + 1)
    <3>1. PICK i : i = TagStart /\ i \in 1..n
      BY <2>1, <2>2
    <3> HIDE DEF n
    <3> QED BY <1>0, <3>1 DEF AfterName
  <2> QED BY <2>1, <2>2
<1>6. CASE Finish
  BY <1>2, <1>6 DEF Finish
<1>7. CASE NameAtTheEnd
  BY <1>2, <1>7 DEF NameAtTheEnd, Warning
<1>8. CASE SkipOtherName
  BY <1>0, <1>3, <1>5, <1>8 DEF SkipOtherName, AtName
<1>9. CASE TagWithoutEnd
  BY <1>2, <1>9 DEF TagWithoutEnd, Warning
<1>10. CASE SkipExternal
  <2>1. TagEnd + 1 \in 1..(n + 1)
    BY <1>0, <1>5, <1>10 DEF SkipExternal, AtElement, AtTag, AtName
  <2> QED BY <1>0, <1>3, <1>10, <2>1 DEF SkipExternal
<1>11. CASE ElementWithoutEnd
  BY <1>2, <1>4, <1>11 DEF ElementWithoutEnd, Warning
<1>12. CASE HashInline
  <2> DEFINE end == FindCloseTag(html, TagEnd + 1)
             nul == IF \E i \in DOMAIN Content(end) : Content(end)[i] = Nul
                    THEN {"NulInScriptData"} ELSE {}
  <2>1. TagEnd \in 1..n
    BY <1>5, <1>12 DEF HashInline, AtElement, AtTag, AtName
  <2>2. /\ end # 0 /\ hashes' = PushUnique(hashes, Content(end))
        /\ warnings' = warnings \cup Ambiguity \cup nul
        /\ Resume(end + 1)
    BY <1>12 DEF HashInline, Content
  <2>3. nul \subseteq Warning
    BY DEF Warning
  <2> HIDE DEF nul
  <2>4. end \in (TagEnd + 1)..n
    <3> DEFINE from == TagEnd + 1
    <3>1. from \in Nat \ {0} /\ html \in Seq(Token)
      BY <1>0, <2>1
    <3> HIDE DEF from
    <3>2. FindCloseTag(html, from) # 0 => FindCloseTag(html, from) \in from..Len(html)
      BY <3>1, CloseSearched
    <3> QED BY <2>2, <3>2 DEF from
  <2> HIDE DEF end
  <2>5. Content(end) \in Texts
    <3>1. /\ TagEnd + 1 \in Int /\ end - 1 \in Int
          /\ \A i \in (TagEnd + 1)..(end - 1) : html[i] \in Token
      BY <1>0, <2>1, <2>4
    <3> QED BY <3>1, SubSeqProperties DEF Content
  <2>6. hashes' \in Seq(Texts)
    <3> HIDE DEF Texts
    <3> QED BY <1>0, <2>2, <2>5, PushUniqueIs
  <2>7. end + 1 \in 1..(n + 1)
    BY <1>0, <2>1, <2>4
  <2>8. warnings' \subseteq Warning
    BY <1>0, <1>4, <2>2, <2>3
  <2> HIDE DEF Texts, n
  <2> QED BY <1>3, <2>2, <2>6, <2>7, <2>8
<1> QED BY <1>1, <1>6, <1>7, <1>8, <1>9, <1>10, <1>11, <1>12 DEF Next, Walk

\* Where the browser stands at the next opening tag, in a scan without warnings.
LEMMA OpenedAt ==
    ASSUME ScannerTypeOK, OrdinaryText(html), NEW H, Met(html, cursor - 1, H), TagStart # 0
    PROVE  LET r == Reading(html)[TagStart]
           IN  /\ r \in Readers /\ r.mode = "tag-name" /\ r.tag = "script" /\ ~r.src
               /\ r.inline \subseteq H /\ H \subseteq r.all
<1> DEFINE n == Len(html)
           s == TagStart
           k == cursor - 1
           m == s - 1
<1>0. /\ html \in Seq(Token) /\ n \in Nat /\ cursor \in 1..(n + 1)
  BY DEF ScannerTypeOK
<1>1. /\ s \in cursor..n /\ s \in 1..n /\ html[s] = Open
      /\ \A i \in cursor..(s - 1) : html[i] # Open
  BY TagSearched
<1> HIDE DEF s
<1>2. k \in 0..n /\ m \in k..n /\ k + 1 = cursor
  BY <1>0, <1>1
<1>3. \A i \in (k + 1)..m : html[i] # Open
  BY <1>1, <1>2
<1> HIDE DEF k, m
<1>4. Met(html, m, H)
  <2>1. Met(html, k, H)
    BY DEF k
  <2> QED BY <1>0, <1>2, <1>3, <2>1, MetUpTo
<1>5. Met(html, s - 1, H)
  BY <1>4 DEF m
<1>6. /\ Reading(html)[s] \in Readers /\ Reading(html)[s].mode = "tag-name"
      /\ Reading(html)[s].tag = "script" /\ ~Reading(html)[s].src
      /\ Reading(html)[s].inline \subseteq H /\ H \subseteq Reading(html)[s].all
  BY <1>0, <1>1, <1>5, MetAtOpen
<1> QED BY <1>6 DEF s

\* And that what follows its name is a tag, if its end is found.
LEMMA TagAt ==
    ASSUME ScannerTypeOK, OrdinaryText(html), NEW H, Met(html, cursor - 1, H), AtElement
    PROVE  IsTag(html, TagStart, TagEnd)
<1>1. TagStart # 0 /\ TagEnd # 0 /\ html[AfterName] \in TagNameBoundary
  BY DEF AtElement, AtTag, AtName
<1>2. Reading(html)[TagStart].mode = "tag-name" /\ Reading(html)[TagStart].tag = "script"
  BY <1>1, OpenedAt
<1> QED BY <1>1, <1>2, TagSearched DEF IsTag, AfterName

\* The end of the document.
LEMMA FinishMeets ==
    ASSUME ScannerTypeOK, OrdinaryText(html), NEW H, Met(html, cursor - 1, H), TagStart = 0
    PROVE  MetAtEnd(html, H)
<1> DEFINE n == Len(html)
           k == cursor - 1
           r == Reading(html)[n]
<1>0. /\ html \in Seq(Token) /\ n \in Nat /\ cursor \in 1..(n + 1)
  BY DEF ScannerTypeOK
<1>1. k \in 0..n /\ n \in k..n /\ k + 1 = cursor
  BY <1>0
<1>2. \A i \in (k + 1)..n : html[i] # Open
  BY <1>1, TagSearched
<1>3. Met(html, n, H)
  <2>1. Met(html, k, H)
    OBVIOUS
  <2> HIDE DEF k
  <2> QED BY <1>0, <1>1, <1>2, <2>1, MetUpTo
<1>4. Behind(r, H) \/ InClosingName(r, H)
  BY <1>0, <1>3 DEF Met
<1> SUFFICES r.inline \subseteq H /\ (r.mode = "data" => H \subseteq r.all)
  BY DEF MetAtEnd
<1> HIDE DEF r
<1>5. CASE Behind(r, H)
  BY <1>5 DEF Behind, InTag, Tag, Quote, DoubleQuote, SingleQuote
<1>6. CASE InClosingName(r, H)
  BY <1>6 DEF InClosingName
<1> QED BY <1>4, <1>5, <1>6

\* A name that only begins with "script".
LEMMA SkipOtherNameMeets ==
    ASSUME ScannerTypeOK, OrdinaryText(html), NEW H, Met(html, cursor - 1, H), SkipOtherName
    PROVE  Met(html, cursor' - 1, H)
<1> DEFINE s == TagStart
           r == Reading(html)[s]
<1>1. /\ s # 0 /\ AfterName <= Len(html) /\ html[AfterName] \notin TagNameBoundary
      /\ cursor' = AfterName /\ AfterName = s + 1
  BY DEF SkipOtherName, AtName, Resume, AfterName
<1>2. s \in 1..Len(html) /\ Len(html) \in Nat
  BY <1>1, TagSearched DEF ScannerTypeOK
<1>3. /\ r.mode = "tag-name" /\ r.tag = "script"
      /\ r.inline \subseteq H /\ H \subseteq r.all
  BY <1>1, OpenedAt
<1> HIDE DEF s
<1>4. InOtherName(r, html[s + 1], H)
  BY <1>1, <1>3 DEF InOtherName
<1>5. s < Len(html) /\ cursor' - 1 = s
  BY <1>1, <1>2
<1>6. Met(html, s, H)
  BY <1>4, <1>5 DEF Met
<1> QED BY <1>5, <1>6

\* An external script.
LEMMA SkipExternalMeets ==
    ASSUME ScannerTypeOK, OrdinaryText(html), NEW H, Met(html, cursor - 1, H), SkipExternal
    PROVE  Met(html, cursor' - 1, H)
<1> DEFINE s == TagStart
           e == TagEnd
           r == Reading(html)[s]
<1>1. AtElement /\ HasSrcAttribute(Attributes) /\ cursor' = e + 1 /\ s # 0 /\ e # 0
  BY DEF SkipExternal, Resume, AtElement, AtTag, AtName
<1>2. Attributes = SubSeq(html, s + 1, e - 1)
  BY DEF Attributes, AfterName
<1>3. IsTag(html, s, e)
  BY <1>1, TagAt
<1>4. r.inline \subseteq H /\ H \subseteq r.all
  BY <1>1, OpenedAt
<1>5. e \in 1..Len(html) /\ Len(html) \in Nat /\ html \in Seq(Token)
  BY <1>1, TagSearched DEF ScannerTypeOK
<1> HIDE DEF s, e
<1>6. Behind(Reading(html)[e], H)
  BY <1>1, <1>2, <1>3, <1>4, <1>5, ExternalRead
<1>7. cursor' - 1 = e
  BY <1>1, <1>5
<1>8. Met(html, e, H)
  BY <1>6 DEF Met
<1> QED BY <1>7, <1>8

\* An inline script.
LEMMA HashInlineMeets ==
    ASSUME ScannerTypeOK, OrdinaryText(html), Met(html, cursor - 1, Hashed), HashInline,
           warnings' = {}
    PROVE  Met(html, cursor' - 1, Hashed')
<1> DEFINE s == TagStart
           e == TagEnd
           a == Reading(html)[s]
           n == Len(html)
           end == FindCloseTag(html, e + 1)
           content == SubSeq(html, e + 1, end - 1)
           nul == IF \E i \in DOMAIN content : content[i] = Nul
                  THEN {"NulInScriptData"} ELSE {}
           H == Hashed
<1>0. AtElement /\ s # 0 /\ e # 0
  BY DEF HashInline, AtElement, AtTag, AtName
<1>1. /\ end # 0 /\ hashes' = PushUnique(hashes, content)
      /\ warnings' = warnings \cup Ambiguity \cup nul
      /\ cursor' = end + 1
  BY DEF HashInline, Resume
<1>2. Attributes = SubSeq(html, s + 1, e - 1)
  BY DEF Attributes, AfterName
<1>3. IsTag(html, s, e)
  BY <1>0, TagAt
<1>4. a.inline \subseteq H /\ H \subseteq a.all
  BY <1>0, OpenedAt
<1>5. html \in Seq(Token) /\ n \in Nat /\ e \in 1..n /\ hashes \in Seq(Seq(Token))
      /\ \A i \in 1..n : html[i] \in Token
  BY <1>0, TagSearched DEF ScannerTypeOK
<1>6. ~EndsInsideQuotes(Attributes)
  BY <1>1 DEF Ambiguity
<1>7. ~\E i \in DOMAIN content : content[i] = Nul
  <2>1. nul = {}
    <3> HIDE DEF nul
    <3> QED BY <1>1
  <2> QED BY <2>1
<1> HIDE DEF nul
<1> DEFINE from == e + 1
<1>8. /\ end \in from..n /\ html[end] = Close
      /\ end < n => html[end + 1] \in TagNameBoundary
      /\ \A i \in from..(end - 1) : ~(html[i] = Close /\ html[i + 1] \in TagNameBoundary)
  <2> DEFINE f == FindCloseTag(html, from)
  <2>1. from \in Nat \ {0} /\ f # 0
    BY <1>1, <1>5
  <2> HIDE DEF from
  <2>2. f = FindCloseTag(html, from)
    OBVIOUS
  <2> HIDE DEF f
  <2>3. /\ f \in from..n /\ html[f] = Close
        /\ f < n => html[f + 1] \in TagNameBoundary
        /\ \A i \in from..(f - 1) : ~(html[i] = Close /\ html[i + 1] \in TagNameBoundary)
    BY <1>5, <2>1, <2>2, CloseSearched
  <2> QED BY <2>3 DEF f, from
<1> HIDE DEF end, s, e
<1>9. /\ content \in Seq(Token) /\ DOMAIN content = 1..(end - 1 - e)
      /\ \A i \in 1..(end - 1 - e) : content[i] = html[e + i]
  <2>1. /\ from \in Int /\ end - 1 \in Int /\ from + 0 <= end
        /\ \A i \in from..(end - 1) : html[i] \in Token
    BY <1>5, <1>8
  <2>2. /\ content \in Seq(Token)
        /\ Len(content) = IF from <= end - 1 THEN (end - 1) - from + 1 ELSE 0
        /\ \A i \in 1..((end - 1) - from + 1) : content[i] = html[from + i - 1]
    <3> HIDE DEF from
    <3>1. content = SubSeq(html, from, end - 1)
      BY DEF from
    <3> HIDE DEF content
    <3> QED BY <2>1, <3>1, SubSeqProperties
  <2> HIDE DEF content
  <2>3. DOMAIN content = 1..Len(content)
    BY <2>2
  <2>4. Len(content) = end - 1 - e /\ (end - 1) - from + 1 = end - 1 - e
    BY <1>5, <1>8, <2>2
  <2>5. ASSUME NEW i \in 1..(end - 1 - e) PROVE content[i] = html[e + i]
    <3>1. from + i - 1 = e + i /\ i \in 1..((end - 1) - from + 1)
      BY <1>5, <1>8
    <3> QED BY <2>2, <3>1
  <2> QED BY <2>2, <2>3, <2>4, <2>5
<1>10. ASSUME NEW i \in from..(end - 1) PROVE html[i] # Nul
  <2> DEFINE j == i - e
  <2>1. j \in 1..(end - 1 - e) /\ e + j = i
    BY <1>5, <1>8
  <2> HIDE DEF j, content
  <2> QED BY <1>7, <1>9, <2>1
<1> DEFINE b == Reading(html)[e]
           q == Reading(html)[end]
<1>11. b.mode = "text" /\ b.text = <<>> /\ b.inline = a.inline /\ b.all = a.all
  BY <1>2, <1>3, <1>5, <1>6, TextBegins
<1>12. q.mode = "maybe-end" /\ q.text = content /\ q.inline = b.inline /\ q.all = b.all
  <2>1. \A i \in (e + 1)..(end - 1) :
          html[i] # Nul /\ ~(html[i] = Close /\ html[i + 1] \in TagNameBoundary)
    BY <1>8, <1>10
  <2> QED BY <1>5, <1>8, <1>11, <2>1, TextRead
<1> DEFINE K == Hashed'
<1>13. K = H \cup {content}
  <2>1. ToSet(hashes') = ToSet(hashes) \cup {content}
    <3> DEFINE Texts == Seq(Token)
    <3>1. hashes \in Seq(Texts) /\ content \in Texts
      BY <1>5, <1>9
    <3> HIDE DEF content, Texts
    <3> QED BY <1>1, <3>1, PushUniqueIs
  <2> QED BY <2>1 DEF Hashed
<1>14. cursor' - 1 = end
  BY <1>1, <1>5, <1>8
<1> HIDE DEF H, K, content, q, b, a
<1>15. InClosingName(q, K)
  BY <1>4, <1>11, <1>12, <1>13 DEF InClosingName
<1>16. Met(html, end, K)
  BY <1>8, <1>15 DEF Met, q
<1> QED BY <1>14, <1>16 DEF K

-----------------------------------------------------------------------------
(***************************************************************************)
(* The invariant, and what follows from it.                                *)
(***************************************************************************)

LEMMA InitScan == Init => SInv
<1>1. <<>> \in Seq(Token) /\ <<>> \in Seq(Seq(Token)) /\ Len(<<>>) = 0
  OBVIOUS
<1> QED BY <1>1 DEF Init, SInv, ScannerTypeOK

\* A scan begins where the browser begins.
LEMMA ScanBegins ==
    ASSUME SInv, phase = "idle", NEW argument \in Documents, ScanShell(argument)
    PROVE  SInv'
<1>0. ScannerTypeOK /\ cursor = 1 /\ hashes = <<>> /\ warnings = {}
  BY DEF SInv
<1>1. ScannerTypeOK'
  BY <1>0, TypesStay DEF Next
<1>2. /\ phase' = "scanning" /\ html' = InputStream(shell') /\ cursor' = 1 /\ Hashed' = {}
  <2>1. argument \in Seq(Token)
    BY DocumentTypes
  <2>2. html' = InputStream(argument)
    BY <2>1, StreamsAgree DEF ScanShell
  <2>3. hashes' = <<>>
    BY <1>0 DEF ScanShell
  <2>4. Hashed' = {}
    BY <2>3 DEF Hashed, ToSet
  <2> QED BY <1>0, <2>2, <2>4 DEF ScanShell
<1>3. Met(html', cursor' - 1, Hashed')
  <2>1. html' \in Seq(Token) /\ cursor' - 1 = 0
    BY <1>1, <1>2 DEF ScannerTypeOK
  <2>2. Reading(html')[0] = Start
    BY <2>1, ReadingSteps
  <2>3. Behind(Start, {})
    BY DEF Behind, Start
  <2> QED BY <1>2, <2>1, <2>2, <2>3 DEF Met
<1> QED BY <1>1, <1>2, <1>3 DEF SInv

\* Every way through the loop keeps the scanner and the browser together.
LEMMA WalkKeeps ==
    ASSUME SInv, Walk
    PROVE  SInv'
<1>0. phase = "scanning" /\ phase' \in {"scanning", "done"} /\ html' = html /\ shell' = shell
  BY DEF Walk, Finish, NameAtTheEnd, SkipOtherName, TagWithoutEnd, SkipExternal,
         ElementWithoutEnd, HashInline, AtElement, AtTag, AtName, Stop, Resume
<1>1. ScannerTypeOK /\ ScannerTypeOK'
  <2>1. ScannerTypeOK /\ phase # "idle"
    BY <1>0 DEF SInv
  <2> QED BY <2>1, TypesStay DEF Next
<1>2. html = InputStream(shell)
  BY <1>0 DEF SInv
<1>3. ASSUME warnings' = {}, Ordinary(shell)
      PROVE  /\ phase' = "scanning" => Met(html, cursor' - 1, Hashed')
             /\ phase' = "done" => MetAtEnd(html, Hashed')
  <2>1. warnings = {}
    BY <1>3 DEF Walk, Finish, NameAtTheEnd, SkipOtherName, TagWithoutEnd, SkipExternal,
                ElementWithoutEnd, HashInline, Stop
  <2>2. OrdinaryText(html)
    BY <1>1, <1>2, <1>3, OrdinaryIs DEF ScannerTypeOK
  <2>3. Met(html, cursor - 1, Hashed)
    BY <1>0, <1>3, <2>1 DEF SInv
  <2>4. CASE Finish
    <3>1. TagStart = 0 /\ hashes' = hashes /\ phase' = "done"
      BY <2>4 DEF Finish, Stop
    <3>2. Hashed' = Hashed
      BY <3>1 DEF Hashed
    <3> QED BY <1>1, <2>2, <2>3, <3>1, <3>2, FinishMeets
  <2>5. CASE SkipOtherName
    <3>1. hashes' = hashes /\ phase' = "scanning"
      BY <1>0, <2>5 DEF SkipOtherName, Resume
    <3>2. Hashed' = Hashed
      BY <3>1 DEF Hashed
    <3> QED BY <1>1, <2>2, <2>3, <2>5, <3>1, <3>2, SkipOtherNameMeets
  <2>6. CASE SkipExternal
    <3>1. hashes' = hashes /\ phase' = "scanning"
      BY <1>0, <2>6 DEF SkipExternal, Resume
    <3>2. Hashed' = Hashed
      BY <3>1 DEF Hashed
    <3> QED BY <1>1, <2>2, <2>3, <2>6, <3>1, <3>2, SkipExternalMeets
  <2>7. CASE HashInline
    <3>1. phase' = "scanning"
      BY <1>0, <2>7 DEF HashInline, Resume
    <3> QED BY <1>1, <1>3, <2>2, <2>3, <2>7, <3>1, HashInlineMeets
  <2>8. CASE NameAtTheEnd \/ TagWithoutEnd \/ ElementWithoutEnd
    BY <1>3, <2>8 DEF NameAtTheEnd, TagWithoutEnd, ElementWithoutEnd, Stop
  <2> QED BY <2>4, <2>5, <2>6, <2>7, <2>8 DEF Walk
<1> QED BY <1>0, <1>1, <1>2, <1>3 DEF SInv

\* No text but one that stands between two tags of the document gets a hash.
LEMMA WalkEncloses ==
    ASSUME ScannerTypeOK, Hashed \subseteq Enclosed(html), Walk
    PROVE  Hashed' \subseteq Enclosed(html')
<1>1. html' = html
  BY DEF Walk, Finish, NameAtTheEnd, SkipOtherName, TagWithoutEnd, SkipExternal,
         ElementWithoutEnd, HashInline, Stop, Resume
<1>2. CASE ~HashInline
  <2>1. hashes' = hashes
    BY <1>2 DEF Walk, Finish, NameAtTheEnd, SkipOtherName, TagWithoutEnd, SkipExternal,
                ElementWithoutEnd, Stop
  <2> QED BY <1>1, <2>1 DEF Hashed
<1>3. CASE HashInline
  <2> DEFINE e == TagEnd
             end == FindCloseTag(html, e + 1)
             content == SubSeq(html, e + 1, end - 1)
  <2>1. TagStart # 0 /\ e # 0 /\ end # 0 /\ hashes' = PushUnique(hashes, content)
    BY <1>3 DEF HashInline, AtElement, AtTag, AtName
  <2>2. e \in 1..Len(html) /\ html[e] = Gt
    BY <2>1, TagSearched
  <2>3. html \in Seq(Token) /\ hashes \in Seq(Seq(Token)) /\ DOMAIN html = 1..Len(html)
    BY DEF ScannerTypeOK
  <2> HIDE DEF e
  <2> DEFINE from == e + 1
  <2>4. from \in Nat \ {0}
    BY <2>2
  <2>5. end \in from..Len(html) /\ html[end] = Close
    <3> DEFINE f == FindCloseTag(html, from)
    <3>1. f # 0
      BY <2>1
    <3> HIDE DEF from
    <3>2. f = FindCloseTag(html, from)
      OBVIOUS
    <3> HIDE DEF f
    <3>3. f \in from..Len(html) /\ html[f] = Close
      BY <2>3, <2>4, <3>1, <3>2, CloseSearched
    <3> QED BY <3>3 DEF f, from
  <2> HIDE DEF end
  <2>6. end \in 1..Len(html)
    BY <2>3, <2>4, <2>5
  <2>7. content \in Enclosed(html)
    <3> DEFINE ends == {k \in DOMAIN html : html[k] = Gt}
               closes == {k \in DOMAIN html : html[k] = Close}
               at == <<e, end>>
    <3>1. at \in ends \X closes /\ content = SubSeq(html, at[1] + 1, at[2] - 1)
      BY <2>2, <2>3, <2>5, <2>6
    <3>2. Enclosed(html) = {SubSeq(html, x[1] + 1, x[2] - 1) : x \in ends \X closes}
      BY DEF Enclosed
    <3> HIDE DEF ends, closes, at, content
    <3> QED BY <3>1, <3>2
  <2>8. content \in Seq(Token)
    BY <2>2, <2>3, <2>6
  <2> HIDE DEF content
  <2>9. Hashed' = Hashed \cup {content}
    <3> DEFINE w == hashes'
    <3>1. w = PushUnique(hashes, content)
      BY <2>1
    <3> HIDE DEF w
    <3> DEFINE Texts == Seq(Token)
    <3>2. hashes \in Seq(Texts) /\ content \in Texts
      BY <2>3, <2>8
    <3> HIDE DEF Texts
    <3>3. ToSet(w) = ToSet(hashes) \cup {content}
      BY <3>1, <3>2, PushUniqueIs
    <3> QED BY <3>3 DEF Hashed, w
  <2> QED BY <1>1, <2>7, <2>9
<1> QED BY <1>2, <1>3

\* SInv is an invariant of the scan.
LEMMA ScanSteps == SInv /\ [Next]_vars => SInv'
<1> SUFFICES ASSUME SInv, [Next]_vars PROVE SInv'
  OBVIOUS
<1>1. ASSUME NEW argument \in Documents, phase = "idle", ScanShell(argument) PROVE SInv'
  BY <1>1, ScanBegins
<1>2. CASE Walk
  BY <1>2, WalkKeeps
<1>3. CASE UNCHANGED vars
  BY <1>3 DEF vars, SInv, ScannerTypeOK, Hashed
<1> QED BY <1>1, <1>2, <1>3 DEF Next

THEOREM ScanInvariance == Spec => []SInv
BY InitScan, ScanSteps, PTL DEF Spec

\* The scan keeps its types for every document, and never looks outside it
\* (scan_normalised, whose cursor indexes the document).
THEOREM ScannerTypes == Spec => []ScannerTypeOK
<1>1. SInv => ScannerTypeOK
  BY DEF SInv
<1> QED BY <1>1, ScanInvariance, PTL

\* What is left of the document.
Left == Len(html) + 1 - cursor

LEMMA RoundAdvances ==
    ASSUME ScannerTypeOK, ScannerTypeOK', Walk
    PROVE  Left' \in Nat /\ (phase' = "done" \/ (phase' = "scanning" /\ Left' < Left))
<1>0. /\ html \in Seq(Token) /\ Len(html) \in Nat /\ cursor \in 1..(Len(html) + 1)
      /\ html' = html
  BY DEF ScannerTypeOK, Walk, Finish, NameAtTheEnd, SkipOtherName, TagWithoutEnd, SkipExternal,
         ElementWithoutEnd, HashInline, Stop, Resume
<1>1. Left' \in Nat
  BY DEF ScannerTypeOK, Left
<1>2. CASE Finish \/ NameAtTheEnd \/ TagWithoutEnd \/ ElementWithoutEnd
  BY <1>1, <1>2 DEF Finish, NameAtTheEnd, TagWithoutEnd, ElementWithoutEnd, Stop
<1>3. ASSUME NEW at \in Int, at > cursor, Resume(at), phase = "scanning"
      PROVE  phase' = "scanning" /\ Left' < Left
  BY <1>0, <1>3 DEF Resume, Left
<1>4. TagStart # 0 => TagStart \in Int /\ cursor < AfterName /\ AfterName \in Int
  <2>1. TagStart # 0 => TagStart \in cursor..Len(html)
    BY TagSearched
  <2> QED BY <1>0, <2>1 DEF AfterName
<1>5. TagStart # 0 /\ TagEnd # 0 => TagEnd \in Int /\ cursor < TagEnd
  <2>1. TagStart # 0 /\ TagEnd # 0 => TagEnd \in AfterName..Len(html)
    BY TagSearched
  <2> QED BY <1>0, <1>4, <2>1
<1>6. CASE SkipOtherName
  BY <1>1, <1>3, <1>4, <1>6 DEF SkipOtherName, AtName
<1>7. CASE SkipExternal
  <2>1. /\ TagEnd \in Int /\ cursor < TagEnd
        /\ Resume(TagEnd + 1) /\ phase = "scanning"
    BY <1>5, <1>7 DEF SkipExternal, AtElement, AtTag, AtName
  <2>2. TagEnd + 1 \in Int /\ TagEnd + 1 > cursor
    BY <1>0, <2>1
  <2> QED BY <1>1, <1>3, <2>1, <2>2
<1>8. CASE HashInline
  <2>1. PICK end : end = FindCloseTag(html, TagEnd + 1)
    OBVIOUS
  <2>2. /\ TagEnd \in Int /\ cursor < TagEnd
        /\ end # 0 /\ Resume(end + 1) /\ phase = "scanning"
    BY <1>5, <1>8, <2>1 DEF HashInline, AtElement, AtTag, AtName
  <2>3. PICK from \in Nat \ {0} : from = TagEnd + 1
    BY <1>0, <2>2
  <2>4. end \in from..Len(html)
    BY <1>0, <2>1, <2>2, <2>3, CloseSearched
  <2>5. end + 1 \in Int /\ end + 1 > cursor
    BY <1>0, <2>2, <2>3, <2>4
  <2> QED BY <1>1, <1>3, <2>2, <2>5
<1> QED BY <1>2, <1>6, <1>7, <1>8 DEF Walk

\* Every round of the loop returns or leaves less of the document to be scanned, and what
\* is left is never negative, so that there are no more rounds than the shell is long: no
\* shell keeps the program from starting (the while loop of scan_normalised).
THEOREM RoundsAdvance ==
    Spec => [][Walk => /\ Left' \in Nat
                       /\ phase' = "done" \/ (phase' = "scanning" /\ Left' < Left)]_vars
<1>1. SInv /\ SInv' /\ [Next]_vars =>
          [Walk => /\ Left' \in Nat
                   /\ phase' = "done" \/ (phase' = "scanning" /\ Left' < Left)]_vars
  <2> SUFFICES ASSUME SInv, SInv', Walk
               PROVE  Left' \in Nat /\ (phase' = "done" \/ (phase' = "scanning" /\ Left' < Left))
    OBVIOUS
  <2>1. ScannerTypeOK /\ ScannerTypeOK'
    BY DEF SInv
  <2> QED BY <2>1, RoundAdvances
<1> QED BY <1>1, ScanInvariance, PTL DEF Spec

LEMMA FoundAll == SInv => FindsEveryInlineScript
<1> SUFFICES ASSUME SInv, phase = "done", warnings = {}, Ordinary(shell)
             PROVE  InlineScripts(shell) \subseteq Hashed
  BY DEF FindsEveryInlineScript
<1>1. html = InputStream(shell) /\ MetAtEnd(html, Hashed)
  BY DEF SInv
<1> QED BY <1>1 DEF MetAtEnd, InlineScripts

\* A scan that ends without a warning has the hash of every inline script of an
\* ordinary document, however long (scan_normalised, find_close_tag, has_src_attribute
\* and normalize_newlines).
THEOREM FindsAll == Spec => []FindsEveryInlineScript
BY FoundAll, ScanInvariance, PTL

\* An empty document holds no script.
LEMMA EmptyDocument == InlineScripts(<<>>) = {}
<1> DEFINE t == StripBom(<<>>)
<1>1. t = <<>> /\ t \in Seq(Token) /\ Len(t) = 0
  BY DEF StripBom
<1> HIDE DEF t
<1>2. PICK f \in [0..Len(t) -> Seq(Token)] : f[0] = <<>> /\ InputStream(<<>>) = f[Len(t)]
  BY <1>1, StreamSteps DEF t
<1>3. InputStream(<<>>) = t
  BY <1>1, <1>2
<1>4. Reading(t)[Len(t)] = Start
  BY <1>1, ReadingSteps
<1> QED BY <1>3, <1>4 DEF InlineScripts, Start

\* Every hash in its result is that of a script of the document (find_close_tag).
THEOREM MakesUpNone == Spec => []HashesAreOfScripts
<1>1. SInv => HashesAreOfScripts
  <2> SUFFICES ASSUME SInv, phase = "done", warnings = {}, Ordinary(shell), Complete(shell)
               PROVE  Hashed \subseteq ScriptElements(shell)
    BY DEF HashesAreOfScripts
  <2>1. html = InputStream(shell) /\ MetAtEnd(html, Hashed)
    BY DEF SInv
  <2> QED BY <2>1 DEF MetAtEnd, ScriptElements, Complete
<1> QED BY <1>1, ScanInvariance, PTL
=============================================================================
