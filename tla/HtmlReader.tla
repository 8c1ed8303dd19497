----------------------------- MODULE HtmlReader -----------------------------
(***************************************************************************)
(* A browser reading the same document: the part of the HTML tokenizer     *)
(* that decides which script elements there are, which of them have a src  *)
(* attribute, and what their text is.  Not code of this repository: the    *)
(* scanner's comments appeal to it for what a hash has to cover.           *)
(*                                                                         *)
(* The reader is a function of the number of tokens read.  Its modes are   *)
(* the states of the tokenizer, those that differ in nothing here joined.  *)
(***************************************************************************)
EXTENDS Markup

\* Input stream preprocessing: a leading byte order mark is dropped, every CR LF
\* pair and then every CR becomes a LF.
InputStream(s) ==
    LET t == IF s # <<>> /\ s[1] = Bom THEN Tail(s) ELSE s
        stream[i \in 0..Len(t)] ==
            IF i = 0 THEN <<>>
            ELSE IF t[i] = CR /\ i < Len(t) /\ t[i + 1] = LF THEN stream[i - 1]
            ELSE Append(stream[i - 1], IF t[i] = CR THEN LF ELSE t[i])
    IN  stream[Len(t)]

Start == [mode |-> "data", tag |-> "other", name |-> "other", src |-> FALSE,
          text |-> <<>>, back |-> "text", inline |-> {}, all |-> {}]

Mode(r, m) == [r EXCEPT !.mode = m]

\* Script text, in which U+0000 is replaced.
Add(r, c) == [r EXCEPT !.text = Append(@, IF c = Nul THEN Replacement ELSE c)]

BeginTag(r, tag) ==
    [r EXCEPT !.mode = "tag-name", !.tag = tag, !.name = "other", !.src = FALSE]

BeginName(r, c) ==
    [r EXCEPT !.mode = "name", !.name = IF c = Src THEN "src" ELSE "other"]

\* An attribute name is complete.
Named(r) == [r EXCEPT !.src = @ \/ r.name = "src", !.name = "other"]

\* The ">" of a tag.  The end tag of a script puts the element into the document.
EndTag(r) ==
    CASE r.tag = "script" -> [r EXCEPT !.mode = "text", !.text = <<>>]
      [] r.tag = "end" ->
            [r EXCEPT !.mode = "data", !.all = @ \cup {r.text},
                      !.inline = IF r.back = "external" THEN @ ELSE @ \cup {r.text}]
      [] OTHER -> Mode(r, "data")

\* Between attributes, after "/" and after a quoted value.
Between(r, c) ==
    IF c \in White \cup {Slash} THEN Mode(r, "between")
    ELSE IF c = Gt THEN EndTag(r)
    ELSE BeginName(r, c)

\* A token c of script text, after a token b; in a comment inside it, "escaped";
\* in a script inside that, "double".
ScriptText(r, b, c) ==
    CASE r.mode = "text" /\ c = CommentOpen -> Add(Mode(r, "escaped"), c)
      [] r.mode \in {"text", "escaped"} /\ c = Close ->
            [r EXCEPT !.name = r.mode, !.mode = "maybe-end"]
      [] r.mode = "escaped" /\ c = Open -> Add(Mode(r, "maybe-double"), c)
      [] r.mode = "double" /\ c = Close -> Add(Mode(r, "maybe-escaped"), c)
      [] r.mode \in {"escaped", "double"} /\ b = Dashes /\ c = Gt -> Add(Mode(r, "text"), c)
      [] OTHER -> Add(r, c)

Follows(c) == c \in White \cup {Slash, Gt}

\* The reader, having read b, reads c.
Read(r, b, c) ==
    CASE r.mode = "data" ->
            IF c = Open THEN BeginTag(r, "script")
            ELSE IF c = Close THEN BeginTag(r, "other")
            ELSE IF c = CommentOpen THEN Mode(r, "comment") ELSE r
      [] r.mode = "comment" -> IF b = Dashes /\ c = Gt THEN Mode(r, "data") ELSE r
      [] r.mode = "tag-name" ->
            IF Follows(c) THEN Between(r, c) ELSE [r EXCEPT !.tag = "other"]
      [] r.mode = "between" -> Between(r, c)
      [] r.mode = "name" ->
            IF c = Equals THEN Mode(Named(r), "before-value")
            ELSE IF c \in White THEN Mode(Named(r), "after-name")
            ELSE IF Follows(c) THEN Between(Named(r), c)
            ELSE [r EXCEPT !.name = "other"]
      [] r.mode = "after-name" ->
            IF c = Equals THEN Mode(r, "before-value")
            ELSE IF c \in White THEN r ELSE Between(r, c)
      [] r.mode = "before-value" ->
            IF c \in White THEN r
            ELSE IF c = Gt THEN EndTag(r)
            ELSE IF c \in Quote THEN Mode(r, c) ELSE Mode(r, "unquoted")
      [] r.mode = "unquoted" ->
            IF c \in White THEN Mode(r, "between")
            ELSE IF c = Gt THEN EndTag(r) ELSE r
      [] r.mode \in Quote -> IF c = r.mode THEN Mode(r, "between") ELSE r
      [] r.mode = "maybe-end" ->
            IF Follows(c)
            THEN Between([r EXCEPT !.tag = "end",
                                   !.back = IF r.src THEN "external" ELSE "text"], c)
            ELSE ScriptText(Add(Mode(r, r.name), Close), b, c)
      [] r.mode = "maybe-double" ->
            IF Follows(c) THEN Add(Mode(r, "double"), c)
            ELSE ScriptText(Mode(r, "escaped"), b, c)
      [] r.mode = "maybe-escaped" ->
            IF Follows(c) THEN Add(Mode(r, "escaped"), c)
            ELSE ScriptText(Mode(r, "double"), b, c)
      [] OTHER -> ScriptText(r, b, c)

\* The state of the reader after each number of tokens of s.
Reading(s) ==
    LET after[i \in 0..Len(s)] == IF i = 0 THEN Start
            ELSE Read(after[i - 1], IF i = 1 THEN "nothing" ELSE s[i - 1], s[i])
    IN  after

\* The texts of the scripts a browser runs from the document itself, and of all
\* the script elements it makes.
InlineScripts(s) == LET t == InputStream(s) IN Reading(t)[Len(t)].inline

ScriptElements(s) == LET t == InputStream(s) IN Reading(t)[Len(t)].all
=============================================================================
