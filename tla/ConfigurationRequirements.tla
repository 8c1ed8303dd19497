--------------------- MODULE ConfigurationRequirements ---------------------
(***************************************************************************)
(* What a directive filled from configuration owes the caller who wrote    *)
(* the texts and the browser that reads the line.                          *)
(***************************************************************************)
EXTENDS Configuration, SourceGrammar

Kinds ==
    [n \in DOMAIN Readers |->
        CASE n = "img-src"         -> {"Keyword", "Scheme", "Host", "Nonce", "Hash"}
          [] n = "frame-ancestors" -> {"Keyword", "Scheme", "Host"}
          [] n \in {"report-to", "report-uri"} -> {"Report"}
          [] n = "trusted-types"   -> {"Name"}
          [] OTHER                 -> {"Named"}]

\* The entries are of the kinds the directive takes and render in the alphabet of the
\* model, and only trusted-types has flags.
ConfigurationTypeOK ==
    /\ directive \in DOMAIN Readers
    /\ \A i \in DOMAIN entries :
          entries[i].kind \in Kinds[directive] /\ In(Display(entries[i]), Token)
    /\ flags \subseteq {"policies", "wildcard", "allow-duplicates"}
    /\ flags # {} => directive = "trusted-types" /\ "policies" \in flags
    /\ Len(offered) <= MaxOffers

-----------------------------------------------------------------------------
\* The next token ends a piece or belongs to it.
Cut(pieces, token) ==
    IF token = Blank THEN Append(pieces, <<>>)
    ELSE [pieces EXCEPT ![Len(pieces)] = Append(@, token)]

\* The pieces of t between single blanks.
Pieces(t) ==
    LET pieces[i \in 0..Len(t)] ==
            IF i = 0 THEN << <<>> >> ELSE Cut(pieces[i - 1], t[i])
    IN  pieces[Len(t)]

\* The parser that takes any value of the directive.
Reader ==
    CASE directive = "img-src"         -> "Source::parse"
      [] directive = "frame-ancestors" -> "AncestorSource::parse"
      [] OTHER                         -> CHOOSE reader \in Readers[directive] : TRUE

\* A reader who cuts the line of a directive at its blanks finds the name and, with the
\* parsers of the crate, the very values that were put in: none is lost, joined with
\* another, cut in two or read as something else, and the line ends neither the
\* directive nor the policy (the parsers, Display, and the assertions of the oracles
\* parse_source and parse_terms).
LineReadsBack ==
    Renders /\ directive # "trusted-types" =>
        LET words  == Tail(Pieces(Line))
            values == IF words = <<None>> /\ directive \in {"img-src", "frame-ancestors"}
                      THEN <<>>
                      ELSE [i \in DOMAIN words |-> Read(Reader, words[i])]
        IN  /\ Head(Pieces(Line)) = <<directive>>
            /\ values = [i \in DOMAIN entries |-> {entries[i]}]
            /\ ToSet(Line) \cap {";", ","} = {}

-----------------------------------------------------------------------------
\* Texts on which csp-policy is known to depart from the grammar: a scheme that keeps a
\* colon of its own, "://" in the path of a host without a scheme, "nonce-" in another
\* case, and a digest whose padding does not fit its characters.
Departure(t) ==
    \/ LET mark == FirstPlace(t, <<":", "/", "/">>)
       IN  \/ mark > 1 /\ t[mark - 1] = ":"
           \/ FirstPlace(t, <<"/">>) \in 1..(mark - 1)
    \/ Quoted(t) /\ t[2] = Upper("nonce")
    \/ Quoted(t) /\ Len(t) > 4 /\ \E algorithm \in HashAlgorithm :
          LET value == SubSeq(t, 4, Len(t) - 1)
              chars == DigestChars[algorithm]
          IN  /\ Lower(t)[2] = algorithm
              /\ Length(value) \in {chars, chars + DigestPadding[algorithm]}
              /\ Length(Unpadded(value)) # chars

\* The sources the texts offered to a parser of whole expressions mean.
Meant ==
    UNION {SourcesMeant(offered[i].text) : i \in DOMAIN offered}

Generated ==
    (UNION {HashFromDigest(algorithm, bytes) : algorithm \in HashAlgorithm, bytes \in Digests})
        \cup (UNION {NonceFromEntropy(bytes) : bytes \in Entropies})

\* A source list filled with whole expressions holds exactly what the texts mean: a text
\* outside the grammar leaves no trace, one inside it is never refused or taken for
\* another, and two spellings of one source (case, leading zeros) are one entry; a list
\* of ancestors holds the schemes, the hosts and 'self' among them (Source::parse,
\* AncestorSource::parse and everything they call, push_unique).
ListIsWhatTheTextsMean ==
    (\A i \in DOMAIN offered :
        /\ offered[i].reader \in {"Source::parse", "AncestorSource::parse"}
        /\ ~Departure(offered[i].text))
    /\ directive \in {"img-src", "frame-ancestors"}
    =>
    LET listed == {source \in Meant :
                      \/ directive = "img-src"
                      \/ source.kind \in {"Scheme", "Host"}
                      \/ source = [kind |-> "Keyword", text |-> <<"'", "self", "'">>]}
    IN  /\ listed \subseteq ToSet(entries)
        /\ ToSet(entries) \subseteq listed \cup Generated
        /\ Len(entries) = Cardinality(ToSet(entries))

\* Whatever was accepted, a departure, a bare nonce or a made digest included, is written
\* as a source expression of the grammar, and as the one that is in the list: a browser
\* takes it for what the crate does.  The exception is a digest whose padding does not fit
\* its characters, which a browser ignores (every parser of a source, HashSource::new,
\* Display for Source, HostSource and SchemeSource).
WrittenByTheGrammar ==
    directive \in {"img-src", "frame-ancestors"} =>
        \A i \in DOMAIN entries :
            \/ SourcesMeant(Display(entries[i])) = {entries[i]}
            \/ /\ entries[i].kind = "Hash"
               /\ Length(Unpadded(entries[i].value)) # DigestChars[entries[i].algorithm]

-----------------------------------------------------------------------------
\* What a browser takes from the words of trusted-types: the policies that may be
\* created, whether any may, and whether twice.
PermittedNames(words) ==
    {words[i] : i \in {j \in DOMAIN words : words[j][1] \notin {"'", "*"}}}

AnyPermitted(words) == \E i \in DOMAIN words : words[i] = <<"*">>

TwicePermitted(words) ==
    \E i \in DOMAIN words : words[i] = <<"'", "allow", "-", "duplicates", "'">>

\* The browser permits the policies whose names were accepted and no others: no name is
\* taken for the wildcard or for a keyword, and a flag is never lost or made up
\* (TrustedTypePolicyName::parse, Display for TrustedTypes).
TrustedTypesPermitsTheNames ==
    directive = "trusted-types" =>
        LET words == Tail(Pieces(Line))
        IN  /\ PermittedNames(words) =
                   {offered[i].text : i \in
                       {j \in DOMAIN offered : Read(Reader, offered[j].text) # {}}}
            /\ AnyPermitted(words) <=> "wildcard" \in flags
            /\ TwicePermitted(words) <=> "allow-duplicates" \in flags

-----------------------------------------------------------------------------
\* Whatever way the prefix is written, a nonce that was accepted carries 128 bits, six in
\* a character (the doc comment of NonceSource::parse).
NonceCarriesItsBits ==
    \A i \in DOMAIN entries :
        entries[i].kind = "Nonce" =>
            LET body    == Unpadded(entries[i].value)
                content == IF IsPrefix(<<"nonce", "-">>, Lower(body)) THEN From(body, 3)
                           ELSE body
            IN  6 * Length(content) >= 128
=============================================================================
