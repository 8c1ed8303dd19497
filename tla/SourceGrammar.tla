--------------------------- MODULE SourceGrammar ---------------------------
(***************************************************************************)
(* The grammar of a source expression as the comments of host.rs, hash.rs  *)
(* and source.rs state it, in the manner of the standard:                  *)
(*                                                                         *)
(*    host-source   = [ scheme "://" ] host [ ":" port ] [ path ]          *)
(*    scheme        = ALPHA *( ALPHA / DIGIT / "+" / "-" / "." )           *)
(*    host          = "*" / [ "*." ] label *( "." label ) [ "." ]          *)
(*    port          = 1*DIGIT / "*"                                        *)
(*    scheme-source = scheme ":"                                           *)
(*    nonce-source  = "'nonce-" base64-value "'"                           *)
(*    hash-source   = "'" hash-algorithm "-" base64-value "'"              *)
(*                                                                         *)
(* A text is in the grammar when some way to cut it puts every piece in    *)
(* its place, and then means the pieces, with what ignores case in lower   *)
(* case and numbers without leading zeros.  The parsers cut once, from     *)
(* left to right, and check the pieces afterwards.                         *)
(***************************************************************************)
EXTENDS TermParsers

IsScheme(t) ==
    /\ t # <<>> /\ Head(t) \in Letters
    /\ In(t, Alphanumeric \cup {"+", "-", "."})

\* Every dot ends a label.
IsHostName(t) ==
    /\ t # <<>> /\ In(t, Alphanumeric \cup {"-", "."})
    /\ \A i \in DOMAIN t : t[i] = "." => i > 1 /\ t[i - 1] # "."

IsHost(t) ==
    \/ t = <<"*">>
    \/ IsHostName(t)
    \/ Len(t) > 2 /\ Before(t, 3) = <<"*", ".">> /\ IsHostName(From(t, 3))

IsNumber(t) == t # <<>> /\ In(t, DOMAIN Numeral)

IsPort(t) == t = <<"*">> \/ (IsNumber(t) /\ FitsIn16Bits(t))

IsPath(t) == t # <<>> /\ Head(t) = "/" /\ In(t, PolicyByte \ {"?", "#"})

\* Where the three parts before the path may end, each at the end of the part before
\* when it is absent.
Cuts(t) ==
    {cut \in ({0} \cup {i + 2 : i \in Places(t, <<":", "/", "/">>)})
                 \X (DOMAIN t) \X (DOMAIN t) :
        /\ cut[1] < cut[2] /\ cut[2] <= cut[3]
        /\ cut[1] # 0 => IsScheme(Before(t, cut[1] - 2))
        /\ IsHost(SubSeq(t, cut[1] + 1, cut[2]))
        /\ cut[2] # cut[3] => t[cut[2] + 1] = ":" /\ IsPort(SubSeq(t, cut[2] + 2, cut[3]))
        /\ cut[3] # Len(t) => IsPath(From(t, cut[3] + 1))}

HostSourcesMeant(t) ==
    {[kind |-> "Host",
      scheme |-> Lower(Before(t, cut[1] - 2)),
      host |-> Lower(SubSeq(t, cut[1] + 1, cut[2])),
      port |-> LET port == SubSeq(t, cut[2] + 2, cut[3])
               IN  IF IsNumber(port) THEN Stripped(port) ELSE port,
      path |-> From(t, cut[3] + 1)] : cut \in Cuts(t)}

SchemesMeant(t) ==
    {[kind |-> "Scheme", scheme |-> Lower(scheme)] :
        scheme \in {s \in {Front(t)} : Last(t) = ":" /\ IsScheme(s)}}

\* A base64-value: so many characters, and then so much padding.
IsBase64Value(t, lengths, paddings) ==
    \E padding \in paddings :
        LET content == SubSeq(t, 1, Len(t) - padding)
        IN  /\ Len(t) > padding
            /\ From(t, Len(content) + 1) = [i \in 1..padding |-> "="]
            /\ In(content, Alphanumeric \cup {"+", "/", "-", "_"})
            /\ Length(content) \in lengths

\* The characters that carry a digest, six bits each, and what completes a group of four.
DigestChars == [sha256 |-> 43, sha384 |-> 64, sha512 |-> 86]

DigestPadding == [sha256 |-> 1, sha384 |-> 0, sha512 |-> 2]

QuotedSourcesMeant(t) ==
    LET prefix == Lower(SubSeq(t, 2, Min({3, Len(t)})))
        value  == SubSeq(t, 4, Len(t) - 1)
    IN  [kind : {"Keyword"}, text : KeywordText \cap {Lower(t)}]
        \cup [kind : {"Nonce"},
              value : When(/\ prefix = <<"nonce", "-">>
                           /\ IsBase64Value(value, Nat \ 0..21, 0..2),
                           value)]
        \cup UNION {[kind : {"Hash"}, algorithm : {algorithm},
                     value : When(/\ prefix = <<algorithm, "-">>
                                  /\ IsBase64Value(value, {DigestChars[algorithm]},
                                                          {0, DigestPadding[algorithm]}),
                                  value)] : algorithm \in HashAlgorithm}

\* The one source expression a text means, if it is one.
SourcesMeant(t) ==
    IF Quoted(t) THEN QuotedSourcesMeant(t)
    ELSE IF t = <<>> THEN {}
    ELSE SchemesMeant(t) \cup HostSourcesMeant(t)
=============================================================================
