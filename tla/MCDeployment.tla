---------------------------- MODULE MCDeployment ----------------------------
(***************************************************************************)
(* Shells for the server, put together from whole elements and from parts  *)
(* of them, and what it configures.                                        *)
(***************************************************************************)
EXTENDS DeploymentRequirements, SequencesExt

CONSTANTS a, own, n1, n2, MaxPieces

\* As in Markup.
Open == "<script"
Close == "</script"
Gt == ">"
CR == "CR"
LF == "LF"

Pieces ==
    <<<<Open, Gt, a, Close, Gt>>, <<Open, Gt, CR, LF, Close, Gt>>,
      <<Open, "blank", "src", "=", a, Gt>>, <<Open, Gt>>, <<Close, Gt>>, <<Open>>, <<a>>,
      <<CR>>, <<"byte-order-mark">>>>

PiecesOf(choice) == FlattenSeq([i \in DOMAIN choice |-> Pieces[choice[i]]])

Choice == UNION {[1..n -> DOMAIN Pieces] : n \in 0..MaxPieces}

MCDocuments == {PiecesOf(choice) : choice \in Choice}

\* The text is its own digest, spelt out.
MCSha256(text) == "sha256 of " \o ToString(text)

\* The digests of all that can stand between two tags, where an LF only follows a CR.
Digests ==
    LET NotLF(token) == token # LF
        OneLine(token) == IF token = CR THEN LF ELSE token
        Lines(d) == [i \in DOMAIN d |-> OneLine(d[i])]
        read  == {Lines(SelectSeq(d, NotLF)) : d \in MCDocuments}
        texts == {t \in read \X (1..15) \X (1..15) :
                    /\ t[2] < t[3] /\ t[3] <= Len(t[1])
                    /\ t[1][t[2]] = Gt /\ t[1][t[3]] = Close}
    IN  {MCSha256(SubSeq(t[1], t[2] + 1, t[3] - 1)) : t \in texts}

MCHash == Digests    \* TLC evaluates Digests once

Preset == INSTANCE Presets

PresetHosts ==
    UNION {UNION {Range(t[i].sources) : i \in DOMAIN t} : t \in Range(Preset!Origins)}
        \ {"blob:"}

MCHost == {own} \cup PresetHosts
MCScheme == {"https:", "data:", "blob:"}
MCNonce == {n1, n2}
MCWord == {"'none'"}
MCUnreadable == <<"unreadable">>

\* No origin, one, and one beside an expression that is refused.
MCExtraSources == {<<>>, <<own>>, <<own, "'unsafe-eval'">>}

\* A shell with a script, the same one with another byte before it, and none.
MCReplacements == {PiecesOf(<<1>>), PiecesOf(<<9, 1>>), PiecesOf(<<7>>)}
=============================================================================
