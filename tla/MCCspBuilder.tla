---------------------------- MODULE MCCspBuilder ----------------------------
(***************************************************************************)
(* Values of the constants for the runs over CspRequirements.  Every run   *)
(* picks among these in its .cfg; the names say what each one is for.      *)
(***************************************************************************)
EXTENDS CspRequirements, CspBuilderRefines

CONSTANTS h1, h2, n1, n2, cdn, own, w1

PresetHosts ==
    UNION {UNION {Elements(t[i].sources) : i \in DOMAIN t} :
              t \in {Origins[preset] : preset \in DOMAIN Origins}} \ {"blob:"}

MCHost == {cdn, own} \cup PresetHosts
MCScheme == {"https:", "data:", "blob:"}
MCHash == {h1, h2}
MCNonce == {n1, n2}
MCWord == {w1, "'none'"}

Sandbox == [name |-> "sandbox", value |-> [kind |-> "Terms", terms |-> <<w1>>]]

List(n, ss) == Sources(n, Of(ss))

\* Lists that replace, empty, or repeat, and one that is refused.
BookkeepingDirectives ==
    { List("default-src", <<"'self'", "'unsafe-eval'">>),
      List("default-src", <<"'self'", cdn>>),
      Sources("script-src", NoneList),
      Sources("connect-src", SourcesList(<<cdn, cdn>>)),
      Sandbox }

BookkeepingSources ==
    { <<"default-src", <<"'unsafe-inline'", "'self'">>>>,
      <<"script-src", <<cdn, "'unsafe-eval'">>>>,
      <<"connect-src", <<own, cdn, own>>>> }

BookkeepingRetained ==
    { <<"script-src", Source \ {"'self'"}>>, <<"connect-src", {own}>> }

\* Lists that make the reading of a policy differ: every level of the fallback
\* chains, the expressions that take others away, lists that match nothing; and a
\* directive that is not a list, before or after script-src.
MeaningDirectives ==
    { List("default-src", <<"'self'">>),
      List("default-src", <<"'unsafe-inline'", cdn>>),
      Sources("default-src", NoneList),
      List("child-src", <<own>>),
      List("script-src", <<"'self'", cdn>>),
      Sources("script-src", NoneList),
      List("script-src-elem", <<own>>),
      Sandbox }

MeaningSources ==
    { <<"default-src", <<"'strict-dynamic'", "data:">>>>,
      <<"frame-src", <<cdn>>>> }

MeaningRetained == { <<"script-src", {}>>, <<"default-src", {cdn}>> }

\* A script-src with a host of its own, for the loads that fall back to it.
WorkerDirectives == { List("script-src", <<"'self'", cdn>>) }

MCScans == { <<h1, h2>>, <<>> }

MCOwn == {own}

NoDirectives == {}

=============================================================================
