---------------------------- MODULE DeploymentProofs ----------------------------
(***************************************************************************)
(* Proofs about a server.  Deployment knows the scanner and the builder as *)
(* instances of their modules, and what was proved about either is here as *)
(* instances of the modules of their proofs: the first part shows that     *)
(* both instances define the same, the second that a server does with      *)
(* them nothing but what these modules allow, and the third what follows   *)
(* for the shell it serves.                                                *)
(***************************************************************************)
EXTENDS DeploymentRequirements, TLAPS

Scan == INSTANCE ScannerProofs

\* The builder, for every list of digests that the scan of a shell may give.
Build == INSTANCE ResponseProofs WITH
    Start <- {"spa_wasm"}, GivenDirectives <- {},
    GivenSources <- {<<"connect-src", ss>> : ss \in ExtraSources},
    RemovedNames <- {}, Retained <- {}, Scans <- Seq(Hash), PresetNames <- {"turnstile"},
    Services <- {}, OwnOrigins <- {}, MintedNonces <- Nonce, MaxCalls <- 4

-----------------------------------------------------------------------------
(***************************************************************************)
(* Both instances of the scanner, and of the browser that reads the shell. *)
(***************************************************************************)

\* The browser that reads the shell.
LEMMA SameReader ==
    /\ \A s : Scanner!InputStream(s) = Scan!InputStream(s)
    /\ \A s : Scanner!InlineScripts(s) = Scan!InlineScripts(s)
    /\ \A s : Scanner!Ordinary(s) <=> Scan!Ordinary(s)
    /\ \A t : Scanner!Enclosed(t) = Scan!Enclosed(t)
    /\ Scanner!DocumentTypes <=> Scan!DocumentTypes
<1>1. \A s : Scanner!InputStream(s) = Scan!InputStream(s)
  BY Zenon DEF Scanner!InputStream, Scan!InputStream, Scanner!Bom, Scan!Bom, Scanner!CR,
     Scan!CR, Scanner!LF, Scan!LF
<1>2. ASSUME NEW r, NEW b, NEW c PROVE Scanner!Read(r, b, c) = Scan!Read(r, b, c)
  BY Zenon DEF Scanner!Read, Scan!Read, Scanner!Between, Scan!Between, Scanner!BeginTag,
     Scan!BeginTag, Scanner!BeginName, Scan!BeginName, Scanner!Named, Scan!Named,
     Scanner!EndTag, Scan!EndTag, Scanner!ScriptText, Scan!ScriptText, Scanner!Mode,
     Scan!Mode, Scanner!Add, Scan!Add, Scanner!Follows, Scan!Follows, Scanner!Open,
     Scan!Open, Scanner!Close, Scan!Close, Scanner!Gt, Scan!Gt, Scanner!Slash, Scan!Slash,
     Scanner!Equals, Scan!Equals, Scanner!Src, Scan!Src, Scanner!DoubleQuote,
     Scan!DoubleQuote, Scanner!SingleQuote, Scan!SingleQuote, Scanner!Blank, Scan!Blank,
     Scanner!LF, Scan!LF, Scanner!CR, Scan!CR, Scanner!Bom, Scan!Bom, Scanner!Nul, Scan!Nul,
     Scanner!Replacement, Scan!Replacement, Scanner!CommentOpen, Scan!CommentOpen,
     Scanner!Dashes, Scan!Dashes, Scanner!Quote, Scan!Quote, Scanner!White, Scan!White
<1>3. \A s : Scanner!Reading(s) = Scan!Reading(s)
  BY <1>2, Zenon DEF Scanner!Reading, Scan!Reading, Scanner!Start, Scan!Start
<1>4. \A s : Scanner!InlineScripts(s) = Scan!InlineScripts(s)
  BY <1>1, <1>3, Zenon DEF Scanner!InlineScripts, Scan!InlineScripts
<1>5. \A s : Scanner!Ordinary(s) <=> Scan!Ordinary(s)
  BY <1>1, <1>3, ZenonT(60) DEF Scanner!Ordinary, Scan!Ordinary, Scanner!Open,
     Scan!Open, Scanner!Tag, Scan!Tag, Scanner!Quote, Scan!Quote, Scanner!Slash, Scan!Slash,
     Scanner!Src, Scan!Src, Scanner!DoubleQuote, Scan!DoubleQuote, Scanner!SingleQuote,
     Scan!SingleQuote
<1>6. \A t : Scanner!Enclosed(t) = Scan!Enclosed(t)
  BY Zenon DEF Scanner!Enclosed, Scan!Enclosed, Scanner!Gt, Scan!Gt, Scanner!Close,
     Scan!Close
<1>7. Scanner!DocumentTypes <=> Scan!DocumentTypes
  BY Zenon DEF Scanner!DocumentTypes, Scan!DocumentTypes, Scanner!Token, Scan!Token,
     Scanner!Open, Scan!Open, Scanner!Close, Scan!Close, Scanner!Gt, Scan!Gt, Scanner!Slash,
     Scan!Slash, Scanner!Equals, Scan!Equals, Scanner!Src, Scan!Src, Scanner!DoubleQuote,
     Scan!DoubleQuote, Scanner!SingleQuote, Scan!SingleQuote, Scanner!Blank, Scan!Blank,
     Scanner!LF, Scan!LF, Scanner!CR, Scan!CR, Scanner!Bom, Scan!Bom, Scanner!Nul, Scan!Nul,
     Scanner!Replacement, Scan!Replacement, Scanner!CommentOpen, Scan!CommentOpen,
     Scanner!Dashes, Scan!Dashes
<1> QED BY <1>1, <1>4, <1>5, <1>6, <1>7

\* The scan, turn by turn.
LEMMA SameScan ==
    /\ Scanner!Init <=> Scan!Init
    /\ \A s : Scanner!ScanShell(s) <=> Scan!ScanShell(s)
    /\ Scanner!Walk <=> Scan!Walk
<1>1. Scanner!Init <=> Scan!Init
  BY Zenon DEF Scanner!Init, Scan!Init
<1>2. \A s : Scanner!NormalizeNewlines(s) = Scan!NormalizeNewlines(s)
  BY Zenon DEF Scanner!NormalizeNewlines, Scan!NormalizeNewlines, Scanner!CR, Scan!CR,
     Scanner!LF, Scan!LF
<1>3. \A s : Scanner!ScanShell(s) <=> Scan!ScanShell(s)
  BY <1>2, Zenon DEF Scanner!ScanShell, Scan!ScanShell, Scanner!StripBom, Scan!StripBom,
     Scanner!Bom, Scan!Bom
<1>4. \A S : Scanner!First(S) = Scan!First(S)
  BY Zenon DEF Scanner!First, Scan!First
<1>5. Scanner!TagStart = Scan!TagStart
  BY <1>4, Zenon DEF Scanner!TagStart, Scan!TagStart, Scanner!Open, Scan!Open
<1>6. Scanner!TagEnd = Scan!TagEnd
  BY <1>4, <1>5, Zenon DEF Scanner!TagEnd, Scan!TagEnd, Scanner!AfterName, Scan!AfterName,
     Scanner!Gt, Scan!Gt
<1>7. \A s, from : Scanner!FindCloseTag(s, from) = Scan!FindCloseTag(s, from)
  BY <1>4, Zenon DEF Scanner!FindCloseTag, Scan!FindCloseTag, Scanner!Close, Scan!Close,
     Scanner!TagNameBoundary, Scan!TagNameBoundary, Scanner!White, Scan!White,
     Scanner!Blank, Scan!Blank, Scanner!LF, Scan!LF, Scanner!Slash, Scan!Slash, Scanner!Gt,
     Scan!Gt
<1>8. Scanner!Attributes = Scan!Attributes
  BY <1>5, <1>6, Zenon DEF Scanner!Attributes, Scan!Attributes, Scanner!AfterName,
     Scan!AfterName
<1>9. \A v : Scanner!QuoteAfter(v) = Scan!QuoteAfter(v)
  BY Zenon DEF Scanner!QuoteAfter, Scan!QuoteAfter, Scanner!Quote, Scan!Quote,
     Scanner!DoubleQuote, Scan!DoubleQuote, Scanner!SingleQuote, Scan!SingleQuote
<1>10. \A v : Scanner!HasSrcAttribute(v) <=> Scan!HasSrcAttribute(v)
  BY <1>9, Zenon DEF Scanner!HasSrcAttribute, Scan!HasSrcAttribute, Scanner!Src, Scan!Src,
     Scanner!AttributeBoundary, Scan!AttributeBoundary, Scanner!White, Scan!White,
     Scanner!Blank, Scan!Blank, Scanner!LF, Scan!LF, Scanner!Slash, Scan!Slash,
     Scanner!Equals, Scan!Equals
<1>11. Scanner!Ambiguity = Scan!Ambiguity
  BY <1>8, <1>9, Zenon DEF Scanner!Ambiguity, Scan!Ambiguity, Scanner!EndsInsideQuotes,
     Scan!EndsInsideQuotes
<1>12. Scanner!AtName <=> Scan!AtName
  BY <1>5, Zenon DEF Scanner!AtName, Scan!AtName, Scanner!AfterName, Scan!AfterName
<1>13. Scanner!AtTag <=> Scan!AtTag
  BY <1>5, <1>12, Zenon DEF Scanner!AtTag, Scan!AtTag, Scanner!AfterName, Scan!AfterName,
     Scanner!TagNameBoundary, Scan!TagNameBoundary, Scanner!White, Scan!White,
     Scanner!Blank, Scan!Blank, Scanner!LF, Scan!LF, Scanner!Slash, Scan!Slash, Scanner!Gt,
     Scan!Gt
<1>14. Scanner!ClosedTooEarly <=> Scan!ClosedTooEarly
  BY <1>5, <1>6, <1>7, Zenon DEF Scanner!ClosedTooEarly, Scan!ClosedTooEarly,
     Scanner!AfterName, Scan!AfterName
<1>15. Scanner!AtElement <=> Scan!AtElement
  BY <1>6, <1>13, <1>14, Zenon DEF Scanner!AtElement, Scan!AtElement
<1>16. Scanner!Finish <=> Scan!Finish
  BY <1>5, Zenon DEF Scanner!Finish, Scan!Finish, Scanner!Stop, Scan!Stop
<1>17. Scanner!NameAtTheEnd <=> Scan!NameAtTheEnd
  BY <1>5, Zenon DEF Scanner!NameAtTheEnd, Scan!NameAtTheEnd, Scanner!Stop, Scan!Stop,
     Scanner!AfterName, Scan!AfterName
<1>18. Scanner!SkipOtherName <=> Scan!SkipOtherName
  BY <1>5, <1>12, Zenon DEF Scanner!SkipOtherName, Scan!SkipOtherName, Scanner!Resume,
     Scan!Resume, Scanner!AfterName, Scan!AfterName, Scanner!TagNameBoundary,
     Scan!TagNameBoundary, Scanner!White, Scan!White, Scanner!Blank, Scan!Blank, Scanner!LF,
     Scan!LF, Scanner!Slash, Scan!Slash, Scanner!Gt, Scan!Gt
<1>19. Scanner!TagWithoutEnd <=> Scan!TagWithoutEnd
  BY <1>6, <1>13, <1>14, Zenon DEF Scanner!TagWithoutEnd, Scan!TagWithoutEnd, Scanner!Stop,
     Scan!Stop
<1>20. Scanner!SkipExternal <=> Scan!SkipExternal
  BY <1>6, <1>8, <1>10, <1>15, Zenon DEF Scanner!SkipExternal, Scan!SkipExternal,
     Scanner!Resume, Scan!Resume
<1>21. Scanner!ElementWithoutEnd <=> Scan!ElementWithoutEnd
  BY <1>6, <1>7, <1>8, <1>10, <1>11, <1>15, Zenon DEF Scanner!ElementWithoutEnd,
     Scan!ElementWithoutEnd, Scanner!Stop, Scan!Stop
<1>22. Scanner!HashInline <=> Scan!HashInline
  BY <1>6, <1>7, <1>8, <1>10, <1>11, <1>15, Zenon DEF Scanner!HashInline, Scan!HashInline,
     Scanner!Resume, Scan!Resume, Scanner!PushUnique, Scan!PushUnique, Scanner!Nul, Scan!Nul
<1> QED BY <1>1, <1>3, <1>16, <1>17, <1>18, <1>19, <1>20, <1>21, <1>22
       DEF Scanner!Walk, Scan!Walk

-----------------------------------------------------------------------------
(***************************************************************************)
(* Both instances of the builder, and of the browser that reads the header.*)
(***************************************************************************)

\* What the builder's calls do to lists and policies.
LEMMA SameLists ==
    /\ Builder!Origins = Build!Origins
    /\ \A ss : Builder!Of(ss) = Build!Of(ss)
    /\ \A p, n : Builder!EnsureSeeded(p, n) = Build!EnsureSeeded(p, n)
    /\ \A p, n, ss : Builder!ExtendSources(p, n, ss) = Build!ExtendSources(p, n, ss)
    /\ \A p, n, ss : Builder!ExtendUnrouted(p, n, ss) = Build!ExtendUnrouted(p, n, ss)
    /\ \A p, table : Builder!Admitted(p, table) = Build!Admitted(p, table)
<1>1. Builder!Origins = Build!Origins
  BY Zenon DEF Builder!Origins, Build!Origins, Builder!Entry, Build!Entry,
     Builder!Turnstile, Build!Turnstile, Builder!WebAnalytics, Build!WebAnalytics,
     Builder!FathomCloud, Build!FathomCloud, Builder!TagManager, Build!TagManager,
     Builder!Analytics, Build!Analytics, Builder!Fonts, Build!Fonts, Builder!Recaptcha,
     Build!Recaptcha, Builder!PlausibleCloud, Build!PlausibleCloud, Builder!Loader,
     Build!Loader, Builder!SessionReplay, Build!SessionReplay, Builder!StripeElements,
     Build!StripeElements, Builder!Checkout, Build!Checkout
<1>2. \A list, ss : Builder!PushEach(list, ss) = Build!PushEach(list, ss)
  BY Zenon DEF Builder!PushEach, Build!PushEach, Builder!Push, Build!Push,
     Builder!PushUnique, Build!PushUnique, Builder!Elements, Build!Elements,
     Builder!SourcesList, Build!SourcesList
<1>3. \A ss : Builder!Of(ss) = Build!Of(ss)
  BY <1>2, Zenon DEF Builder!Of, Build!Of, Builder!SourcesList, Build!SourcesList
<1>4. \A p, n : Builder!Position(p, n) = Build!Position(p, n)
  BY Zenon DEF Builder!Position, Build!Position
<1>5. \A p, n : Builder!Contains(p, n) <=> Build!Contains(p, n)
  BY <1>4, Zenon DEF Builder!Contains, Build!Contains
<1>6. \A p, n : Builder!ListOf(p, n) = Build!ListOf(p, n)
  BY <1>4, Zenon DEF Builder!ListOf, Build!ListOf
<1>7. \A p, n, ss : Builder!ExtendSources(p, n, ss) = Build!ExtendSources(p, n, ss)
  BY <1>2, <1>3, <1>4, <1>5, <1>6, Zenon DEF Builder!ExtendSources, Build!ExtendSources,
     Builder!Sources, Build!Sources
<1>8. \A n : Builder!FallbackChain(n) = Build!FallbackChain(n)
  BY Zenon DEF Builder!FallbackChain, Build!FallbackChain
<1>9. ASSUME NEW p, NEW n PROVE Builder!Inherited(p, n) = Build!Inherited(p, n)
  BY Zenon DEF Builder!Inherited, Build!Inherited, Builder!FallbackChain,
     Build!FallbackChain, Builder!Contains, Build!Contains, Builder!ListOf, Build!ListOf,
     Builder!Position, Build!Position, Builder!SourcesList, Build!SourcesList
<1>10. \A p, d : Builder!Set(p, d) = Build!Set(p, d)
  BY <1>4, <1>5, Zenon DEF Builder!Set, Build!Set
<1>11. \A p, n : Builder!EnsureSeeded(p, n) = Build!EnsureSeeded(p, n)
  BY <1>5, <1>9, <1>10, Zenon DEF Builder!EnsureSeeded, Build!EnsureSeeded, Builder!Sources,
     Build!Sources
<1>12. \A p, n, ss : Builder!ExtendUnrouted(p, n, ss) = Build!ExtendUnrouted(p, n, ss)
  BY <1>7, <1>11, Zenon DEF Builder!ExtendUnrouted, Build!ExtendUnrouted
<1>13. \A p, table : Builder!Admitted(p, table) = Build!Admitted(p, table)
  BY <1>12, Zenon DEF Builder!Admitted, Build!Admitted
<1> QED BY <1>1, <1>3, <1>7, <1>11, <1>12, <1>13

\* What they make of a policy.
LEMMA SameRendering ==
    /\ \A p : Builder!ToHeaderValue(p) = Build!ToHeaderValue(p)
    /\ \A p : Builder!SplitAroundScriptSrc(p) = Build!SplitAroundScriptSrc(p)
<1>1. \A p, from, to : Builder!Rendered(p, from, to) = Build!Rendered(p, from, to)
  BY Zenon DEF Builder!Rendered, Build!Rendered, Builder!Separator, Build!Separator,
     Builder!DirectiveTokens, Build!DirectiveTokens, Builder!ListTokens, Build!ListTokens,
     Builder!MatchesNothing, Build!MatchesNothing, Builder!SourceDirective,
     Build!SourceDirective
<1>2. \A d : Builder!DirectiveTokens(d) = Build!DirectiveTokens(d)
  BY Zenon DEF Builder!DirectiveTokens, Build!DirectiveTokens, Builder!ListTokens,
     Build!ListTokens, Builder!MatchesNothing, Build!MatchesNothing,
     Builder!SourceDirective, Build!SourceDirective
<1>3. \A p, n : Builder!Position(p, n) = Build!Position(p, n)
  BY Zenon DEF Builder!Position, Build!Position
<1>4. \A p : Builder!ToHeaderValue(p) = Build!ToHeaderValue(p)
  BY <1>1, Zenon DEF Builder!ToHeaderValue, Build!ToHeaderValue
<1>5. \A p : Builder!SplitAroundScriptSrc(p) = Build!SplitAroundScriptSrc(p)
  BY <1>1, <1>2, <1>3, Zenon DEF Builder!SplitAroundScriptSrc, Build!SplitAroundScriptSrc,
     Builder!MatchesNothing, Build!MatchesNothing, Builder!Separator, Build!Separator
<1> QED BY <1>4, <1>5

\* The calls a server makes.
LEMMA SameCalls ==
    /\ Builder!Init <=> Build!Init
    /\ \A digests : Builder!WithScan(digests) <=> Build!WithScan(digests)
    /\ \A enabled : Builder!PerResponseNonce(enabled) <=> Build!PerResponseNonce(enabled)
    /\ \A preset : Builder!Admit(preset) <=> Build!Admit(preset)
    /\ \A n, ss : Builder!Extend(n, ss) <=> Build!Extend(n, ss)
    /\ Builder!Build <=> Build!Build
    /\ Builder!ConstantHeaders <=> Build!ConstantHeaders
    /\ \A n : Builder!PerResponseHeaders(n) <=> Build!PerResponseHeaders(n)
<1>1. \A c : Builder!Constructed(c) = Build!Constructed(c)
  BY SameLists, Zenon DEF Builder!Constructed, Build!Constructed, Builder!SpaWasm,
     Build!SpaWasm, Builder!Sources, Build!Sources, Builder!NoneList, Build!NoneList
<1>2. Builder!Init <=> Build!Init
  BY <1>1, Zenon DEF Builder!Init, Build!Init, Builder!Unbuilt, Build!Unbuilt,
     Builder!NoResponse, Build!NoResponse
<1>3. \A digests : Builder!WithScan(digests) <=> Build!WithScan(digests)
  BY SameLists, Zenon DEF Builder!WithScan, Build!WithScan, Builder!Call, Build!Call,
     Builder!Unbuilt, Build!Unbuilt, Builder!served, Build!served
<1>4. \A enabled : Builder!PerResponseNonce(enabled) <=> Build!PerResponseNonce(enabled)
  BY Zenon DEF Builder!PerResponseNonce, Build!PerResponseNonce, Builder!Call, Build!Call,
     Builder!Unbuilt, Build!Unbuilt, Builder!served, Build!served
<1>5. \A preset : Builder!Admit(preset) <=> Build!Admit(preset)
  BY SameLists, Zenon DEF Builder!Admit, Build!Admit, Builder!Call, Build!Call,
     Builder!Unbuilt, Build!Unbuilt, Builder!served, Build!served
<1>6. \A n, ss : Builder!CheckRouting(n, ss) <=> Build!CheckRouting(n, ss)
  BY Zenon DEF Builder!CheckRouting, Build!CheckRouting, Builder!RoutedIn, Build!RoutedIn,
     Builder!Elements, Build!Elements
<1>7. \A n, ss : Builder!Extend(n, ss) <=> Build!Extend(n, ss)
  BY <1>6, SameLists, Zenon DEF Builder!Extend, Build!Extend, Builder!Call, Build!Call,
     Builder!Unbuilt, Build!Unbuilt, Builder!served, Build!served
<1>8. Builder!Build <=> Build!Build
  BY SameLists, SameRendering, Zenon DEF Builder!Build, Build!Build, Builder!Unbuilt,
     Build!Unbuilt
<1>9. Builder!ConstantHeaders <=> Build!ConstantHeaders
  BY Zenon DEF Builder!ConstantHeaders, Build!ConstantHeaders
<1>10. \A n : Builder!PerResponseHeaders(n) <=> Build!PerResponseHeaders(n)
  BY Zenon DEF Builder!PerResponseHeaders, Build!PerResponseHeaders
<1> QED BY <1>2, <1>3, <1>4, <1>5, <1>7, <1>8, <1>9, <1>10

\* The browser that reads the header.
LEMMA SameBrowser ==
    /\ \A h : Browser!NamesRead(h) = Build!NamesRead(h)
    /\ \A h, n : Browser!TermsRead(h, n) = Build!TermsRead(h, n)
    /\ \A v : Browser!WithoutNone(v) = Build!WithoutNone(v)
    /\ \A n, ss : Browser!Allows(n, ss) = Build!Allows(n, ss)
    /\ Browser!AnyInline = Build!AnyInline
    /\ Browser!AnyInlineIsNoSource <=> Build!AnyInlineIsNoSource
<1>1. \A h : Browser!NamesRead(h) = Build!NamesRead(h)
  BY Zenon DEF Browser!NamesRead, Build!NamesRead, Browser!SegmentStarts,
     Build!SegmentStarts
<1>2. ASSUME NEW h, NEW n PROVE Browser!TermsRead(h, n) = Build!TermsRead(h, n)
  BY Zenon DEF Browser!TermsRead, Build!TermsRead, Browser!SegmentStarts,
     Build!SegmentStarts, Browser!SegmentEnd, Build!SegmentEnd, Browser!WithoutNone,
     Build!WithoutNone, Browser!Kept, Build!Kept, Browser!Elements, Build!Elements
<1>3. \A n, ss : Browser!Allows(n, ss) = Build!Allows(n, ss)
  BY Zenon DEF Browser!Allows, Build!Allows, Browser!ScriptLoad, Build!ScriptLoad,
     Browser!UrlExpression, Build!UrlExpression, Browser!PlainKeyword, Build!PlainKeyword,
     Browser!AnyInline, Build!AnyInline, Browser!StyleLoad, Build!StyleLoad,
     Browser!InlineContent, Build!InlineContent, Browser!Enabled, Build!Enabled
<1>4. Browser!AnyInline = Build!AnyInline
  BY Zenon DEF Browser!AnyInline, Build!AnyInline
<1>5. Browser!AnyInlineIsNoSource <=> Build!AnyInlineIsNoSource
  BY Zenon DEF Browser!AnyInlineIsNoSource, Build!AnyInlineIsNoSource, Browser!AnyInline,
     Build!AnyInline, Browser!Source, Build!Source, Browser!Keyword, Build!Keyword
<1>6. \A v : Browser!WithoutNone(v) = Build!WithoutNone(v)
  BY Zenon DEF Browser!WithoutNone, Build!WithoutNone, Browser!Kept, Build!Kept,
     Browser!Elements, Build!Elements
<1> QED BY <1>1, <1>2, <1>3, <1>4, <1>5, <1>6

\* What the proofs about the builder assume of its constants.
LEMMA BuildInputs ==
    /\ Build!DistinctTerms /\ Build!NoneIsNoSource /\ Build!SeparatorIsNoTerm
    /\ Build!InputTypes /\ Build!PresetTypes /\ Build!NoncesAreFresh
    /\ Build!AnyInlineIsNoSource
<1>1. Build!DistinctTerms
  BY ServerInputs, Zenon DEF Builder!DistinctTerms, Build!DistinctTerms, Builder!Keyword,
     Build!Keyword
<1>2. Build!NoneIsNoSource
  BY ServerInputs, Zenon DEF Builder!NoneIsNoSource, Build!NoneIsNoSource, Builder!Source,
     Build!Source, Builder!Keyword, Build!Keyword
<1>3. Build!SeparatorIsNoTerm
  BY ServerInputs, Zenon DEF Builder!SeparatorIsNoTerm, Build!SeparatorIsNoTerm
<1>4. Build!InputTypes
  BY ServerInputs, Zenon DEF Builder!InputTypes, Build!InputTypes, Builder!Source,
     Build!Source, Builder!Keyword, Build!Keyword, Builder!SourceDirective,
     Build!SourceDirective
<1>5. Build!PresetTypes
  BY ServerInputs, SameLists, Zenon DEF Builder!PresetTypes, Build!PresetTypes,
     Builder!SourceDirective, Build!SourceDirective, Builder!OriginDirectives,
     Build!OriginDirectives
<1>6. Build!NoncesAreFresh
  BY ServerInputs, Zenon DEF Builder!NoncesAreFresh, Build!NoncesAreFresh, Builder!Elements,
     Build!Elements
<1>7. Build!AnyInlineIsNoSource
  BY MarkerIsNoSource, SameBrowser
<1> QED BY <1>1, <1>2, <1>3, <1>4, <1>5, <1>6, <1>7

-----------------------------------------------------------------------------
(***************************************************************************)
(* What a server does with the scanner and with the builder.               *)
(***************************************************************************)

\* Where the scan is when the server has come to a step, and of what document it is.
ServerInv ==
    /\ Scan!SInv
    /\ Scan!Hashed \subseteq Scan!Enclosed(html)
    /\ step = "started" => phase = "idle" /\ disk \in Documents \cup {Unreadable}
    /\ step = "read" => phase # "idle"
    /\ step \notin {"started", "read"} => phase # "scanning"
    /\ phase = "idle" => digest = <<>>
    /\ phase # "idle" => shell \in Documents /\ digest = shell

LEMMA ScanInputs == Scan!DocumentTypes
BY ServerInputs, SameReader

LEMMA ServerInit == Init => ServerInv
<1> SUFFICES ASSUME Init PROVE ServerInv
  OBVIOUS
<1>1. Scan!Init /\ step = "started" /\ disk = Unreadable
  BY SameScan DEF Init
<1>2. Scan!SInv
  BY <1>1, ScanInputs, Scan!InitScan
<1>3. phase = "idle" /\ digest = <<>> /\ hashes = <<>>
  BY <1>1 DEF Scan!Init
<1>4. Scan!Hashed = {}
  BY <1>3 DEF Scan!Hashed, Scan!ToSet
<1> QED BY <1>1, <1>2, <1>3, <1>4 DEF ServerInv

\* A step that leaves the scan alone.
LEMMA ScanUntouched ==
    ASSUME ServerInv, UNCHANGED scan,
           step' = "started" => step = "started" /\ disk' \in Documents \cup {Unreadable},
           step' = "read" => step = "read",
           step' \notin {"started", "read"} => phase # "scanning"
    PROVE  ServerInv'
<1>1. /\ shell' = shell /\ html' = html /\ cursor' = cursor /\ digest' = digest
      /\ hashes' = hashes /\ warnings' = warnings /\ phase' = phase
  BY DEF scan
<1>2. Scan!SInv'
  <2>1. Scan!SInv /\ UNCHANGED Scan!vars
    BY <1>1 DEF ServerInv, Scan!vars
  <2> QED BY <2>1, ScanInputs, Scan!ScanSteps
<1>3. Scan!Hashed' \subseteq Scan!Enclosed(html')
  BY <1>1 DEF ServerInv, Scan!Hashed
<1> QED BY <1>1, <1>2, <1>3 DEF ServerInv

\* What every action but the two of the scan leaves as it is.
LEMMA ServerActions ==
    ASSUME Next
    PROVE  \/ ReadShell
           \/ Walk
           \/ /\ UNCHANGED scan
              /\ \/ Deploy
                 \/ CannotRead
                 \/ phase = "done" /\ After("read", "scanned")
                 \/ /\ step \notin {"started", "read"}
                    /\ step' \notin {"started", "read"}
BY DEF Next, Startup, CannotRead, AdmitScan, ChooseNonce, ChoosePreset, AddOrigins,
       BuildPolicy, Respond, Deploy, Replace, After

LEMMA ServerNext == ServerInv /\ [Next]_vars => ServerInv'
<1> SUFFICES ASSUME ServerInv, [Next]_vars PROVE ServerInv'
  OBVIOUS
<1>1. CASE ReadShell
  <2>1. /\ step = "started" /\ step' = "read" /\ phase = "idle" /\ disk \in Documents
        /\ Scan!ScanShell(disk)
    BY <1>1, SameScan DEF ServerInv, ReadShell, After
  <2>2. Scan!SInv'
    BY <2>1, ScanInputs, Scan!ScanBegins DEF ServerInv
  <2>3. hashes' = hashes /\ hashes = <<>>
    BY <2>1 DEF Scan!ScanShell, ServerInv, Scan!SInv
  <2>4. Scan!Hashed' = {}
    BY <2>3 DEF Scan!Hashed, Scan!ToSet
  <2>5. phase' = "scanning" /\ shell' = disk /\ digest' = disk
    BY <2>1 DEF Scan!ScanShell
  <2> QED BY <2>1, <2>2, <2>4, <2>5 DEF ServerInv
<1>2. CASE Walk
  <2>1. Scan!Walk /\ step' = step
    BY <1>2, SameScan DEF Walk
  <2>2. Scan!SInv'
    BY <2>1, ScanInputs, Scan!WalkKeeps DEF ServerInv
  <2>3. Scan!Hashed' \subseteq Scan!Enclosed(html')
    BY <2>1, ScanInputs, Scan!WalkEncloses DEF ServerInv, Scan!SInv
  <2>4. phase = "scanning" /\ phase' # "idle" /\ shell' = shell /\ digest' = digest
    BY <2>1 DEF Scan!Walk, Scan!Finish, Scan!NameAtTheEnd, Scan!SkipOtherName,
                Scan!TagWithoutEnd, Scan!SkipExternal, Scan!ElementWithoutEnd,
                Scan!HashInline, Scan!AtElement, Scan!AtTag, Scan!AtName, Scan!Stop,
                Scan!Resume
  <2> QED BY <2>1, <2>2, <2>3, <2>4 DEF ServerInv
<1>3. CASE UNCHANGED scan /\ Deploy
  BY <1>3, ScanUntouched DEF Deploy, ServerInv
<1>4. CASE UNCHANGED scan /\ CannotRead
  <2>1. step = "started" /\ step' = "scanned" /\ phase = "idle"
    BY <1>4 DEF CannotRead, After, ServerInv
  <2> QED BY <1>4, <2>1, ScanUntouched
<1>5. CASE UNCHANGED scan /\ phase = "done" /\ After("read", "scanned")
  BY <1>5, ScanUntouched DEF After
<1>6. CASE UNCHANGED scan /\ step \notin {"started", "read"} /\ step' \notin {"started", "read"}
  <2>1. phase # "scanning"
    BY <1>6 DEF ServerInv
  <2> QED BY <1>6, <2>1, ScanUntouched
<1>7. CASE UNCHANGED vars
  <2>1. UNCHANGED <<scan, step, disk>>
    BY <1>7 DEF vars
  <2> QED BY <2>1, ScanUntouched DEF ServerInv
<1> QED BY <1>1, <1>2, <1>3, <1>4, <1>5, <1>6, <1>7, ServerActions

\* The scan of a server does what ScannerProofs proves the scan to do.
THEOREM ServerScans == Spec => []ServerInv
BY ServerInit, ServerNext, PTL DEF Spec

-----------------------------------------------------------------------------
Digests == [i \in DOMAIN hashes |-> Sha256(hashes[i])]

DigestSet == {Sha256(hashes[i]) : i \in DOMAIN hashes}

\* What the scan found are digests a policy may list.
LEMMA DigestsAreHashes ==
    ASSUME ServerInv
    PROVE  /\ Digests \in Seq(Hash) /\ Build!Elements(Digests) = DigestSet
           /\ DigestSet \subseteq Hash
           /\ phase = "idle" => DigestSet = {}
<1>1. hashes \in Seq(Seq(Scan!Token)) /\ (phase = "idle" => hashes = <<>>)
  BY DEF ServerInv, Scan!SInv, Scan!ScannerTypeOK
<1>2. Len(hashes) \in Nat /\ DOMAIN hashes = 1..Len(hashes)
  BY <1>1
<1>3. ASSUME NEW i \in DOMAIN hashes PROVE Sha256(hashes[i]) \in Hash
  <2>1. phase # "idle"
    BY <1>1, <1>2, <1>3
  <2>2. shell \in Documents /\ html = Scan!InputStream(shell)
    BY <2>1 DEF ServerInv, Scan!SInv
  <2>3. hashes[i] \in Scan!Enclosed(html)
    BY DEF ServerInv, Scan!Hashed, Scan!ToSet
  <2>4. hashes[i] \in Scanner!Enclosed(Scanner!InputStream(shell))
    BY <2>2, <2>3, SameReader
  <2> QED BY <2>2, <2>4, DigestsAreSources
<1>4. Digests \in Seq(Hash)
  BY <1>2, <1>3 DEF Digests
<1>5. Build!Elements(Digests) = DigestSet
  BY DEF Build!Elements, Digests, DigestSet
<1>6. DigestSet \subseteq Hash
  BY <1>3 DEF DigestSet
<1>7. phase = "idle" => DigestSet = {}
  BY <1>1, <1>2 DEF DigestSet
<1> QED BY <1>4, <1>5, <1>6, <1>7

\* A server's steps are calls of the builder, or leave it alone.
LEMMA ServerCalls == ServerInv /\ [Next]_vars => [Build!Next]_(Build!vars)
<1> SUFFICES ASSUME ServerInv, [Next]_vars PROVE Build!Next \/ UNCHANGED Build!vars
  OBVIOUS
<1>1. CASE UNCHANGED csp
  BY <1>1 DEF csp, Build!vars
<1>2. CASE AdmitScan
  <2>1. Build!WithScan(Digests)
    BY <1>2, SameCalls DEF AdmitScan, Digests
  <2>2. Digests \in Seq(Hash)
    BY DigestsAreHashes
  <2> HIDE DEF Digests
  <2> QED BY <2>1, <2>2 DEF Build!Next
<1>3. CASE ChooseNonce
  <2>1. Build!PerResponseNonce(TRUE) \/ UNCHANGED csp
    BY <1>3, SameCalls DEF ChooseNonce
  <2> QED BY <1>1, <2>1 DEF Build!Next
<1>4. CASE ChoosePreset
  <2>1. Build!Admit("turnstile") \/ UNCHANGED csp
    BY <1>4, SameCalls DEF ChoosePreset
  <2> QED BY <1>1, <2>1 DEF Build!Next
<1>5. ASSUME NEW sources \in ExtraSources, AddOrigins(sources) PROVE Build!Next
  <2> DEFINE g == <<"connect-src", sources>>
  <2>1. Build!Extend(g[1], g[2])
    BY <1>5, SameCalls DEF AddOrigins
  <2>2. g \in {<<"connect-src", ss>> : ss \in ExtraSources}
    OBVIOUS
  <2> HIDE DEF g
  <2> QED BY <2>1, <2>2 DEF Build!Next
<1>6. CASE BuildPolicy
  BY <1>6, SameCalls DEF BuildPolicy, Build!Next
<1>7. CASE Respond
  <2>1. Build!ConstantHeaders \/ \E n \in Nonce : Build!PerResponseHeaders(n)
    BY <1>7, SameCalls DEF Respond
  <2> QED BY <2>1 DEF Build!Next
<1>8. CASE ReadShell \/ CannotRead \/ Walk \/ Deploy \/ Replace \/ UNCHANGED vars
  BY <1>1, <1>8 DEF ReadShell, CannotRead, Walk, Deploy, Replace, vars
<1> QED BY <1>2, <1>3, <1>4, <1>5, <1>6, <1>7, <1>8 DEF Next, Startup

\* A server is a program that uses the builder (the oracle shell_to_header): what is
\* proved of every such program holds of its policy and of its responses.
THEOREM ServerUsesTheBuilder == Spec => Build!Spec
<1>1. Init => Build!Init
  BY SameCalls DEF Init
<1> QED BY <1>1, ServerScans, ServerCalls, PTL DEF Spec, Build!Spec

-----------------------------------------------------------------------------
(***************************************************************************)
(* What follows for the shell it serves.                                   *)
(***************************************************************************)

\* The digests the policy has been given.
Admission == IF step \in {"started", "read"} THEN {} ELSE DigestSet

\* The policy a server has come to: that of an application, with these digests, and with
\* the directive of the preset if it was chosen.
PolicyInv ==
    /\ turnstile \in BOOLEAN
    /\ turnstile => step \notin {"started", "read", "scanned", "nonce chosen"}
    /\ Build!Configured(policy, turnstile, Admission)
    /\ step # "serving" => response = Build!NoResponse

LEMMA PolicyInit == Init => PolicyInv
<1> SUFFICES ASSUME Init PROVE PolicyInv
  OBVIOUS
<1>1. Build!Init /\ turnstile = FALSE /\ step = "started"
  BY SameCalls DEF Init
<1>2. policy = Build!Constructed("spa_wasm") /\ response = Build!NoResponse
  BY <1>1 DEF Build!Init
<1>3. Build!Configured(policy, FALSE, {})
  BY <1>2, BuildInputs, Build!SpaIsConfigured
<1>4. Admission = {}
  BY <1>1 DEF Admission
<1> QED BY <1>1, <1>2, <1>3, <1>4 DEF PolicyInv

\* A step that leaves the policy and the preset alone.
LEMMA PolicyUntouched ==
    ASSUME PolicyInv, policy' = policy, turnstile' = turnstile, Admission' = Admission,
           turnstile => step' \notin {"started", "read", "scanned", "nonce chosen"},
           step' # "serving" => response' = Build!NoResponse
    PROVE  PolicyInv'
BY DEF PolicyInv

\* Outside the scan, and after it was admitted, so do the digests.
LEMMA SameAdmission ==
    /\ UNCHANGED <<scan, step>> => Admission' = Admission
    /\ (step \in {"started", "read"} /\ step' \in {"started", "read"})
          => Admission' = Admission
    /\ (UNCHANGED scan /\ step \notin {"started", "read"} /\ step' \notin {"started", "read"})
          => Admission' = Admission
BY DEF Admission, DigestSet, scan

LEMMA PolicyNext == ServerInv /\ PolicyInv /\ [Next]_vars => PolicyInv'
<1> SUFFICES ASSUME ServerInv, PolicyInv, [Next]_vars PROVE PolicyInv'
  OBVIOUS
<1>1. CASE ReadShell \/ Walk \/ Deploy \/ Replace \/ UNCHANGED vars
  <2>1. UNCHANGED <<csp, turnstile>>
    BY <1>1 DEF ReadShell, Walk, Deploy, Replace, vars
  <2>2. Admission' = Admission
    <3>1. CASE ReadShell
      BY <3>1, SameAdmission DEF ReadShell, After
    <3>2. CASE Walk
      <4>1. Scan!Walk
        BY <3>2, SameScan DEF Walk
      <4>2. phase = "scanning"
        BY <4>1 DEF Scan!Walk, Scan!Finish, Scan!NameAtTheEnd, Scan!SkipOtherName,
                    Scan!TagWithoutEnd, Scan!SkipExternal, Scan!ElementWithoutEnd,
                    Scan!HashInline, Scan!AtElement, Scan!AtTag, Scan!AtName
      <4>3. step \in {"started", "read"} /\ step' = step
        BY <3>2, <4>2 DEF Walk, ServerInv
      <4> QED BY <4>3, SameAdmission
    <3>3. CASE Deploy \/ Replace \/ UNCHANGED vars
      BY <3>3, SameAdmission DEF Deploy, Replace, vars
    <3> QED BY <1>1, <3>1, <3>2, <3>3
  <2>3. step' = step \/ ReadShell
    BY <1>1 DEF Walk, Deploy, Replace, vars
  <2>4. turnstile => step' \notin {"started", "read", "scanned", "nonce chosen"}
    BY <2>3 DEF PolicyInv, ReadShell, After
  <2>5. step' # "serving" => response' = Build!NoResponse
    BY <2>1, <2>3 DEF PolicyInv, ReadShell, After, csp
  <2> QED BY <2>1, <2>2, <2>4, <2>5, PolicyUntouched DEF csp
<1>2. CASE CannotRead
  <2>1. step = "started" /\ step' = "scanned" /\ phase = "idle" /\ UNCHANGED <<scan, csp>>
        /\ turnstile' = turnstile
    BY <1>2 DEF CannotRead, After, ServerInv
  <2>2. DigestSet' = {}
    BY <2>1, DigestsAreHashes DEF DigestSet, scan
  <2>3. Admission' = Admission
    BY <2>1, <2>2 DEF Admission
  <2>4. ~turnstile /\ response' = Build!NoResponse
    BY <2>1 DEF PolicyInv, csp
  <2> QED BY <2>1, <2>3, <2>4, PolicyUntouched DEF csp
<1>3. CASE AdmitScan
  <2>1. /\ step = "read" /\ step' = "scanned" /\ UNCHANGED <<scan, turnstile>>
        /\ Build!WithScan(Digests)
    BY <1>3, SameCalls DEF AdmitScan, Digests, After
  <2>2. ~turnstile /\ Build!Configured(policy, FALSE, {}) /\ response = Build!NoResponse
    BY <2>1 DEF PolicyInv, Admission
  <2>3. policy' = Build!ExtendUnrouted(policy, Build!Script, Digests) /\ response' = response
    BY <2>1 DEF Build!WithScan, Build!Call, Build!served, Build!Script
  <2>4. Digests \in Seq(Hash) /\ Build!Elements(Digests) = DigestSet
    BY DigestsAreHashes
  <2> DEFINE none == {}
             found == Digests
             now == policy'
  <2>5. Build!Configured(policy, FALSE, none) /\ none \cup DigestSet = DigestSet
    BY <2>2
  <2>6. now = Build!ExtendUnrouted(policy, Build!Script, found)
        /\ found \in Seq(Hash) /\ Build!Elements(found) = DigestSet
    BY <2>3, <2>4
  <2> HIDE DEF none, found, now
  <2>7. Build!Configured(now, FALSE, none \cup Build!Elements(found))
    BY <2>5, <2>6, BuildInputs, Build!ConfiguredScan
  <2>8. Build!Configured(policy', FALSE, DigestSet)
    BY <2>5, <2>6, <2>7 DEF now
  <2>9. Admission' = DigestSet
    BY <2>1 DEF Admission, DigestSet, scan
  <2> QED BY <2>1, <2>2, <2>3, <2>8, <2>9 DEF PolicyInv
<1>4. CASE ChooseNonce
  <2>1. /\ step = "scanned" /\ step' = "nonce chosen" /\ UNCHANGED <<scan, turnstile>>
        /\ Build!PerResponseNonce(TRUE) \/ UNCHANGED csp
    BY <1>4, SameCalls DEF ChooseNonce, After
  <2>2. policy' = policy /\ response' = response
    BY <2>1 DEF csp, Build!PerResponseNonce, Build!Call, Build!served
  <2>3. ~turnstile /\ response = Build!NoResponse
    BY <2>1 DEF PolicyInv
  <2> QED BY <2>1, <2>2, <2>3, SameAdmission, PolicyUntouched
<1>5. CASE ChoosePreset
  <2>1. /\ step = "nonce chosen" /\ step' = "preset chosen" /\ UNCHANGED scan
        /\ \/ Build!Admit("turnstile") /\ turnstile' = TRUE
           \/ UNCHANGED <<csp, turnstile>>
    BY <1>5, SameCalls DEF ChoosePreset, After
  <2>2. ~turnstile /\ response = Build!NoResponse /\ Build!Configured(policy, FALSE, Admission)
    BY <2>1 DEF PolicyInv
  <2>3. Admission' = Admission
    BY <2>1, SameAdmission
  <2>4. CASE Build!Admit("turnstile") /\ turnstile' = TRUE
    <3>1. policy' = Build!Admitted(policy, Build!Origins["turnstile"]) /\ response' = response
      BY <2>4 DEF Build!Admit, Build!Call, Build!served
    <3> DEFINE now == policy'
    <3>2. now = Build!Admitted(policy, Build!Origins["turnstile"])
      BY <3>1
    <3> HIDE DEF now
    <3>3. Build!Configured(now, TRUE, Admission)
      BY <2>2, <3>2, BuildInputs, Build!ConfiguredTurnstile
    <3> QED BY <2>1, <2>2, <2>3, <2>4, <3>1, <3>3 DEF PolicyInv, now
  <2>5. CASE UNCHANGED <<csp, turnstile>>
    BY <2>1, <2>2, <2>3, <2>5, PolicyUntouched DEF csp
  <2> QED BY <2>1, <2>4, <2>5
<1>6. ASSUME NEW sources \in ExtraSources, AddOrigins(sources) PROVE PolicyInv'
  <2>1. /\ step = "preset chosen" /\ step' = "configured" /\ UNCHANGED <<scan, turnstile>>
        /\ Build!Extend("connect-src", sources)
    BY <1>6, SameCalls DEF AddOrigins, After
  <2>2. /\ response' = response
        /\ \/ policy' = Build!ExtendSources(policy, "connect-src", Build!Of(sources).terms)
           \/ policy' = policy
    BY <2>1 DEF Build!Extend, Build!Call, Build!served
  <2>3. response = Build!NoResponse
    BY <2>1 DEF PolicyInv
  <2>4. Admission' = Admission
    BY <2>1, SameAdmission
  <2>5. CASE policy' = Build!ExtendSources(policy, "connect-src", Build!Of(sources).terms)
    <3>1. sources \in Seq(Build!Source)
      <4> DEFINE g == <<"connect-src", sources>>
      <4>1. g \in Build!SourceDirective \X Seq(Build!Source)
        BY BuildInputs DEF Build!InputTypes
      <4> QED BY <4>1
    <3>2. Build!Of(sources).terms \in Seq(Build!Source)
      BY <3>1, BuildInputs, Build!OfType, Build!TermsType
    <3> DEFINE now == policy'
               kept == Build!Of(sources).terms
    <3>3. now = Build!ExtendSources(policy, "connect-src", kept) /\ kept \in Seq(Build!Source)
          /\ turnstile \in BOOLEAN /\ Build!Configured(policy, turnstile, Admission)
      BY <2>5, <3>2 DEF PolicyInv
    <3> HIDE DEF now, kept
    <3>4. Build!Configured(now, turnstile, Admission)
      BY <3>3, BuildInputs, Build!ConfiguredExtend
    <3> QED BY <2>1, <2>2, <2>3, <2>4, <3>3, <3>4 DEF PolicyInv, now
  <2>6. CASE policy' = policy
    BY <2>1, <2>2, <2>3, <2>4, <2>6, PolicyUntouched
  <2> QED BY <2>2, <2>5, <2>6
<1>7. CASE BuildPolicy
  <2>1. /\ step = "configured" /\ step' = "built" /\ UNCHANGED <<scan, turnstile>>
        /\ Build!Build
    BY <1>7, SameCalls DEF BuildPolicy, After
  <2>2. policy' = policy /\ response' = response
    BY <2>1 DEF Build!Build
  <2>3. response = Build!NoResponse
    BY <2>1 DEF PolicyInv
  <2> QED BY <2>1, <2>2, <2>3, SameAdmission, PolicyUntouched
<1>8. CASE Respond
  <2>1. /\ step \in {"built", "serving"} /\ step' = "serving" /\ UNCHANGED <<scan, turnstile>>
        /\ Build!ConstantHeaders \/ \E n \in Nonce : Build!PerResponseHeaders(n)
    BY <1>8, SameCalls DEF Respond
  <2>2. policy' = policy
    BY <2>1 DEF Build!ConstantHeaders, Build!PerResponseHeaders
  <2> QED BY <2>1, <2>2, SameAdmission, PolicyUntouched
<1> QED BY <1>1, <1>2, <1>3, <1>4, <1>5, <1>6, <1>7, <1>8 DEF Next, Startup

\* What is known of a server whenever it is looked at.
ServerState ==
    ServerInv /\ PolicyInv /\ Build!RInv /\ per_response_nonce \in BOOLEAN

LEMMA ServerStates == Spec => []ServerState
<1>1. Spec => []PolicyInv
  BY PolicyInit, PolicyNext, ServerScans, PTL DEF Spec
<1>2. Build!Spec => []Build!RInv
  BY BuildInputs, Build!ResponseInvariance
<1>3. Build!Spec => []Build!TypeOK
  BY BuildInputs, Build!TypeCorrect
<1>4. Build!TypeOK => per_response_nonce \in BOOLEAN
  BY DEF Build!TypeOK
<1>5. ServerInv /\ PolicyInv /\ Build!RInv /\ Build!TypeOK => ServerState
  BY <1>4 DEF ServerState
<1> QED BY <1>1, <1>2, <1>3, <1>5, ServerScans, ServerUsesTheBuilder, PTL

\* Both instances name the same constructor, lists and absence of a response.
LEMMA SameAnswers ==
    /\ Builder!SpaWasm = Build!SpaWasm
    /\ Builder!NoResponse = Build!NoResponse
    /\ \A ss : Builder!Elements(ss) = Build!Elements(ss)
<1>1. Builder!SpaWasm = Build!SpaWasm
  BY SameLists, Zenon DEF Builder!SpaWasm, Build!SpaWasm, Builder!Sources, Build!Sources,
     Builder!NoneList, Build!NoneList
<1>2. Builder!NoResponse = Build!NoResponse
  BY Zenon DEF Builder!NoResponse, Build!NoResponse
<1>3. \A ss : Builder!Elements(ss) = Build!Elements(ss)
  BY Zenon DEF Builder!Elements, Build!Elements
<1> QED BY <1>1, <1>2, <1>3

\* What a browser reads of a response.
LEMMA ServerAnswers ==
    ASSUME ServerState, Responded
    PROVE  /\ step = "serving"
           /\ Build!Reads(response.csp, turnstile, DigestSet \cup response.nonce)
           /\ response.cache_control = "no-cache" <=> per_response_nonce
<1>1. response # Build!NoResponse
  BY SameAnswers DEF Responded
<1>2. step = "serving"
  BY <1>1 DEF ServerState, PolicyInv
<1>3. Build!Configured(policy, turnstile, DigestSet) /\ turnstile \in BOOLEAN
  BY <1>2 DEF ServerState, PolicyInv, Admission
<1>4. DigestSet \in SUBSET Hash
  BY DigestsAreHashes DEF ServerState
<1>5. Build!RInv /\ per_response_nonce \in BOOLEAN
  BY DEF ServerState
<1> HIDE DEF DigestSet
<1>6. /\ Build!Reads(response.csp, turnstile, DigestSet \cup response.nonce)
      /\ response.cache_control = "no-cache" <=> per_response_nonce
  BY <1>1, <1>3, <1>4, <1>5, BuildInputs, Build!ConfiguredAnswer
<1> QED BY <1>2, <1>6

\* The only inline scripts the header lets run.
LEMMA ServerRuns ==
    ASSUME ServerState, Responded
    PROVE  Runs \cap (Hash \cup Nonce \cup {Browser!AnyInline, "'unsafe-eval'"})
              = DigestSet \cup response.nonce
<1> DEFINE any == Browser!AnyInline
           eval == "'unsafe-eval'"
<1>1. Build!Reads(response.csp, turnstile, DigestSet \cup response.nonce)
  BY ServerAnswers
<1>2. Runs = Build!Allows(Build!Script, Build!Elements(Build!TermsRead(response.csp,
                                                                     Build!Script)))
  BY SameBrowser, SameAnswers DEF Runs, ScriptTerms, Build!Script
<1>3. any = Build!AnyInline
  BY SameBrowser
<1> HIDE DEF any
<1> QED BY <1>1, <1>2, <1>3 DEF Build!Reads, any

\* No shell steers the header, whatever it holds (the oracle shell_to_header of
\* csp-shell/fuzz; scan_normalised, Csp::with_scan, Policy::headers).
THEOREM ShellNeverSteers == Spec => []ShellCannotSteer
<1>1. ASSUME ServerState, Responded PROVE ShellCannotSteer
  <2> DEFINE spa == Builder!SpaWasm
  <2>1. spa = Build!SpaWasm
    BY SameAnswers
  <2>2. Build!Reads(response.csp, turnstile, DigestSet \cup response.nonce)
    BY <1>1, ServerAnswers
  <2> HIDE DEF spa
  <2>3. Browser!NamesRead(response.csp) =
            {spa[i].name : i \in DOMAIN spa} \cup (IF turnstile THEN {"frame-src"} ELSE {})
    BY <2>1, <2>2, SameBrowser DEF Build!Reads, Build!SpaNames
  <2>4. ASSUME NEW i \in DOMAIN spa,
               spa[i].name \in KeptRestrictions
        PROVE  Browser!TermsRead(response.csp, spa[i].name)
                   = Browser!WithoutNone(spa[i].value.terms)
    BY <2>1, <2>2, <2>4, SameBrowser DEF Build!Reads, Build!Untouched, KeptRestrictions
  <2>5. Runs \cap (Hash \cup Nonce \cup {Browser!AnyInline, "'unsafe-eval'"})
            = DigestSet \cup response.nonce
    BY <1>1, ServerRuns
  <2>6. response.cache_control = "no-cache" <=> per_response_nonce
    BY <1>1, ServerAnswers
  <2> QED BY <2>3, <2>4, <2>5, <2>6 DEF ShellCannotSteer, DigestSet, spa
<1>2. ServerState => ShellCannotSteer
  BY <1>1 DEF ShellCannotSteer
<1> QED BY <1>2, ServerStates, PTL

\* A server that finds the digest of the scan to be that of the shell on disk serves a
\* shell whose inline scripts all run, whatever was replaced when (scan_shell_at,
\* ScanResult::digest, Csp::with_scan, Policy::headers).
THEOREM FreshShellAlwaysRuns == Spec => []FreshShellRuns
<1>1. ASSUME ServerState, Responded, digest = disk, warnings = {}, Scanner!Ordinary(disk)
      PROVE  {Sha256(script) : script \in Scanner!InlineScripts(disk)} \subseteq Runs
  <2>1. step = "serving" /\ ServerInv
    BY <1>1, ServerAnswers DEF ServerState
  <2>2. CASE phase = "idle"
    <3>1. disk = <<>>
      BY <1>1, <2>1, <2>2 DEF ServerInv
    <3>2. Scanner!InlineScripts(disk) = {}
      BY <3>1, ScanInputs, Scan!EmptyDocument, SameReader
    <3> QED BY <3>2
  <2>3. CASE phase # "idle"
    <3>1. phase = "done" /\ shell = disk /\ Scan!SInv
      BY <1>1, <2>1, <2>3 DEF ServerInv, Scan!SInv, Scan!ScannerTypeOK
    <3>2. Scan!InlineScripts(disk) \subseteq Scan!Hashed
      BY <1>1, <3>1, SameReader, ScanInputs, Scan!FoundAll DEF Scan!FindsEveryInlineScript
    <3>3. ASSUME NEW script \in Scanner!InlineScripts(disk) PROVE Sha256(script) \in DigestSet
      <4>1. script \in Scan!Hashed
        BY <3>2, SameReader
      <4>2. PICK i \in DOMAIN hashes : hashes[i] = script
        BY <4>1 DEF Scan!Hashed, Scan!ToSet
      <4> QED BY <4>2 DEF DigestSet
    <3>4. DigestSet \subseteq Hash
      BY <2>1, DigestsAreHashes
    <3> HIDE DEF DigestSet
    <3>5. DigestSet \subseteq Runs
      BY <1>1, <3>4, ServerRuns
    <3> QED BY <3>3, <3>5
  <2> QED BY <2>2, <2>3
<1>2. ServerState => FreshShellRuns
  BY <1>1 DEF FreshShellRuns
<1> QED BY <1>2, ServerStates, PTL
=============================================================================
