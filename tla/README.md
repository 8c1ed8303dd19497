# csp-shell, specified in TLA+

`csp-shell` builds a Content-Security-Policy for the HTML document ("shell") of a single-page
application: a server program scans the shell for inline scripts, assembles a policy around their
digests with a builder, and asks the built policy for headers, once per response. `csp-policy` is
the typed vocabulary underneath. Every mistake in this code is silent: the header looks right, and
a browser refuses the scripts or permits what nobody decided to permit. These modules state what
the builder and the rendered policy have to get right, check it with TLC on small instances, and
prove most of it with TLAPS for all instances.

## The system

| Component | State it keeps | Operations | Interacts with |
|---|---|---|---|
| Source expressions and lists, `csp-policy/src/source.rs` | a list is `'none'` or a vector of expressions in order | `of`, `push`, `retain`, `remove`, rendering; parsing of an expression | held by directives |
| Typed policy, `csp-policy/src/policy.rs`, `directive.rs`, `name.rs` | a vector of directives, addressed by name | `set`, `with`, `extend_sources`, `source_list_mut`, `remove`, `to_header_value` | held by the builder |
| Builder, `csp-shell/src/csp.rs` (`Csp`) | a typed policy and whether a nonce slot is reserved | the constructors, `directive`, `extend`, `set`, `remove`, `remove_source`, `retain_sources`, `with_scan`, three methods that each name one expression, `per_response_nonce`, `build` | is given a scan's digests; is passed through presets |
| Rendered policy, `csp.rs` (`Policy`, `Headers`) | a constant text, or the two halves around a nonce | `headers`, `is_per_response` | mints nonces; read by a browser |
| Presets, `csp-shell/src/presets/` | tables of origins | one function per service | call the builder, seeding what is absent |
| Nonces, `csp-shell/src/nonce.rs` | none | `mint` | the operating system's random source |
| Scanner, `csp-shell/src/scan.rs` | cursor, digests, warnings of one scan | `scan_shell`, `scan_shell_at` | reads the shell; its result goes to `with_scan` |
| Term parsers, `host.rs`, `hash.rs`, `base64.rs`, `sandbox.rs`, `trusted_types.rs`, `report.rs` | none | text to value, value to text | refuse before anything is stored |
| The server that uses both crates, the README of csp-shell and the fuzz oracle `shell_to_header` | the scan, the policy, a copy of the digest | scan, build, respond | the shell on disk, which may be replaced under it |

Nothing in the crates runs concurrently, and nothing is persisted. What is hard is the *sequence*: the
builder takes its calls in any order, each call depends on what the earlier ones left, and the
meaning of the result is decided elsewhere, by a browser that ignores the second directive of a
name, resolves an absent directive through a chain of others, and lets one expression switch
another off. The hazards are listed with their lines in `PROJECT.json`; the main ones:

- a directive created by a preset or a scan cuts its loads off the list they were falling back to;
- a name set twice, or a directive moved, on some path through set, extend, remove and seeding;
- an expression that has a method of its own arriving as data, directly or through a fallback;
- a nonce slot reserved and `script-src` removed, emptied or replaced afterwards; the text of the
  header is then spliced around a directive that has just been created, or that is first or last;
- a nonce or a header shared by two responses;
- a policy that has gone stale against a shell replaced under the process, and the content of a
  shell reaching a header through its digests;
- a text that one parser cuts in another place than a browser, or two spellings of one source that
  are not found equal;
- a rounded division that disagrees with the base64 encoder.

## Modules

| Module | Models |
|---|---|
| `CspTerms` | the names and source expressions; hosts, schemes, digests and nonces are elements of sets |
| `SourceLists` | `SourceList`: `'none'` or a sequence, `Push`, `Of`, `Retain`, rendering |
| `TypedPolicy` | `Policy`: `Set`, `ExtendSources`, `RetainIn`, `Remove`, `ToHeaderValue` as operators on sequences of directives |
| `Presets` | the tables of origins, service by service |
| `CspBuilder` | the state machine: one action per public method of `Csp`, `Build`, and `headers()` in its two forms |
| `UserAgent` | the browser, external: which list governs a load, what a list permits, how a header is read back |
| `CspRequirements` | the type invariant and the properties of the builder and of the headers |
| `PolicyContract` | the abstract specification: a policy is a set of expressions per directive |
| `CspBuilderRefines` | the refinement mapping from `CspBuilder` to `PolicyContract` |
| `MCCspBuilder` | values of the constants for TLC |
| `Markup` | a document as tokens, the runs of characters either reader tells apart |
| `ShellScanner` | the state machine of `scan_shell`: preprocessing, then one action per way through the loop |
| `HtmlReader` | the browser's reading of the same document, external: part of the HTML tokenizer |
| `ScannerRequirements` | what the result of a scan owes that browser |
| `MCShellScanner` | the documents TLC scans |
| `Deployment` | a server on top of `ShellScanner` and `CspBuilder`: it reads the shell, scans, builds, responds, while the shell is replaced |
| `DeploymentRequirements`, `MCDeployment` | what the header owes the shell it is served with; shells for TLC |
| `TermText` | texts as sequences of tokens, and the operations of `str` the parsers use |
| `Base64Lengths` | the length arithmetic of `base64.rs` and `hash.rs` |
| `TermParsers` | every parser and every rendering of a term, as operators on texts |
| `Configuration` | one directive of each grammar filled from texts: accepted, refused, digested, minted, and rendered |
| `SourceGrammar` | the grammar of source expressions as the comments state it, as a reference |
| `ConfigurationRequirements`, `MCConfiguration` | what the list and the line owe the texts; texts for TLC |
| `IterationTheorems` | lemmas about loops |
| `CspBuilderProofs` | lemmas about lists and policies; the inductive invariant of `CspBuilder`: types, names, repeats, order |
| `ContractProofs` | `CspBuilder` implements `PolicyContract`; what presets and scans mean to a browser, and that presets compose |
| `ResponseProofs` | the rendered header, its nonce, and how it reads back |
| `ScannerProofs` | the scanner against the browser's tokenizer |
| `DeploymentProofs` | the server, from the proofs about its two parts |
| `TermProofs` | texts, parsers and renderings; that what is accepted reads back; the base64 lengths |
| `ConfigurationProofs` | the invariant of `Configuration`; the line and its words; the parsers against the grammar |

`CspTerms` < `SourceLists` < `TypedPolicy` < `CspBuilder` (with `Presets`) form a chain of
`EXTENDS`; `CspRequirements` adds `UserAgent`. A loop of the code is a function of the number of
elements it has visited, so that the modules can be proved about.

### State and actions of CspBuilder

`policy` and `per_response_nonce` are the two fields of `Csp`; `rendered` is the field of the built
`Policy` (and tells whether `build` has consumed the builder); `response` is what the last
`headers()` returned. `minted`, `named`, `handed` and `calls` record what happened, for the
properties and the bound: the nonces minted, the expression-naming methods called, whether the
caller handed in a whole list that repeats an expression (`Csp::set` stores it as it is), and the
number of calls.

An action is one call, with everything the call does: `WithScan` and `Admit` seed the absent
directive and extend it, `Build` creates a missing `script-src` and splits around it.
`SetDirective` is both `directive` and `set`, which differ in the types they take;
`RetainSources` is `retain_sources` and, keeping all but one expression, `remove_source`.
`PerResponseNonce(TRUE)` is also the nonce presets. A call that `check_routing` refuses returns an
error: the action leaves the policy alone and the caller goes on with the builder it had (it is
`Clone`). A preset whose origin does not parse is refused before anything is stored and is not an
action.

### State and actions of ShellScanner

`shell` is the argument, `html` the preprocessed document, `cursor` the local of `scan_normalised`;
`digest`, `hashes` and `warnings` are the fields of `ScanResult`, the warnings as a set; `phase` says
whether the function was called and has returned. `ScanShell` is the call, up to the walk. Each
action of `Walk` is one way through the loop body: it returns (`Finish`, `NameAtTheEnd`, `TagWithoutEnd`,
`ElementWithoutEnd`) or goes on from a later position (`SkipOtherName`, `SkipExternal`,
`HashInline`). A SHA-256 digest is the text it covers, as if no two texts had the same.

`HtmlReader` follows the HTML standard, which the comments of `scan.rs` appeal to: preprocessing of
the input stream, attributes quoted and not, `src` with or without a value, comments, and script
text with its escaped and double escaped states. Elements whose text is not markup (`title`,
`style`, `textarea`) are not in it.

### State and actions of Deployment

`Deployment` holds the variables of `ShellScanner` and `CspBuilder`, instantiated, and three of its
own: the shell on disk, whether the preset was applied, and what the server has done last. A step of
the server is an action of one of the two modules: `ReadShell` and `Walk` are `scan_shell_at`,
`AdmitScan` is `with_scan` of its result (`Sha256` turns the text of a script into a source
expression), `ChooseNonce`, `ChoosePreset` and `AddOrigins` are the choices of the oracle
`shell_to_header`, `BuildPolicy` and `Respond` the rest of it. `CannotRead` is the error of
`scan_shell_at` followed by the fail-open posture its documentation shows. `Deploy` puts the first
shell in its place and `Replace` another one under the built policy.

### State and actions of Configuration

A text is a sequence of tokens: the bytes that have a part in some grammar, words (each also in
capitals), numerals, and runs of base64 characters of which only the length is kept. A blank stands
for any byte a policy cannot carry. A parser is an operator from a text to the set of what it
accepts, empty when it refuses.

`directive` is the name of a directive, one for each grammar of `name.rs`; `entries` are its values;
`flags` are the variant and the two fields of `TrustedTypes`; `offered` records the texts. `Offer` is
a parser that accepts followed by `push_unique` (or the replacement of the only value), `Refuse` one
that does not, `Digest` and `Mint` are the values the crate encodes itself, `Wildcard` and
`AllowingDuplicates` the two flags. `Line` is how the directive renders.

### The browser

`UserAgent` is not code of this repository, but every promise the repository makes about a policy
is about what a browser does with it, so the comments of the code are taken at their word: the
first directive of a name wins, an absent one is resolved through a chain and is unrestricted at
its end, a hash or a nonce switches `'unsafe-inline'` off, `'strict-dynamic'` switches URL
expressions off for scripts. What a list permits is a set of capabilities: a URL expression stands
for "a load only this expression matches", so two hosts never cover each other. A load has the
capabilities of its class: scripts and styles may stand inline (`InlineContent`) and have keywords of
their own (`Enabled`), while workers, images and the rest are loaded from URLs and nothing else. What
`'strict-dynamic'` or a nonce of a governing `script-src` does to a worker is left out. `ChainOfTheCode` is
the chain the repository's comments describe; `ChainOfTheStandard` is the one of CSP Level 3, which
differs for workers and is used by one run.

## Runs

Twelve runs, six of which look for a counterexample. The runs of the builder explore every sequence of `MaxCalls` calls over the given inputs, the
refused calls included, each followed by `build` at any point and by up to two responses (two nonces). The runs
of the scanner scan every document that up to `MaxPieces` pieces of markup make; those of the
configuration offer one text of tens of thousands, or up to `MaxOffers` of a few. These turn deadlock
checking off because the program simply stops: no more calls, or the scan has returned. The server
does not stop, and its run checks for deadlocks.

The builder and the configuration have no fairness, as nothing makes a caller call again. The
scanner has weak fairness of `Walk`: nobody has to call it, but once called it is one loop that
nothing interrupts. The server has weak fairness of everything it does before it serves, which is
straight-line code around that loop; it assumes none of those who replace the shell or ask for a
response.

| Run | Checks | Bounds |
|---|---|---|
| `Bookkeeping` | `TypeOK`, `UniqueNames`, `UniqueSources`, `EvalOnlyByName`, `OrderKept` | 4 calls; lists that replace, are `'none'`, repeat an expression or are refused |
| `Meaning` | `PresetsWidenRestricted`, `ScanAddsItsHashes`, `SpliceIsAppend`, `HeaderReadsAsThePolicy`, `NonceIsPerResponse` | 4 calls, two nonces; every level of the fallback chains, empty lists, expressions that switch others off; `script-src` first, last, alone, between, absent, empty and `'none'` |
| `Contract` | `PresetsCompose`, `KeepsContract` | 3 calls; every pair of presets on every policy on the way |
| `Scanning` | `ScannerTypeOK`, `FindsEveryInlineScript`, `HashesAreOfScripts` | documents of 5 pieces (tags whole and cut short, external scripts, comments, text); opening tags of 5 tokens (quotes, `/`, `=`, `src`, `>`, space, a letter); script texts of 4 (CR, LF, byte order mark, U+0000, names of tags) |
| `Deployment` | `FreshShellRuns`, `ShellCannotSteer`, `StartupEnds` | shells of 3 pieces (whole scripts, one with CR LF, external tags, parts of tags, CR, a byte order mark), or none that can be read; 3 configurations; with and without nonce and preset; 3 replacements, one of which differs from a shell in its first byte only; two responses |
| `Configuration` | `ConfigurationTypeOK`, `LineReadsBack`, `ListIsWhatTheTextsMean`, `WrittenByTheGrammar`, `TrustedTypesPermitsTheNames` | every text of 3 tokens out of 20 and of 5 out of 6; host sources put together from 7 schemes, 10 hosts, 10 ports and 8 paths; quoted expressions from 9 prefixes, base64 of lengths on both sides of every limit and 0 to 3 `=`; every ordered pair of 13 spellings |

Three or four calls are enough for the interesting cases: the longest dependency in the code is
fallback directive, nearer fallback directive, seeding call, repeated call. The start from
`spa_wasm` adds ten directives to that.

- `UniqueNames`, `UniqueSources` and `OrderKept` are about the vector. `UniqueSources` excepts only
  lists the caller handed in whole.
- `EvalOnlyByName`: `'unsafe-eval'` is in no list unless `allow_unsafe_eval` was called. It cannot
  come in as data, from a fallback, or from a preset.
- `PresetsWidenRestricted`: whatever a *restricted* load was permitted before a preset, it is
  permitted afterwards, although the preset creates directives that no longer fall back.
- `ScanAddsItsHashes`: the scanned scripts run, and nothing else is lost but what `'unsafe-inline'`
  gave, which any hash switches off.
- `SpliceIsAppend`: the two halves with a nonce between them are the text that rendering a policy
  with the nonce in `script-src` would give. `HeaderReadsAsThePolicy` reads the text back token by
  token. `NonceIsPerResponse`: a response's `script-src` admits its own nonce and no other's.
- `PresetsCompose`: on any such policy, two presets give the same lists in both orders, although the
  first to touch a directive seeds it, and a preset applied twice changes nothing more.
- `KeepsContract`: a call changes one set of expressions in the one way its name says; scans and
  presets take nothing away, start what they create from what was in force, and add no expression
  that has a method of its own.
- `FindsEveryInlineScript`: a scan without warnings of an ordinary document has the hash of every
  inline script a browser will run. `HashesAreOfScripts`: it has no hash of anything that is not the
  text of a script element, provided the document ends between two elements. Five pieces hold two elements and something between or around them;
  five tokens in a tag hold two attributes. A document is *ordinary* when the opening of a script is
  written only where it opens one or in the text of an inline script, quotes stand only around the
  values of attributes, and values that hold a slash or `src` are quoted. TLC found each of these conditions to be needed: without the
  last, `<script data-a=/src=x>` is silently taken for an external script.
- `FreshShellRuns`: whoever compares the digest of the scan with the shell on disk and finds them
  equal serves a shell whose inline scripts all run under the header that goes with it.
- `ShellCannotSteer`: the header names the directives of the application and of the preset, keeps
  what they restrict, and the inline scripts it lets run are exactly those the scan found and the
  one with the nonce of the response. `StartupEnds`: the server gets to that policy whatever the
  shell holds, because every way round the scanner's loop moves the cursor.
- `LineReadsBack`: the rendered line, cut at its blanks and given back to the parsers, yields the very
  values that were put in; nothing ends the directive early.
- `ListIsWhatTheTextsMean`: the parsers cut a text once, from left to right, at the first `://`, the
  first `/` and the last `:`; the grammar allows any cut that puts every piece in its place. Both
  agree on what is a source and on which one, and a list holds each source once whatever its
  spelling.
- `WrittenByTheGrammar`: whatever text an entry came from, one outside the grammar or a value the
  crate encoded included, what is rendered for it is inside the grammar and means that very entry;
  a digest of the wrong length, which a browser ignores, is the only exception.
- `TrustedTypesPermitsTheNames`: what a browser takes from the words of `trusted-types` is what was
  accepted, no name being taken for the wildcard or a keyword.

Every property is broken by at least one mutant listed in `PROJECT.json`; the mutated definitions
stand just before the ones they replace.

### Statements of the repository that the code does not meet

Six runs each find a counterexample to a sentence of the repository:

| Run | Sentence | What happens |
|---|---|---|
| `RemovalTightens` | "removal can only loosen a policy", csp.rs:194 | the load falls back to a list that says less |
| `RoutedByData` | a routed expression in the policy "arrived through the method that names it", csp.rs:221 | `'unsafe-inline'` in `default-src` is data, and a scan seeds `script-src` from it |
| `NonceNarrows` | the seeded policy "permits exactly what the policy permitted before, plus the nonce", csp.rs:325 | the nonce switches the inherited `'unsafe-inline'` off |
| `WorkerFallback` | "A browser walks this chain, so seeding ... has to walk the same one", csp.rs:463 | for workers a browser consults `script-src` before `default-src`, the code does not: `session_replay` on `default-src 'self'; script-src 'self' cdn` creates `worker-src 'self' blob:`, and workers from `cdn` are refused |
| `ScanHides` | "Anything accepted is reported in `ScanResult::warnings`", README of csp-shell, line 369 | `<script><!--<script></script></script>`: the opening of a script in escaped script text hides the end of the script from the scanner, which hashes another text, without a warning; the opening of a script in a comment hides a later one the same way |
| `NonceCase` | `ParseError::Malformed` for a nonce "carrying less than 128 bits", hash.rs:251 | `'NONCE-'` with 16 characters is accepted, the prefix counting as part of the value |

Others are known and have no run of their own. The properties state them as conditions:

- "A preset only ever widens" (presets/mod.rs:23): on a policy that restricts nothing, the preset
  creates the first restriction; `PresetsWidenRestricted` is about restricted loads.
- `HashSource::new` compares one length, so that 44 characters without padding pass for a SHA-256
  digest, as do 42 and an `=` (hash.rs:127); a scheme keeps a colon of its own (`https:://a` is
  accepted); `a/x://y` is refused, although the grammar of host.rs:309 allows a path with `://` in
  it. These are the operator `Departure` of `ConfigurationRequirements`.
- An empty `report-uri` or `require-trusted-types-for` renders as a bare name, although name.rs:27-30
  gives them values; only `sandbox` means something alone.

## Proofs

What follows holds for every set of hosts, schemes, digests, nonces and words, every set of inputs
of the right types, every number of calls, every document and every text.

| Module | Theorems |
|---|---|
| `CspBuilderProofs` | `TypeCorrect`, `NamesAreUnique`, `SourcesAreUnique`, `EvalIsNamed` (each `Spec => []P`) and `OrderIsKept` (an action property) |
| `ContractProofs` | `BuilderKeepsContract`: `Spec => KeepsContract`, the refinement; `PresetsOnlyWiden`, `ScansAdd` (action properties), `PresetsComposeAlways` |
| `ResponseProofs` | `SpliceAppends`, `HeaderReads`, `NonceIsItsOwn` |
| `ScannerProofs` | `ScannerTypes`, `FindsAll`, `MakesUpNone`, `RoundsAdvance` |
| `DeploymentProofs` | `ServerUsesTheBuilder`: `Spec => Build!Spec`; `ShellNeverSteers`, `FreshShellAlwaysRuns` |
| `TermProofs` | `AcceptedSourcesReadBack`; `UnpaddedIsContent`, `PaddedIsTheWhole`, `DigestsAreAccepted`, `NonceFloorIsExact`, `MintedNoncesAreAccepted` |
| `ConfigurationProofs` | `ConfigurationTypes`, `LineReadsBackAlways`, `ListIsWhatTheTextsMeanAlways`, `WrittenByTheGrammarAlways`, `TrustedTypesPermits` (each `Spec => []P`) and `ParserReadsTheGrammar` |

The assumptions are those the modules name, and TLC evaluates them in every run: the kinds of
expressions are disjoint (`DistinctTerms`) and `'none'` is none of them (`NoneIsNoSource`); no term
holds a semicolon (`SeparatorIsNoTerm`; every type of csp-policy refuses the byte, which for the
parsers of sources is `AcceptedSourcesReadBack`, and for the others part of `Fits`, below); inputs have their types (`InputTypes`), presets
list hosts and schemes (`PresetTypes`), minted nonces are fresh (`NoncesAreFresh`); a document is a
sequence of tokens (`DocumentTypes`). Of texts: no token is spelt like another, and words, numerals and
punctuation are kept apart (`DistinctTokens`), a token has a length, an `=` the length one
(`TokenSizes`), a numeral a number (`NumeralTypes`); what is offered to a parser is a text
(`TextTypes`), what the crate encodes has a length the model has a run for (`EncodedRuns`), and the
bounds are numbers (`BoundTypes`). A server assumes the same of what it passes on (`ServerInputs`),
and that the digest of a stretch of a shell is a hash source (`DigestsAreSources`; `sha256_source`
makes nothing else). That what `UserAgent` writes for an inline script nothing lists is not itself an
expression (`AnyInlineIsNoSource`, `MarkerIsNoSource`) is about the notation only.

### The vector

None of the properties is inductive by itself. A preset copies a fallback's list into a new
directive, so `EvalOnlyByName` needs to know that *every* list is free of `'unsafe-eval'`;
`OrderKept` needs names to be unique, because positions are found by name. The inductive invariant
`IInv` therefore says that the policy is *fine*: it consists of directives over the lists that are
possible given what was called (`Fine(eval, rep)`: lists without `'unsafe-eval'` unless its method
was called, without repeats unless a list with repeats was handed in), each name once. The argument
has two layers:

1. The lemmas on lists and policies: `Push`, `PushEach`, `Of` and `Retain` yield lists, with exactly the
   expected elements, and repeat nothing. Over *any* set of lists closed under the operation at
   hand, `Set`, `ExtendSources`, `RetainIn` and `Remove` stay among the policies over that set, and
   keep directives in place (`NamesKept`) or at least in order (`RemoveOrder`).
2. The lemmas on calls: one per kind of call (`SetDirectiveStep`, `ScanStep`, `AdmitStep`, ...),
   joined in `NextPolicy`; the more calls are made the more lists are possible (`FineGrows`).

The loops of the code are recursive functions. That such a function is defined is proved once
(`IterationTheorems!IterationExists`) from the existence of a shortest counterexample, and its
values are then followed round by round (`InductionUpTo`).

### The contract and the presets

`ContractProofs` reads the vector by name: each operation is described by what it does to the list
of every name. The fallback of the code is then shown to be a tree: the expressions in force for a
name (`InForce`) are those of its own list or those in force for its parent (`ForceOfAbsent`). From the two
follows what creating and extending a directive does to the list in force for *every* other one
(`Widened`: nothing is lost, and nothing but the given expressions is new). The calls that touch
several directives in a loop are followed by what the loop has touched so far. Each action maps to
one of the contract's or to a stutter.

Its second half says of a browser that what it permits for a load grows with the list in force
(`AllowsGrows`) as long as no added expression switches another off, which hosts and schemes do not.
That presets compose needs the lists themselves, up to their order: each expression is listed under a name after
two presets exactly if it was in force there or a preset lists it, whichever seeded the directive first.

### The header

The builder's own invariant does not know the nonces. `RInv` adds that no list holds a nonce still to be
minted (`Fresh`, kept by every call because no caller can write one down), that what was built is
the rendering of the policy there is, whether split or whole, and that the last response is one of
its `Answers`. Splicing is then shown to be appending by rendering the directives before, at and
after `script-src` separately, with `script-src` first, last, alone, empty or `'none'`. Reading back
goes through the positions at which each directive begins and ends in the text: separators stand there and
nowhere else because no term is a semicolon, so the browser's segments are the directives, and its
words are their lists but for a `'none'`.

### The scanner

The scanner looks at a document through a few searches; the browser goes through it token by token,
from one mode of its tokenizer to another. `SInv` says where the browser stands when the scanner has got to its cursor
(`Met`): outside any script, or in one that has a `src` and is not hashed (`Behind`), at the end of a
name that is about to turn out another than `script` (`InOtherName`), or at the closing name of a
script whose text is hashed (`InClosingName`); and that up to there every inline script the browser
has seen has its hash, and every hash is a script's. Each way through the loop has a lemma of its own
(`SkipOtherNameMeets`, `SkipExternalMeets`, `HashInlineMeets`, ...) that follows the browser from one
cursor to the next. They rest on three agreements: the preprocessing of the two is the same
(`StreamsAgree`), the quotes the scanner counts to find the end of a tag are those the browser is
inside of (`AttributesRead`), so that both find the same `>` and the same `src` (`SrcRead`), and both
end the text of a script at the same place (`TextRead`). The conditions of `Ordinary` are used where
they bite: the last of them in `SrcRead`, the one about quotes in `AttributesRead`.

`RoundsAdvance` needs less of `SInv`: a cursor within the document. Every way through the loop
returns or leaves a smaller natural number of tokens to scan (`Left`), so that a scan of `n` tokens
goes round at most `n + 1` times. This is the safety half of `StartupEnds`; it holds of every document,
ordinary or not.

### The server

`Deployment` instantiates the modules of the scanner and of the builder, and `DeploymentProofs`
those of their proofs, the builder for every list of digests a scan may give instead of none. It
begins by showing that each pair of instances defines the same (`SameScan`, `SameCalls`,
`SameBrowser`, ...). A server is then one of the programs the other proofs are about: `ServerScans`
says that the scan keeps `SInv`, that what is hashed stands in the document (`Enclosed`, so that its
digest is a hash source), and of which document it is when the server has come to each step;
`ServerUsesTheBuilder` that every step is a call of the builder or none.

Neither says which calls were made, and the two properties depend on it. `PolicyInv` therefore
follows the policy from `spa_wasm` on: it is `Configured`, that is, it has the directives of the
constructor (and `frame-src` once the preset was chosen), four of them as they were constructed, and
its `script-src` lists the digests admitted so far and nothing else that lets an inline script run
(`ConfiguredScan`, `ConfiguredTurnstile`, `ConfiguredExtend`, one lemma per call).
`ConfiguredAnswer` adds the nonce of the response and reads the header back. `ShellNeverSteers` is
what it says; `FreshShellAlwaysRuns` follows with `FoundAll`, the state form of `FindsAll`, as the
shell on disk is the one that was scanned if it has its digest. A server that has read none holds,
in the model, the digest of an empty document, in which there is no script.

### The texts

The parsers and renderings are operators, and the loops of `str` they use (`Length`, the cut at
blanks, a search from either end) recursive functions; `TermProofs` says of each by what
property of its argument its value is determined, never how it is computed. A text is cut by its
parser at one place in each respect: `IsCut` says what those places are, `ParserCut` that the parser
cuts there, `OneCut` that no other cut has the property. `IsLayout` says where the parts of a host
source stand once it is rendered, and a layout is a cut, so that a rendering is cut where it was
joined (`HostReadsBack` and its like for the other kinds, together `AcceptedSourcesReadBack`).
What is added to that for encoded values is arithmetic on lengths: what a rounded division leaves
for padding is what the encoder writes.

That a line reads back is not inductive, as a line does not tell what the next text adds to it. The
invariant of `ConfigurationProofs`, `IInv`, is about the entries: each of them fits the directive
(`Fits`: it is of a kind the directive takes, it renders in the bytes a policy can carry and not as
`'none'`, and the parser of the directive reads the rendering back as this entry), none repeats
another, and together they are what the parsers accept in the texts offered so far, with what the
crate encoded itself (`ContentFine`). The step that keeps it needs every parser to accept at most one
value of a text (`ReadIsOne`); otherwise a list might be missing a reading of an offered text.

- `LineReadsBackAlways` and `TrustedTypesPermits` follow the line from word to word: its pieces between
  blanks are the name and the renderings (`LineIsRead`), because no rendering has a blank in it.
- `ParserReadsTheGrammar` compares two definitions that have little in common. The grammar accepts a
  text under *any* three cuts whose pieces are in their alphabets. On a text that is no departure
  such cuts are the one cut of the parser (`GrammarCut`), because the alphabets on both sides of each
  mark exclude it; in the other direction, what the parser accepts is cut as the grammar demands
  (`AcceptedInGrammar`). Between quotes the tags of nonces and digests are compared
  (`QuotedMeant`), where the floor of 128 bits turns out to be the grammar's 22 characters (`NonceFloor`).
  With `ContentFine` this is `ListIsWhatTheTextsMeanAlways`.
- `WrittenByTheGrammarAlways` has no condition on the texts. A rendering is never a departure
  (`SourceUndeparted`), except for the digest its statement excepts, so that the parser, which reads the
  rendering back as the entry, and the grammar agree on it.

### Model-checked only

- `StartupEnds`, a liveness property, which is out of the prover's reach. `RoundsAdvance` proves the
  step it rests on; that the server's other steps follow in turn is TLC's.
- The six runs that find a counterexample.

## Not modelled

- Which error a refusal carries, and its wording (`error.rs` of both crates).
- The bits a base64 value encodes: of a run of characters its length is kept. SHA-256 is taken to be
  injective.
- `Scheme::Other` of a name that has a variant of its own: its `SchemeName` renders the same, and no
  parser makes one, but a caller can, and it would be another entry of a list.
- In `CspBuilder`, directives that are not source lists keep the words they render, unread, as the
  builder does; how they come about is in `Configuration`.
- The random source behind nonces, beyond the freshness of its values.
- Parsing the names of directives, the accessors and conversions, the decoding of bytes into calls
  by the fuzz targets, and build automation.
- Caches between the server and a browser: `Headers.cache_control` tells the caller not to, and
  nothing in the code could enforce it.
