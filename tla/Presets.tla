------------------------------ MODULE Presets ------------------------------
(***************************************************************************)
(* The tables of csp-shell/src/presets: which sources a service loads      *)
(* from, in the directives they have to appear in.  A preset is a sequence *)
(* of entries, admitted in that order.                                     *)
(***************************************************************************)
EXTENDS Sequences

Entry(directive, sources) == [directive |-> directive, sources |-> sources]

\* cloudflare.rs
Turnstile ==
    << Entry("script-src", <<"https://challenges.cloudflare.com">>),
       Entry("frame-src", <<"https://challenges.cloudflare.com">>) >>

WebAnalytics ==
    << Entry("script-src", <<"https://static.cloudflareinsights.com">>),
       Entry("connect-src", <<"https://cloudflareinsights.com">>) >>

\* fathom.rs
FathomCloud ==
    << Entry("script-src", <<"https://cdn.usefathom.com">>),
       Entry("connect-src", <<"https://cdn.usefathom.com">>),
       Entry("img-src", <<"https://cdn.usefathom.com">>) >>

\* google.rs
TagManager == << Entry("script-src", <<"https://www.googletagmanager.com">>) >>

Analytics ==
    << Entry("script-src", <<"https://www.googletagmanager.com">>),
       Entry("connect-src", <<"https://*.google-analytics.com",
                              "https://*.analytics.google.com",
                              "https://*.googletagmanager.com">>),
       Entry("img-src", <<"https://*.google-analytics.com",
                          "https://*.googletagmanager.com">>) >>

Fonts ==
    << Entry("style-src", <<"https://fonts.googleapis.com">>),
       Entry("font-src", <<"https://fonts.gstatic.com">>) >>

Recaptcha ==
    << Entry("script-src", <<"https://www.google.com/recaptcha/",
                             "https://www.gstatic.com/recaptcha/">>),
       Entry("frame-src", <<"https://www.google.com/recaptcha/">>) >>

\* plausible.rs
PlausibleCloud ==
    << Entry("script-src", <<"https://plausible.io">>),
       Entry("connect-src", <<"https://plausible.io">>) >>

\* sentry.rs; session_replay admits a scheme the way a table admits hosts.
Loader ==
    << Entry("script-src", <<"https://browser.sentry-cdn.com",
                             "https://js.sentry-cdn.com">>) >>

SessionReplay == << Entry("worker-src", <<"blob:">>) >>

\* stripe.rs; checkout admits the entries of elements first.
StripeElements ==
    << Entry("script-src", <<"https://js.stripe.com">>),
       Entry("frame-src", <<"https://js.stripe.com", "https://hooks.stripe.com">>),
       Entry("connect-src", <<"https://api.stripe.com">>) >>

Checkout == StripeElements \o << Entry("frame-src", <<"https://checkout.stripe.com">>) >>

\* The presets whose origins are literals of the crate (presets::admit).
Origins ==
    [ turnstile |-> Turnstile, web_analytics |-> WebAnalytics, fathom |-> FathomCloud,
      tag_manager |-> TagManager, analytics |-> Analytics, fonts |-> Fonts,
      recaptcha |-> Recaptcha, plausible |-> PlausibleCloud, loader |-> Loader,
      session_replay |-> SessionReplay, elements |-> StripeElements, checkout |-> Checkout ]

\* The directives of the presets whose origin the caller supplies, per service.
FathomDirectives == <<"script-src", "connect-src", "img-src">>
MatomoDirectives == <<"script-src", "connect-src", "img-src">>
PlausibleDirectives == <<"script-src", "connect-src">>
IngestDirectives == <<"connect-src">>

OriginDirectives ==
    [ custom_domain |-> FathomDirectives, matomo |-> MatomoDirectives,
      self_hosted |-> PlausibleDirectives, ingest |-> IngestDirectives ]

\* presets::admit_origin as a table: the one origin in each of the directives.
OriginTable(service, origin) ==
    [i \in DOMAIN OriginDirectives[service] |->
        Entry(OriginDirectives[service][i], <<origin>>)]
=============================================================================
