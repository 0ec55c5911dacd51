-------------------------------- MODULE Risk --------------------------------
(***************************************************************************)
(* The phishing and clone risk of a captured page: independent signals     *)
(* that add up to a score from 0 to 100 and may name a brand the page      *)
(* imitates.                                                               *)
(*                                                                         *)
(* A site is a record: of its host [official, ip, platform, tld, depth,    *)
(* punycode, labelled, resembles], labelled FALSE for a bare suffix,       *)
(* resembles a sequence over BRANDS of sequences over the brand's labels   *)
(* of [same, lookalike, distance, length, token, inside, subdomain]; of    *)
(* the lookups [days, dns, certificate, listings], days UNKNOWN or >= 0;   *)
(* of the page [https, screenshot, favicon, references, forms, orphans,    *)
(* title, text, links, hops].  A brand is a number in BRANDS, 0 for none.  *)
(***************************************************************************)
LOCAL INSTANCE Integers
LOCAL INSTANCE Sequences
LOCAL INSTANCE FiniteSets
LOCAL INSTANCE FiniteSetsExt
LOCAL INSTANCE SequencesExt
LOCAL INSTANCE Functions

CONSTANT BRANDS   \* a sequence of the brands' keys, in the order they are tried

NoBrand == 0
UNKNOWN == -1
VISUAL_STRONG == 90
VISUAL_MODERATE == 84
FAVICON_MATCH == 95

WEIGHTS == [
    domain_age_under_7d |-> 25, domain_age_under_30d |-> 18, domain_age_under_90d |-> 10,
    domain_age_under_1y |-> 4, domain_age_over_3y |-> -8, tld_high_risk |-> 8,
    tld_elevated_risk |-> 4, ip_address_host |-> 15, hosting_platform |-> 6, deep_subdomain |-> 5,
    punycode |-> 8, homoglyph_brand |-> 30, typosquat_brand |-> 25, brand_in_domain |-> 20,
    brand_name_other_suffix |-> 20, brand_in_subdomain |-> 18, no_mx_record |-> 3, no_https |-> 8,
    cert_untrusted |-> 12, cert_hostname_mismatch |-> 15, cert_new |-> 5,
    visual_match_strong |-> 35, visual_match_moderate |-> 18, favicon_match |-> 30,
    brand_in_title |-> 15, brand_in_text_with_credentials |-> 8, links_to_brand |-> 15,
    password_field |-> 8, payment_fields |-> 10, credentials_cross_domain_form |-> 22,
    sensitive_fields_insecure |-> 15, cross_domain_redirect |-> 4, reputation_safe_browsing |-> 60,
    reputation_openphish_url |-> 60, reputation_openphish_host |-> 35]

\* Evidence that fired, with the brand it is about; what is clear or unavailable has no points.
_fired(signal, brand) == [signal |-> signal, points |-> WEIGHTS[signal], brand |-> brand]
When(condition, signal) == IF condition THEN <<_fired(signal, NoBrand)>> ELSE <<>>
FirstBrand(Test(_)) ==
    LET passing == {b \in DOMAIN BRANDS : Test(b)} IN IF passing = {} THEN NoBrand ELSE Min(passing)
BrandOf(evidence) == IF evidence = <<>> THEN NoBrand ELSE evidence[1].brand

(***************************************************************************)
(* The domain.                                                             *)
(***************************************************************************)
domain_age(days) ==
    When(0 <= days /\ days < 7, "domain_age_under_7d")
    \o When(7 <= days /\ days < 30, "domain_age_under_30d")
    \o When(30 <= days /\ days < 90, "domain_age_under_90d")
    \o When(90 <= days /\ days < 365, "domain_age_under_1y")
    \o When(days >= 3 * 365, "domain_age_over_3y")

HIGH_RISK_TLDS == {"top", "xyz"}
ELEVATED_RISK_TLDS == {"shop", "ru"}
\* Of a platform's tenants the suffix says nothing more.
suffix_signals(site) ==
    IF site.platform THEN When(TRUE, "hosting_platform")
    ELSE When(site.tld \in HIGH_RISK_TLDS, "tld_high_risk")
         \o When(site.tld \in ELEVATED_RISK_TLDS, "tld_elevated_risk")

\* Short names are one edit from ordinary words and match by look-alike characters only.
EditLimit(length) == IF length < 6 THEN 0 ELSE IF length < 9 THEN 1 ELSE 2
LabelSignal(r) ==
    CASE ~r.same /\ r.lookalike -> "homoglyph_brand"
      [] 0 < r.distance /\ r.distance <= EditLimit(r.length) -> "typosquat_brand"
      [] r.token \/ (r.length >= 5 /\ r.inside) -> "brand_in_domain"
      [] r.subdomain -> "brand_in_subdomain"
      [] OTHER -> "none"
\* The first label of a brand that the host resembles decides for the brand.
BrandSignal(site, b) ==
    LET signals == [i \in DOMAIN site.resembles[b] |-> LabelSignal(site.resembles[b][i])]
        telling == {i \in DOMAIN signals : signals[i] # "none"}
    IN IF telling = {} THEN "none" ELSE signals[Min(telling)]

lexical_signals(site) ==
    LET named == FirstBrand(LAMBDA b : \E i \in DOMAIN site.resembles[b] : site.resembles[b][i].same)
        imitated == FirstBrand(LAMBDA b : BrandSignal(site, b) # "none")
    IN IF site.official # NoBrand \/ ~site.labelled THEN <<>>
       ELSE IF named # NoBrand THEN <<_fired("brand_name_other_suffix", named)>>
       ELSE IF imitated # NoBrand THEN <<_fired(BrandSignal(site, imitated), imitated)>>
       ELSE <<>>

domain_signals(site) ==
    When(site.ip, "ip_address_host")
    \o domain_age(site.days)
    \o suffix_signals(site)
    \o When(site.depth >= 3, "deep_subdomain")
    \o When(site.punycode, "punycode")
    \o lexical_signals(site)
    \o When(~site.platform /\ site.dns = "no mail", "no_mx_record")

\* Without https nothing else is said of the certificate.
certificate_signals(site) ==
    IF ~site.https THEN When(TRUE, "no_https")
    ELSE When("untrusted" \in site.certificate, "cert_untrusted")
         \o When("mismatch" \in site.certificate, "cert_hostname_mismatch")
         \o When("new" \in site.certificate, "cert_new")

(***************************************************************************)
(* The looks: references are [brand, blank, similarity, favicon], of the   *)
(* screenshot and of the favicon in 1/100, UNKNOWN where either has none;  *)
(* brand may be NoBrand for a reference of a brand no longer listed.       *)
(***************************************************************************)
Compared(site) ==
    IF site.screenshot # "clear" THEN {} ELSE {i \in DOMAIN site.references : ~site.references[i].blank}
\* The first of the most similar.
BestMatch(site) ==
    LET best == {i \in Compared(site) : \A j \in Compared(site) :
                    site.references[j].similarity <= site.references[i].similarity}
    IN IF best = {} THEN 0 ELSE Min(best)

SameBrand(site, reference) == site.official # NoBrand /\ site.official = reference.brand
screenshot_signals(site) ==
    LET reference == site.references[BestMatch(site)]
    IN IF BestMatch(site) = 0 THEN <<>>
       ELSE IF SameBrand(site, reference) THEN <<>>
       ELSE IF reference.similarity >= VISUAL_STRONG THEN <<_fired("visual_match_strong", reference.brand)>>
       ELSE IF reference.similarity >= VISUAL_MODERATE THEN <<_fired("visual_match_moderate", reference.brand)>>
       ELSE <<>>
favicon_signals(site) ==
    LET alike == {i \in DOMAIN site.references : /\ ~SameBrand(site, site.references[i])
                                                 /\ site.references[i].favicon >= FAVICON_MATCH}
    IN IF ~site.favicon \/ alike = {} THEN <<>>
       ELSE <<_fired("favicon_match", site.references[Min(alike)].brand)>>
visual_signals(site) == screenshot_signals(site) \o favicon_signals(site)
VisualBrand(site) ==
    IF BrandOf(screenshot_signals(site)) # NoBrand THEN BrandOf(screenshot_signals(site))
    ELSE BrandOf(favicon_signals(site))

(***************************************************************************)
(* The page: forms are [fields, action], action same, other or none;       *)
(* orphans the fields outside any form; title and text the sets of brands  *)
(* mentioned; links a sequence of brands, NoBrand for other sites; hops    *)
(* the sequence of the sites a redirect passed through.                    *)
(***************************************************************************)
Fields(site) == site.orphans \union UNION {f.fields : f \in Range(site.forms)}
sensitive(fields) == fields \intersect {"password", "card"} # {}

title_signals(site) ==
    LET brand == FirstBrand(LAMBDA b : b \in site.title)
    IN IF brand = NoBrand THEN <<>> ELSE <<_fired("brand_in_title", brand)>>
text_signals(site) ==
    LET brand == FirstBrand(LAMBDA b : b \in site.text)
    IN IF brand = NoBrand \/ title_signals(site) # <<>> \/ ~sensitive(Fields(site)) THEN <<>>
       ELSE <<_fired("brand_in_text_with_credentials", brand)>>
link_signals(site) ==
    LET toward(b) == Len(SelectSeq(site.links, LAMBDA l : l = b))
        brand == FirstBrand(LAMBDA b : 2 * toward(b) >= Len(site.links))
    IN IF Len(site.links) < 5 \/ brand = NoBrand THEN <<>> ELSE <<_fired("links_to_brand", brand)>>
BrandContent(site) ==
    IF site.official # NoBrand THEN <<>>
    ELSE title_signals(site) \o text_signals(site) \o link_signals(site)

content_signals(site) ==
    When("password" \in Fields(site), "password_field")
    \o When("card" \in Fields(site), "payment_fields")
    \o When(sensitive(Fields(site)) /\ ~site.https, "sensitive_fields_insecure")
    \o When(\E f \in Range(site.forms) : sensitive(f.fields) /\ f.action = "other",
            "credentials_cross_domain_form")
    \o BrandContent(site)
    \o When(Cardinality(Range(site.hops)) > 1, "cross_domain_redirect")

\* listings: [source, listed], listed url, host, no or unchecked.  A listing of the host says
\* little of a brand's own domain or of a platform that many share.
Listing(site, l) ==
    CASE l.listed \in {"no", "unchecked"} -> <<>>
      [] l.source = "google_safe_browsing" -> When(TRUE, "reputation_safe_browsing")
      [] l.listed = "host" -> When(site.official = NoBrand /\ ~site.platform, "reputation_openphish_host")
      [] OTHER -> When(TRUE, "reputation_openphish_url")
reputation_signals(site) == FlattenSeq([i \in DOMAIN site.listings |-> Listing(site, site.listings[i])])

(***************************************************************************)
(* The assessment.                                                         *)
(***************************************************************************)
level_for(score) ==
    IF score >= 70 THEN "very_high" ELSE IF score >= 45 THEN "high" ELSE IF score >= 20 THEN "moderate" ELSE "low"

Evidence(site) ==
    reputation_signals(site) \o visual_signals(site) \o domain_signals(site)
    \o content_signals(site) \o certificate_signals(site)
Raw(site) == FoldLeft(LAMBDA sum, e : sum + e.points, 0, Evidence(site))

\* Whatever the domain is, for comparison.
NamedWhoever(site) ==
    LET named == SelectSeq(<<VisualBrand(site), BrandOf(lexical_signals(site)), BrandOf(BrandContent(site))>>,
                           LAMBDA b : b # NoBrand)
    IN IF named = <<>> THEN NoBrand ELSE named[1]
\* What the page looks like names a brand before what its domain and what its text name.
impersonated_brand(site) ==
    LET named == SelectSeq(<<VisualBrand(site), BrandOf(lexical_signals(site)), BrandOf(BrandContent(site))>>,
                           LAMBDA b : b # NoBrand)
    IN IF named = <<>> \/ site.official # NoBrand THEN NoBrand ELSE named[1]

assess(site) ==
    LET score == Max({0, Min({100, Raw(site)})})
    IN [score |-> score, level |-> level_for(score), impersonated_brand |-> impersonated_brand(site)]

(***************************************************************************)
(* Properties.                                                             *)
(***************************************************************************)
\* However many forms, references, links and brands match, a signal is counted at most once.
EvidenceCountsOnce(site) ==
    /\ IsInjective([i \in DOMAIN Evidence(site) |-> Evidence(site)[i].signal])
    /\ Len(lexical_signals(site)) <= 1

\* A brand is named exactly when some evidence is about a listed brand and the domain is no
\* brand's own, and then some evidence is about that brand.  Nothing but looks accuses a brand's
\* own domain, and only of imitating another brand.
ImpersonationHasEvidence(site) ==
    LET about == {e \in Range(Evidence(site)) : e.brand # NoBrand}
        brand == assess(site).impersonated_brand
    IN /\ brand # NoBrand <=> about # {} /\ site.official = NoBrand
       /\ brand # NoBrand => \E e \in about : e.brand = brand
       /\ site.official # NoBrand => \A e \in about : e \in Range(visual_signals(site)) /\ e.brand # site.official

\* A page that asks for one more secret, a domain that is younger or one more listing never
\* looks safer.
RiskIsMonotone(site, days) ==
    /\ \A field \in {"password", "card"} :
          assess([site EXCEPT !.orphans = @ \union {field}]).score >= assess(site).score
    /\ 0 <= days /\ days <= site.days => assess([site EXCEPT !.days = days]).score >= assess(site).score
    /\ \A i \in DOMAIN site.listings :
          assess([site EXCEPT !.listings[i].listed = "url"]).score >= assess(site).score
=============================================================================
