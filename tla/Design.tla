------------------------------- MODULE Design -------------------------------
(***************************************************************************)
(* Design tokens from the computed styles of a page: colors clustered and  *)
(* given roles, sizes, spacing and radii counted, and the colors a vision  *)
(* model claims checked against those observed.                            *)
(*                                                                         *)
(* A color is [l, a, b] in 1/1000 of OKLab, one of a and b zero, so that   *)
(* its hue is a multiple of 90 degrees.  A computed value is [color,       *)
(* alpha], alpha in 1/100.  An element of the page is [background, color,  *)
(* border, area, fold, button, link, text, size, radius, space]: area in   *)
(* 1/100 of the page, text a number of characters, size in px, space a     *)
(* sequence of px.  Weights are in 1/20.                                   *)
(***************************************************************************)
LOCAL INSTANCE Integers
LOCAL INSTANCE Sequences
LOCAL INSTANCE FiniteSets
LOCAL INSTANCE FiniteSetsExt
LOCAL INSTANCE SequencesExt
LOCAL INSTANCE Functions

CONSTANTS MAX_PALETTE,   \* as many clusters are shown
          GRIDS          \* the grid units tried, the largest first

CLUSTER_DISTANCE == 8
VISION_MATCH_DISTANCE == 40
CHROMATIC == 45
FOLD_WEIGHT == 2
NoColor == [l |-> -1, a |-> 0, b |-> 0]
WHITE == [l |-> 1000, a |-> 0, b |-> 0]

Square(n) == n * n
Abs(n) == IF n < 0 THEN -n ELSE n
SumOf(S, Value(_)) == MapThenSumSet(Value, S)
\* The members of a set in a strict total order.
InOrder(S, Before(_, _)) ==
    [i \in 1 .. Cardinality(S) |-> CHOOSE x \in S : Cardinality({y \in S : Before(y, x)}) = i - 1]

(***************************************************************************)
(* Colors.                                                                 *)
(***************************************************************************)
\* Squared, to stay with integers.
distance(c, d) == Square(c.l - d.l) + Square(c.a - d.a) + Square(c.b - d.b)
chroma(c) == Max({Abs(c.a), Abs(c.b)})
hue(c) == IF c.a > 0 THEN 0 ELSE IF c.b > 0 THEN 90 ELSE IF c.a < 0 THEN 180 ELSE IF c.b < 0 THEN 270 ELSE 0
_hue_gap(g, h) == Min({Abs(g - h), 360 - Abs(g - h)})

\* The luminance of a grey is the cube of its lightness; a tint is taken as its grey.
relative_luminance(c) == (c.l * c.l * c.l) \div 1000000
\* Times 100.
contrast_ratio(c, d) ==
    LET luminances == {relative_luminance(c), relative_luminance(d)}
    IN (100 * (Max(luminances) + 50)) \div (Min(luminances) + 50)

Visible(value) == value.color # NoColor /\ value.alpha > 0
over(value, background) ==
    LET mix(x, y) == (x * value.alpha + y * (100 - value.alpha)) \div 100
    IN [l |-> mix(value.color.l, background.l), a |-> mix(value.color.a, background.a),
        b |-> mix(value.color.b, background.b)]

(***************************************************************************)
(* Samples: [color, kind, weight, interactive].                            *)
(***************************************************************************)
\* The first of the outermost elements that is more than half opaque.
_page_background(styles) ==
    LET opaque == {i \in DOMAIN styles : i <= 3 /\ Visible(styles[i].background) /\ styles[i].background.alpha > 50}
    IN IF opaque = {} THEN WHITE ELSE over(styles[Min(opaque)].background, WHITE)

Sample(color, kind, weight, interactive) ==
    [color |-> color, kind |-> kind, weight |-> weight, interactive |-> interactive]
ElementSamples(element, background) ==
    LET fold == IF element.fold THEN FOLD_WEIGHT ELSE 1
        area == Max({20 * Min({element.area, 100}), 1}) * fold * (IF element.button THEN 4 ELSE 1)
        text == 2 * Min({element.text, 400}) * fold * (IF element.size >= 64 THEN 2 ELSE 1)
        seen(value, kind, weight, interactive) ==
            IF Visible(value) THEN <<Sample(over(value, background), kind, weight, interactive)>> ELSE <<>>
    IN seen(element.background, "background", area, element.button)
       \o (IF element.text = 0 THEN <<>> ELSE seen(element.color, "text", text, element.button \/ element.link))
       \o seen(element.border, "border", 10 * fold, element.button \/ element.link)
color_samples(styles) ==
    FlattenSeq([i \in DOMAIN styles |-> ElementSamples(styles[i], _page_background(styles))])

(***************************************************************************)
(* Clusters: [color, members], color the most used of the members.         *)
(***************************************************************************)
Weight(samples, colors, Test(_)) ==
    SumOf({i \in DOMAIN samples : samples[i].color \in colors /\ Test(samples[i])}, LAMBDA i : samples[i].weight)
All(sample) == TRUE
Used(samples, color) == Weight(samples, {color}, All)
\* Most used first; a fixed order stands for the one of first use.
ByUse(samples) ==
    InOrder({samples[i].color : i \in DOMAIN samples}, LAMBDA c, d :
        \/ Used(samples, c) > Used(samples, d)
        \/ Used(samples, c) = Used(samples, d)
           /\ Min({i \in DOMAIN samples : samples[i].color = c}) < Min({i \in DOMAIN samples : samples[i].color = d}))

Joining(clusters, color) ==
    {k \in DOMAIN clusters : distance(clusters[k].color, color) < Square(CLUSTER_DISTANCE)}
Absorb(clusters, color) ==
    IF Joining(clusters, color) = {} THEN Append(clusters, [color |-> color, members |-> {color}])
    ELSE [clusters EXCEPT ![Min(Joining(clusters, color))].members = @ \union {color}]
_cluster(samples) ==
    LET clusters == FoldLeft(Absorb, <<>>, ByUse(samples))
        weight(k) == Weight(samples, clusters[k].members, All)
        order == InOrder(DOMAIN clusters, LAMBDA j, k : weight(j) > weight(k) \/ (weight(j) = weight(k) /\ j < k))
    IN [k \in DOMAIN order |-> clusters[order[k]]]

background_weight(samples, c) == Weight(samples, c.members, LAMBDA s : s.kind = "background")
text_weight(samples, c) == Weight(samples, c.members, LAMBDA s : s.kind = "text")
border_weight(samples, c) == Weight(samples, c.members, LAMBDA s : s.kind = "border")
interactive_weight(samples, c) == Weight(samples, c.members, LAMBDA s : s.interactive)
button_weight(samples, c) == Weight(samples, c.members, LAMBDA s : s.interactive /\ s.kind = "background")

(***************************************************************************)
(* Roles.                                                                  *)
(***************************************************************************)
Ranked(clusters, Value(_)) ==
    LET order == InOrder(DOMAIN clusters, LAMBDA j, k :
                     \/ Value(clusters[j]) > Value(clusters[k])
                     \/ Value(clusters[j]) = Value(clusters[k]) /\ j < k)
    IN [k \in DOMAIN order |-> clusters[order[k]]]
neutral_ink(c) ==
    chroma(c.color) < CHROMATIC \/ (chroma(c.color) < 100 /\ (c.color.l < 350 \/ c.color.l > 920))
NoCluster == [color |-> NoColor, members |-> {}]
HeadOr(clusters) == IF clusters = <<>> THEN NoCluster ELSE clusters[1]

Backgrounds(samples, clusters) ==
    LET weight(c) == background_weight(samples, c)
    IN Ranked(SelectSeq(clusters, LAMBDA c : weight(c) > 0), weight)
Base(samples, clusters) == HeadOr(Backgrounds(samples, clusters))
contrast(base, c) == IF base = NoCluster THEN 2100 ELSE contrast_ratio(c.color, base.color)

\* Of the readable colors with a twentieth of the text the one with the most contrast.
Readable(samples, clusters) ==
    LET base == Base(samples, clusters)
        weight(c) == text_weight(samples, c)
        texts == Ranked(SelectSeq(clusters, LAMBDA c : weight(c) > 0), weight)
        readable == SelectSeq(texts, LAMBDA c : contrast(base, c) >= 300 /\ neutral_ink(c))
    IN IF readable = <<>> THEN texts ELSE readable
Text(samples, clusters) ==
    LET readable == Readable(samples, clusters)
        total == FoldLeft(LAMBDA sum, c : sum + text_weight(samples, c), 0, readable)
        heavy == SelectSeq(readable, LAMBDA c : 20 * text_weight(samples, c) >= total)
    IN HeadOr(Ranked(heavy, LAMBDA c : contrast(Base(samples, clusters), c)))
TextMuted(samples, clusters) ==
    LET base == Base(samples, clusters)
        text == Text(samples, clusters)
    IN HeadOr(SelectSeq(Readable(samples, clusters), LAMBDA c : c # text /\ contrast(base, c) < contrast(base, text)))
Surface(samples, clusters) ==
    LET base == Base(samples, clusters)
    IN HeadOr(SelectSeq(Backgrounds(samples, clusters), LAMBDA c :
           c # base /\ chroma(c.color) < CHROMATIC /\ Abs(c.color.l - base.color.l) < 150))

\* What the buttons are filled with, a hue before a neutral unless it fills far less.
Button(samples, clusters, taken) ==
    LET buttons == Ranked(SelectSeq(clusters, LAMBDA c : button_weight(samples, c) > 0 /\ c \notin taken),
                          LAMBDA c : button_weight(samples, c))
        chromatic == SelectSeq(buttons, LAMBDA c :
                         /\ chroma(c.color) >= CHROMATIC
                         /\ 10 * button_weight(samples, c) >= 3 * button_weight(samples, buttons[1]))
    IN IF chromatic # <<>> THEN chromatic[1] ELSE HeadOr(buttons)

Distinct(c, picked) ==
    \A p \in Range(picked) : \/ _hue_gap(hue(c.color), hue(p.color)) > 25
                             \/ Abs(c.color.l - p.color.l) > 250
\* Each next hue must differ from those picked.
PickHue(chromatic, picked) ==
    LET fit == SelectSeq(chromatic, LAMBDA c : c \notin Range(picked) /\ Distinct(c, picked))
    IN IF fit = <<>> THEN picked ELSE Append(picked, fit[1])

\* A role without a cluster is NoCluster.
assign_roles(samples, clusters) ==
    LET base == Base(samples, clusters)
        text == Text(samples, clusters)
        muted == TextMuted(samples, clusters)
        surface == Surface(samples, clusters)
        taken == {base, text, muted, surface}
        button == Button(samples, clusters, taken)
        first == IF button = NoCluster THEN <<>> ELSE <<button>>
        chromatic == Ranked(SelectSeq(clusters, LAMBDA c :
                                chroma(c.color) >= CHROMATIC /\ c \notin taken \union {button}),
                            LAMBDA c : 3 * interactive_weight(samples, c) + Weight(samples, c.members, All))
        picked == PickHue(chromatic, PickHue(chromatic, PickHue(chromatic, first)))
        at(i) == IF i \in DOMAIN picked THEN picked[i] ELSE NoCluster
        borders == Ranked(SelectSeq(clusters, LAMBDA c : border_weight(samples, c) > 0),
                          LAMBDA c : border_weight(samples, c))
    IN [background |-> base, text |-> text, text_muted |-> muted, surface |-> surface,
        primary |-> at(1), secondary |-> at(2), accent |-> at(3), border |-> HeadOr(borders)]

palette(clusters) == SubSeq(clusters, 1, Min({MAX_PALETTE, Len(clusters)}))

(***************************************************************************)
(* Sizes, spacing and radii.                                               *)
(***************************************************************************)
Counted(values, v) == Cardinality({i \in DOMAIN values : values[i] = v})
Spaces(styles) ==
    FlattenSeq([i \in DOMAIN styles |-> SelectSeq(styles[i].space, LAMBDA px : 0 < px /\ px <= 256)])
\* The largest unit that four in five of the values fit, 0 for none.
base_px(values) ==
    LET fitting == {g \in Range(GRIDS) : 5 * Len(SelectSeq(values, LAMBDA v : v % g = 0)) >= 4 * Len(values)}
    IN IF values = <<>> \/ fitting = {} THEN 0 ELSE GRIDS[Min({i \in DOMAIN GRIDS : GRIDS[i] \in fitting})]
scale(values) == {v \in Range(values) : 50 * Counted(values, v) >= Len(values)}

\* Of text, by how much of it there is.
SizeWeight(styles, size) ==
    SumOf({i \in DOMAIN styles : styles[i].text > 0 /\ styles[i].size = size}, LAMBDA i : Min({styles[i].text, 400}))
Sizes(styles) == {styles[i].size : i \in {j \in DOMAIN styles : styles[j].text > 0}}
used_sizes(styles) ==
    {s \in Sizes(styles) : 200 * SizeWeight(styles, s) >= SumOf(Sizes(styles), LAMBDA t : SizeWeight(styles, t))}
base_size(styles) ==
    LET most == {s \in Sizes(styles) : \A t \in Sizes(styles) : SizeWeight(styles, t) <= SizeWeight(styles, s)}
        first(s) == Min({i \in DOMAIN styles : styles[i].text > 0 /\ styles[i].size = s})
    IN IF most = {} THEN 0 ELSE CHOOSE s \in most : \A t \in most : first(s) <= first(t)

TAILWIND_SIZES == <<12, 14, 16, 18, 20, 24, 30, 36, 48, 60, 72, 96, 128>>
BASE_NAME == 3
\* The base size is named first; a name that is taken gives way to the size in px, here [px].
Nearest(size) ==
    LET gap(i) == Abs(TAILWIND_SIZES[i] - size)
    IN Min({i \in DOMAIN TAILWIND_SIZES : \A j \in DOMAIN TAILWIND_SIZES : gap(i) <= gap(j)})
_size_names(sizes, base) ==
    LET order == InOrder(sizes, LAMBDA s, t : (s = base /\ t # base) \/ (t # base /\ s < t))
        name(size, names) ==
            LET nearest == IF size = base THEN BASE_NAME ELSE Nearest(size)
            IN IF \E n \in names : n[1] = <<"name", nearest>> THEN <<"px", size>> ELSE <<"name", nearest>>
    IN FoldLeft(LAMBDA names, size : names \union {<<name(size, names), size>>}, {}, order)

\* A pill is any radius of 999px or more.
Pill(radius) == radius >= 999
radii(styles) ==
    LET rounded == SelectSeq([i \in DOMAIN styles |-> styles[i].radius], LAMBDA r : r > 0)
    IN [i \in DOMAIN rounded |-> IF Pill(rounded[i]) THEN 9999 ELSE rounded[i]]
\* The five smallest get the names sm to 2xl.
_radius_names(values) ==
    LET finite == InOrder({v \in Range(values) : v # 9999}, LAMBDA v, w : v < w)
    IN {<<i, finite[i]>> : i \in 1 .. Min({5, Len(finite)})}
       \union (IF 9999 \in Range(values) THEN {<<0, 9999>>} ELSE {})

(***************************************************************************)
(* The vision model's colors, a sequence; NoColor for one that is not of   *)
(* the form asked for.                                                     *)
(***************************************************************************)
verify_vision_colors(claims, clusters) ==
    LET candidates == UNION {c.members : c \in Range(clusters)}
        near(claim) == {c \in candidates : /\ distance(c, claim) <= Square(VISION_MATCH_DISTANCE)
                                           /\ \A d \in candidates : distance(c, claim) <= distance(d, claim)}
        kept == {i \in DOMAIN claims : claims[i] # NoColor /\ near(claims[i]) # {}}
    IN [kept |-> {[claim |-> i, color |-> CHOOSE c \in near(claims[i]) : TRUE] : i \in kept},
        dropped |-> DOMAIN claims \ kept]

(***************************************************************************)
(* Properties.                                                             *)
(***************************************************************************)
\* The clusters share out the observed colors: each color is in one, within the distance of the
\* cluster's own color, which none of its members is used more than; the own colors of two
\* clusters are at least that far apart, and no weight is lost.
ClustersPartition(styles) ==
    LET samples == color_samples(styles)
        clusters == _cluster(samples)
    IN /\ UNION {c.members : c \in Range(clusters)} = {samples[i].color : i \in DOMAIN samples}
       /\ \A j, k \in DOMAIN clusters : j # k =>
             /\ clusters[j].members \intersect clusters[k].members = {}
             /\ distance(clusters[j].color, clusters[k].color) >= Square(CLUSTER_DISTANCE)
       /\ \A c \in Range(clusters) : \A m \in c.members :
             /\ distance(c.color, m) < Square(CLUSTER_DISTANCE)
             /\ Used(samples, m) <= Used(samples, c.color)

\* The main text is readable on the background wherever any neutral text is, and more so than
\* the muted one; the accents are hues of their own, never the color of the text or of a
\* background, and tell apart.
RolesAreUsable(styles) ==
    LET samples == color_samples(styles)
        clusters == _cluster(samples)
        roles == assign_roles(samples, clusters)
        ink == {roles.background, roles.surface, roles.text, roles.text_muted} \ {NoCluster}
        accents == <<roles.primary, roles.secondary, roles.accent>>
        fit(c) == text_weight(samples, c) > 0 /\ contrast(roles.background, c) >= 300 /\ neutral_ink(c)
    IN /\ (\E c \in Range(clusters) : fit(c)) => fit(roles.text)
       /\ roles.text_muted # NoCluster
             => contrast(roles.background, roles.text_muted) < contrast(roles.background, roles.text)
       /\ \A i \in 1..3 : accents[i] # NoCluster =>
             /\ accents[i] \notin ink
             /\ \A j \in 1..(i - 1) : accents[j] # NoCluster /\ Distinct(accents[i], <<accents[j]>>)

\* Every size and radius that is kept is named, none of them twice and no name for two; the base
\* size is among them; and no larger grid unit than the one found fits as many of the spaces.
ScalesAreNamed(styles) ==
    LET names == _size_names(used_sizes(styles), base_size(styles))
        rounded == _radius_names(radii(styles))
        values == Spaces(styles)
    IN /\ {n[2] : n \in names} = used_sizes(styles)
       /\ \A m, n \in names : m # n => m[1] # n[1] /\ m[2] # n[2]
       /\ \A m, n \in rounded : m # n => m[1] # n[1] /\ m[2] # n[2]
       /\ Sizes(styles) # {} => \E n \in names : n = <<<<"name", BASE_NAME>>, base_size(styles)>>
       /\ base_px(values) # 0 =>
             \A g \in Range(GRIDS) : g > base_px(values)
                 => 5 * Len(SelectSeq(values, LAMBDA v : v % g = 0)) < 4 * Len(values)

\* What the vision model says of colors never brings in one the page does not have, and a claim
\* of a color that is observed is kept as it is.
VisionInventsNothing(styles, claims) ==
    LET samples == color_samples(styles)
        observed == {samples[i].color : i \in DOMAIN samples}
        check == verify_vision_colors(claims, _cluster(samples))
    IN /\ {k.claim : k \in check.kept} \union check.dropped = DOMAIN claims
       /\ \A k \in check.kept : k.color \in observed
       /\ \A i \in DOMAIN claims : claims[i] \in observed => [claim |-> i, color |-> claims[i]] \in check.kept
=============================================================================
