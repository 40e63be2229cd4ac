------------------------------ MODULE Compiler ------------------------------
(***************************************************************************)
(* compile.ts: an authored node is audited and lowered to the props,       *)
(* bindings and transitions of a render node, or refused.  A node is       *)
(*   [kind, given: key -> value, bound: props bound to a leaf,             *)
(*    anim: bound animation keys, animated: has animate.transition]        *)
(* and a key inside text.style is written "style.x".                       *)
(***************************************************************************)
EXTENDS PageValues

SUPPORTED_VERSIONS == {"1.0", "1.1", "1.2"}
Kinds == {"stack", "grid", "frame", "text", "image", "shape", "media", "instance",
          "x-zab.capture", "x-zab.meet-peer", "repeat"}

(* The audit: which keys the lowering says it consumes. *)
EXEMPT_KEYS == {"metadata"}
StructuralKeys == {"kind", "id", "bind", "bindStyle", "bindUniversal", "bindAnimate", "animate",
                   "keyframes", "children", "scope", "template", "bindParams"}
COMMON_NODE_KEYS ==
    (StructuralKeys \ {"scope", "template", "bindParams"}) \cup
    {"visible", "opacity", "rotation", "flipY", "blur", "backdropBlur", "shadow", "noise",
     "texture", "glass", "sizing", "position", "blendMode", "mask"}
REPEAT_NODE_KEYS == {"kind", "id", "bind", "scope", "template", "stagger_ms"}
TEXT_STYLE_KEYS ==
    {"style.fontSize", "style.fontFamily", "style.fontWeight", "style.color", "style.textAlign",
     "style.lineHeight", "style.letterSpacing", "style.textTransform", "style.textDecoration",
     "style.fontStyle"}
KIND_NODE_KEYS(kind) ==
    CASE kind = "stack" -> {"direction", "gap", "align", "justify", "padding", "rtl"}
      [] kind = "grid" -> {"columns", "rows", "gap", "padding"}
      [] kind = "frame" -> {"size", "position", "background", "backgrounds", "clipsContent", "cornerRadius"}
      [] kind = "text" -> {"format", "maxLines"} \cup TEXT_STYLE_KEYS
      [] kind = "image" -> {"alt", "size", "fit"}
      [] kind = "shape" -> {"geometry", "size", "pathData", "paths", "fill", "fills", "stroke",
                            "strokes", "cornerRadius", "ariaLabel"}
      [] kind = "media" -> {"kind_hint", "controls", "autoplay", "muted", "loop", "size"}
      [] kind = "instance" -> {"scene_id", "scene_version", "size", "fit", "params", "bindParams"}
      [] kind = "x-zab.capture" -> {"x-zab.sourceKind", "x-zab.deviceRef", "size", "fit"}
      [] kind = "x-zab.meet-peer" -> {"x-zab.slotRef", "size"}
Audited(kind) == EXEMPT_KEYS \cup
    IF kind = "repeat" THEN REPEAT_NODE_KEYS ELSE COMMON_NODE_KEYS \cup KIND_NODE_KEYS(kind)
auditNodeKeys(node) == DOMAIN node.given \ Audited(node.kind)

-----------------------------------------------------------------------------
(* The lowering: the props each key becomes.  This is the `switch` and the
   universal part of compileNode, not what the audit says about them. *)
mapTextStyle(key) ==
    CASE key = "style.fontSize" -> {"size"}
      [] key = "style.fontFamily" -> {"font"}
      [] key = "style.fontWeight" -> {"weight"}
      [] key = "style.color" -> {"colour"}
      [] key = "style.textAlign" -> {"align"}
      [] key = "style.lineHeight" -> {"lineHeight"}
      [] key = "style.letterSpacing" -> {"letterSpacing"}
      [] key = "style.textTransform" -> {"textTransform"}
      [] key = "style.textDecoration" -> {"textDecoration"}
      [] key = "style.fontStyle" -> {"fontStyle"}
      [] OTHER -> {key}
PropsOf(key) ==
    CASE key = "size" -> {"width", "height"}
      [] key = "position" -> {"x", "y"}
      [] key = "stroke" -> {"stroke", "stroke_width"}
      [] key = "cornerRadius" -> {"radius"}
      [] OTHER -> mapTextStyle(key)
KindLowers(kind) ==
    CASE kind = "stack" -> {"direction", "gap", "align", "justify", "padding", "rtl"}
      [] kind = "grid" -> {"columns", "rows", "gap", "padding"}
      [] kind = "frame" -> {"size", "position", "background", "backgrounds", "clipsContent", "cornerRadius"}
      [] kind = "text" ->
            {"format", "maxLines", "style.fontSize", "style.fontFamily", "style.fontWeight", "style.color",
             "style.textAlign", "style.lineHeight", "style.letterSpacing", "style.textTransform",
             "style.textDecoration", "style.fontStyle"}
      [] kind = "image" -> {"alt", "size", "fit"}
      [] kind = "shape" -> {"geometry", "size", "pathData", "paths", "fill", "fills", "stroke", "strokes",
                            "cornerRadius", "ariaLabel"}
      [] kind = "media" -> {"kind_hint", "controls", "autoplay", "muted", "loop", "size"}
      [] kind = "instance" -> {"scene_id", "scene_version", "size", "fit", "params"}
      [] kind = "x-zab.capture" -> {"x-zab.sourceKind", "x-zab.deviceRef", "size", "fit"}
      [] kind = "x-zab.meet-peer" -> {"x-zab.slotRef", "size"}
      [] kind = "repeat" -> {"stagger_ms"}
UniversalLowers ==
    {"visible", "opacity", "rotation", "flipY", "blur", "backdropBlur", "shadow", "noise",
     "texture", "glass", "sizing", "position", "blendMode", "mask"}
Emits(kind) ==
    [key \in KindLowers(kind) \cup (IF kind = "repeat" THEN {} ELSE UniversalLowers) |-> PropsOf(key)]

-----------------------------------------------------------------------------
(* The gates of the values.  Soft ones put a bound in the place of what is out of
   bounds (and warn), hard ones refuse the document. *)
MAX_STATIC_BLUR_PX == 100 * One
MAX_SHADOW_SPREAD_PX == 1000 * One
MAX_SHADOW_OFFSET_PX == 4096 * One
MAX_NOISE_SIZE_PX == 2000 * One
MAX_GRADIENT_TRANSFORM_ABS == 1000000 * One

\* clampStaticBlur and clampNonNegativeMagnitude (-0 < 0 is false: -0 passes).
SoftMagnitude(v, max) ==
    IF ~IsNum(v) \/ v.n < 0 THEN Num(0) ELSE IF v.n > max THEN Num(max) ELSE v
clampShadowMagnitude(v, max) == IF ~IsNum(v) THEN Num(0) ELSE Num(Clamp(v.n, -max, max))
clampUnit(v) == IF ~IsNum(v) THEN Num(0) ELSE Num(Clamp(v.n, 0, One))
normalizeDegrees(v) == IF ~IsNum(v) THEN Num(0) ELSE Num(v.n % (360 * One))
\* lowerFilter: one channel of an animated filter; its refusal fails the compilation.
FilterRefused(v) == ~IsNum(v) \/ v.n < 0 \/ IsNegZero(v)

lowerStaticShadow(entries) ==
    [i \in DOMAIN entries |-> [entries[i] EXCEPT
        !.x = clampShadowMagnitude(@, MAX_SHADOW_OFFSET_PX),
        !.blur = SoftMagnitude(@, MAX_STATIC_BLUR_PX),
        !.spread = clampShadowMagnitude(@, MAX_SHADOW_SPREAD_PX)]]
clampUnitColor(c) == IF Given(c) THEN clampUnit(c) ELSE c
lowerStaticNoise(e) ==
    [e EXCEPT !.noiseSize = SoftMagnitude(@, MAX_NOISE_SIZE_PX), !.density = clampUnit(@),
              !.color = clampUnitColor(@), !.secondaryColor = clampUnitColor(@)]
lowerStaticTexture(e) ==
    [e EXCEPT !.radius = SoftMagnitude(@, MAX_NOISE_SIZE_PX),
              !.noiseSize = SoftMagnitude(@, MAX_NOISE_SIZE_PX)]
lowerStaticGlass(e) ==
    [e EXCEPT !.radius = SoftMagnitude(@, MAX_STATIC_BLUR_PX), !.lightAngle = normalizeDegrees(@),
              !.lightIntensity = clampUnit(@), !.splay = clampUnit(@)]

\* The closed enumerations (the modes in use stand for the sixteen).
BLEND_MODES == {"normal", "screen"}
OBJECT_FITS == {"cover", "contain", "fill", "none", "scale-down"}
parseBlendMode(v) == IF IsTxt(v) /\ v.s \in BLEND_MODES THEN v ELSE Absent
parseObjectFit(v) == IF IsTxt(v) /\ v.s \in OBJECT_FITS THEN v ELSE Absent
clampGradientTransform(v) ==
    IF ~IsObj(v) \/ Len(v.o) # 6 \/ \E i \in DOMAIN v.o : ~IsNum(v.o[i]) THEN Absent
    ELSE Obj([i \in 1..6 |-> Num(Clamp(v.o[i].n, -MAX_GRADIENT_TRANSFORM_ABS, MAX_GRADIENT_TRANSFORM_ABS))])

\* lowerFills: an image whose source is not allowed is left out with its layer; a
\* mode, a fit or a transform that is not valid leaves the layer without it.
LoweredLayer(f) ==
    [f EXCEPT !.blendMode = parseBlendMode(@),
              !.objectFit = IF f.kind = "image" THEN parseObjectFit(@) ELSE @,
              !.transform = IF f.kind \in {"linear-gradient", "radial-gradient", "image"}
                            THEN clampGradientTransform(@) ELSE @]
lowerFills(layers, hosts) ==
    LET Kept(f) == f.kind # "image" \/ checkHostAllowed(f.src, hosts)
        kept == SelectSeq(layers, Kept)
    IN  [i \in DOMAIN kept |-> LoweredLayer(kept[i])]

MASK_TYPES == {"alpha", "luminance"}
MASK_OPS == {"intersect", "subtract", "union"}
TypedMask(m) == m.type \in MASK_TYPES /\ m.op \in MASK_OPS /\ m.source \in {"shape", "image", "group"}
lowerMask(v) == IF IsObj(v) /\ TypedMask(v.o) THEN v ELSE Absent

\* What a key's value is lowered to; Absent: left out, with a warning.
Lowered(key, v, hosts) ==
    CASE key \in {"blur", "backdropBlur"} -> SoftMagnitude(v, MAX_STATIC_BLUR_PX)
      [] key = "shadow" -> Obj(lowerStaticShadow(v.o))
      [] key = "noise" -> Obj(lowerStaticNoise(v.o))
      [] key = "texture" -> Obj(lowerStaticTexture(v.o))
      [] key = "glass" -> Obj(lowerStaticGlass(v.o))
      [] key = "blendMode" -> parseBlendMode(v)
      [] key = "mask" -> lowerMask(v)
      [] key \in {"fills", "backgrounds"} -> Obj(lowerFills(v.o, hosts))
      [] OTHER -> v
\* A pair comes apart.
Pairs == {"size", "position", "stroke"}
Component(key, prop, v) == IF key \in Pairs THEN v.o[prop] ELSE v
\* mapAlign, mapJustify, mapTextAlign: the names of flex boxes and of CSS.
Renamed(kind, key, v) ==
    CASE key \in {"align", "justify"} /\ v = Txt("start") -> Txt("flex-start")
      [] key \in {"align", "justify"} /\ v = Txt("end") -> Txt("flex-end")
      [] key = "style.textAlign" /\ v = Txt("start") -> Txt("left")
      [] key = "style.textAlign" /\ v = Txt("end") -> Txt("right")
      [] OTHER -> v

-----------------------------------------------------------------------------
(* What is refused: directives, not values that could be left out. *)
BIND_ANIMATE_SCALAR_KEYS == {"opacity", "transform.translate", "transform.scale", "transform.rotate",
                             "filter.blur", "filter.brightness"}
BIND_ANIMATE_COLOR_KEYS == [text |-> "style.color", shape |-> "fill", frame |-> "background"]
isBindAnimateKeyAllowed(key, kind) ==
    key \in BIND_ANIMATE_SCALAR_KEYS
    \/ (kind \in DOMAIN BIND_ANIMATE_COLOR_KEYS /\ BIND_ANIMATE_COLOR_KEYS[kind] = key)
\* A colour keeps its key, but the text's.
BoundColour(key, kind) ==
    IF isBindAnimateKeyAllowed(key, kind) THEN {IF kind = "text" THEN "colour" ELSE key} ELSE {}
\* Fault: an axis of the translation is forgotten.
transitionKeysAbbreviated(key, kind) ==
    CASE key = "opacity" -> {"opacity"}
      [] key = "transform.translate" -> {"y"}
      [] key = "transform.scale" -> {"scaleX", "scaleY"}
      [] key = "transform.rotate" -> {"rotate"}
      [] key \in {"filter.blur", "filter.brightness"} -> {"filter"}
      [] OTHER -> BoundColour(key, kind)
transitionKeysForBindAnimate(key, kind) ==
    CASE key = "opacity" -> {"opacity"}
      [] key = "transform.translate" -> {"x", "y"}
      [] key = "transform.scale" -> {"scale", "scaleX", "scaleY"}
      [] key = "transform.rotate" -> {"rotate"}
      [] key \in {"filter.blur", "filter.brightness"} -> {"filter"}
      [] OTHER -> BoundColour(key, kind)

lowerPathsRefused(paths) ==
    Len(paths) \notin 1..MAX_PATH_SUBPATHS \/ \E i \in DOMAIN paths : ~PathWithinCaps(paths[i])
\* compileRepeat: a list to repeat over, and a stagger that can be waited for.
RepeatRefused(node) ==
    LET stagger == Get(node.given, "stagger_ms")
    IN  "items" \notin node.bound \/ (Given(stagger) /\ (~IsNum(stagger) \/ stagger.n < 0))
KindRefused(node) ==
    LET v(key) == Get(node.given, key)
    IN  CASE node.kind = "x-zab.capture" ->
                ~checkZabCaptureNode(v("x-zab.sourceKind"), v("x-zab.deviceRef"), Given(v("size")))
          [] node.kind = "x-zab.meet-peer" ->
                ~IsTxt(v("x-zab.slotRef")) \/ v("x-zab.slotRef").s \notin Aliases \/ ~Given(v("size"))
          [] node.kind = "repeat" -> RepeatRefused(node)
          [] node.kind = "shape" ->
                \/ Given(v("pathData")) /\ ~PathWithinCaps(v("pathData").o)
                \/ Given(v("paths")) /\ lowerPathsRefused(v("paths").o)
          [] OTHER -> FALSE
\* animate.from and the keyframes carry filters, given here by their blur.
FiltersRefused(node) ==
    \E key \in DOMAIN node.given \cap {"animate", "keyframes"} : FilterRefused(node.given[key])
Refused(node) ==
    \/ KindRefused(node) \/ FiltersRefused(node)
    \/ \E key \in node.anim : ~isBindAnimateKeyAllowed(key, node.kind)

-----------------------------------------------------------------------------
(* compileNode. *)
LoweredValue(node, key, hosts) == Lowered(key, Renamed(node.kind, key, node.given[key]), hosts)
LoweredKeys(node) == DOMAIN node.given \cap DOMAIN Emits(node.kind)
KeptKeys(node, hosts) == {key \in LoweredKeys(node) : Given(LoweredValue(node, key, hosts))}
compileNode(node, hosts) ==
    LET kept == KeptKeys(node, hosts)
        source(p) == CHOOSE key \in {k \in kept : p \in Emits(node.kind)[k]} : TRUE
    IN  [kind |-> node.kind,
         props |-> [p \in UNION {Emits(node.kind)[key] : key \in kept} |->
                        Component(source(p), p, LoweredValue(node, source(p), hosts))],
         bindings |-> node.bound,
         animateBindings |-> node.anim,
         transitions |-> IF node.animated
                         THEN UNION {transitionKeysForBindAnimate(key, node.kind) : key \in node.anim}
                         ELSE {},
         warned |-> auditNodeKeys(node) \cup (LoweredKeys(node) \ kept)]
=============================================================================
