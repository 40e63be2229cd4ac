------------------------------ MODULE Renderer ------------------------------
(***************************************************************************)
(* render/*.tsx: what is painted for the resolved props of a node, whoever *)
(* they come from: a compiled bundle or a value of a leaf, which has seen  *)
(* no compiler.  A painting is the sequence of the boxes around a          *)
(* primitive, outermost first, each a style, then the primitive's own.     *)
(***************************************************************************)
EXTENDS PageValues

CONSTANTS Scene,            \* the nodes of the bundle, in document order: id -> [kind, visible, blurred, parts]
          GroupMaskMaxChildren

\* Properties that are there.
Style(css) == [p \in {q \in DOMAIN css : Given(css[q])} |-> css[p]]
Only(condition, v) == IF condition THEN v ELSE Absent

-----------------------------------------------------------------------------
(* prop-allowlist.ts: what the audit of a mounted node takes for consumed. *)
UNIVERSAL_PROPS ==
    {"visible", "opacity", "universal_opacity", "rotation", "sizing", "x", "y", "width", "height",
     "blendMode", "mask", "blur", "backdropBlur", "shadow", "noise", "texture", "glass"}
PRIMITIVE_PROP_ALLOWLIST(kind) ==
    CASE kind = "stack" -> {"direction", "gap", "wrap", "crossGap", "align", "justify"}
      [] kind = "grid" -> {"cols", "rows", "gap"}
      [] kind = "frame" -> {"scale", "rotate", "background", "backgrounds", "clipsContent"}
      [] kind = "text" -> {"value", "size", "font", "weight", "colour", "align", "lineHeight",
                           "letterSpacing", "textTransform", "textDecoration", "fontStyle", "maxLines"}
      [] kind = "image" -> {"src", "alt", "fit", "position"}
      [] kind = "shape" -> {"geometry", "kind", "radius", "fill", "fills", "stroke", "stroke_width",
                            "strokes", "pathData", "paths", "ariaLabel"}
      [] kind = "media" -> {"src", "peerLabel", "loop", "mute", "autoplay", "fit"}
      [] kind = "instance" -> {"scene_id", "scene_version", "size", "position"}
      [] kind = "x-zab.capture" -> {"x-zab.sourceKind", "x-zab.deviceRef", "fit"}
      [] kind = "x-zab.meet-peer" -> {"x-zab.slotRef"}
isAllowed(kind, p) ==
    IF kind = "repeat" THEN p = "items"
    ELSE \/ p \in UNIVERSAL_PROPS \cup PRIMITIVE_PROP_ALLOWLIST(kind)
         \/ kind = "instance" /\ p = "params"
\* checkNodeProps: what a mounted node is diagnosed for.
checkNodeProps(node) == {p \in DOMAIN node.props \cup node.bindings : ~isAllowed(node.kind, p)}

(* What the components do read. *)
TreeReads(kind, props) ==
    {"mask", "blendMode", "visible", "universal_opacity", "blur", "backdropBlur", "noise", "texture",
     "glass", "sizing"}
    \cup (IF kind = "frame" THEN {} ELSE {"rotation", "flipY", "x", "y"})
    \cup (IF {"x", "y"} \subseteq DOMAIN props THEN {"width", "height"} ELSE {})
StackReads == {"direction", "gap", "wrap", "crossGap", "align", "justify"}
GridReads == {"cols", "rows", "gap"}
FrameReads ==
    {"x", "y", "width", "height", "scale", "rotate", "rotation", "flipY", "opacity", "radius",
     "background", "backgrounds", "clipsContent", "shadow"}
TextReads ==
    {"value", "size", "font", "weight", "colour", "align", "opacity", "lineHeight", "letterSpacing",
     "textTransform", "textDecoration", "fontStyle", "maxLines"}
ImageReads == {"src", "alt", "fit", "position", "opacity", "width", "height"}
ShapeReads ==
    {"geometry", "kind", "width", "height", "radius", "opacity", "fill", "fills", "stroke",
     "stroke_width", "strokes", "pathData", "paths", "ariaLabel"}
MediaReads == {"src", "peerLabel", "loop", "mute", "autoplay", "fit"}
InstanceReads == {"scene_id", "scene_version", "size", "position"}
CaptureReads == {"x-zab.sourceKind", "x-zab.deviceRef", "fit", "width", "height"}
MeetPeerSlotReads == {"x-zab.slotRef"}
PrimitiveReads(kind) ==
    CASE kind = "stack" -> StackReads
      [] kind = "grid" -> GridReads
      [] kind = "frame" -> FrameReads
      [] kind = "text" -> TextReads
      [] kind = "image" -> ImageReads
      [] kind = "shape" -> ShapeReads
      [] kind = "media" -> MediaReads
      [] kind = "instance" -> InstanceReads
      [] kind = "x-zab.capture" -> CaptureReads
      [] kind = "x-zab.meet-peer" -> MeetPeerSlotReads
Reads(kind, props) ==
    IF kind = "repeat" THEN {"items", "stagger_ms"} ELSE TreeReads(kind, props) \cup PrimitiveReads(kind)

\* Where the animation of a bound key looks its transition up.
transitionLookupKey(key) ==
    CASE key = "transform.translate" -> "x"
      [] key = "transform.scale" -> "scale"
      [] key = "transform.rotate" -> "rotate"
      [] key \in {"filter.blur", "filter.brightness"} -> "filter"
      [] key = "style.color" -> "colour"
      [] OTHER -> key

-----------------------------------------------------------------------------
(* filter-clamp.ts and its like: every value is gated again, as it paints. *)
BLUR_CAP == 100 * One
SHADOW_SPREAD_CAP == 1000 * One
SHADOW_OFFSET_CAP == 4096 * One
NOISE_SIZE_CAP == 2000 * One
\* Fault: the cap is left to the compiler.
clampFilterChannelLow(v, cap) ==
    IF ~IsNum(v) \/ v.n < 0 \/ IsNegZero(v) THEN Absent ELSE v
clampFilterChannel(v, cap) ==
    IF ~IsNum(v) \/ v.n < 0 \/ IsNegZero(v) THEN Absent ELSE Num(Clamp(v.n, 0, cap))
clampSymmetricChannel(v, cap) == IF IsNum(v) THEN Clamp(v.n, -cap, cap) ELSE 0
clampUnitInterval(v) == IF IsNum(v) THEN Clamp(v.n, 0, One) ELSE 0
wrapDegrees(v) == IF IsNum(v) THEN v.n % (360 * One) ELSE 0

\* blend-mode.ts; the mode the renderer has alone stands for itself.
RENDERED_BLEND_MODES == {"normal", "screen", "plus-lighter"}
renderedBlendMode(v) == IF IsTxt(v) /\ v.s \in RENDERED_BLEND_MODES THEN v ELSE Absent
parseObjectFitRuntime(v) ==
    IF IsTxt(v) /\ v.s \in {"cover", "contain", "fill", "none", "scale-down"} THEN v ELSE Absent
gateSrc(src, hosts) == checkHostAllowed(src, hosts)

-----------------------------------------------------------------------------
(* fill.tsx.  A layer is [kind, colour: does its colour parse, src, blendMode,
   objectFit, transform]. *)
isFill(f) == f.kind \in {"solid", "linear-gradient", "radial-gradient", "image"}
parseFills(v) ==
    LET layers == IF IsObj(v) THEN SelectSeq(v.o, isFill) ELSE <<>>
    IN  [i \in DOMAIN layers |->
            [layers[i] EXCEPT !.blendMode = renderedBlendMode(@), !.objectFit = parseObjectFitRuntime(@)]]
Coloured(f) == f.kind = "image" \/ f.colour
gateImageFills(layers, hosts) ==
    LET Shown(f) == f.kind # "image" \/ gateSrc(f.src, hosts) IN SelectSeq(layers, Shown)
\* Of a gradient's six numbers the axis is the first two.
axis(t) ==
    IF IsObj(t) /\ Len(t.o) = 6 /\ IsNum(t.o[1]) /\ IsNum(t.o[2]) THEN Obj(<<t.o[1].n, t.o[2].n>>) ELSE Absent
renderFill(f) ==
    Style([kind |-> Txt(f.kind), blend |-> f.blendMode,
           src |-> Only(f.kind = "image", f.src), fit |-> Only(f.kind = "image", f.objectFit),
           axis |-> Only(f.kind = "linear-gradient", axis(f.transform))])
PaintedFills(v, hosts) ==
    LET layers == gateImageFills(SelectSeq(parseFills(v), Coloured), hosts)
    IN  [i \in DOMAIN layers |-> renderFill(layers[i])]

(* frame.tsx: shadows that spread or go inwards are shadows of the box. *)
ShadowEntry(s) ==
    LET spread == clampSymmetricChannel(s.spread, SHADOW_SPREAD_CAP)
    IN  [box |-> s.inset \/ spread # 0, spread |-> spread,
         x |-> clampSymmetricChannel(s.x, SHADOW_OFFSET_CAP),
         blur |-> NumberOr(clampFilterChannel(Num(NumberOr(s.blur, 0)), BLUR_CAP), 0)]
buildShadows(v) ==
    LET entries == IF IsObj(v) THEN v.o ELSE <<>>
    IN  Picked([i \in DOMAIN entries |-> ShadowEntry(entries[i])], {i \in DOMAIN entries : entries[i].colour})

(* svg-path.ts: stricter than the compiler's scan (a path starts with a moveto);
   what does not pass is left out, paths[] past the cap are cut. *)
validatePathData(d) == PathWithinCaps(d) /\ d.moves
parseShapePaths(props) ==
    IF IsObj(Get(props, "paths"))
    THEN LET valid == SelectSeq(props["paths"].o, validatePathData)
         IN  SubSeq(valid, 1, Min({Len(valid), MAX_PATH_SUBPATHS}))
    ELSE IF IsObj(Get(props, "pathData")) /\ validatePathData(props["pathData"].o)
    THEN <<[props["pathData"].o EXCEPT !.rule = "nonzero"]>>
    ELSE <<>>

(* effect-overlays.tsx *)
rgbaFromUnit(c) == IF Given(c) THEN Num(clampUnitInterval(c)) ELSE Txt("default")
GrainSize(v) == Max({5, NumberOr(clampFilterChannel(v, NOISE_SIZE_CAP), 5)})
GrainOverlay(e, textured) ==
    [size |-> GrainSize(e.noiseSize),
     opacity |-> IF textured THEN 4 ELSE clampUnitInterval(e.density),
     tint |-> IF textured THEN Txt("none") ELSE rgbaFromUnit(e.color),
     second |-> IF textured \/ e.noiseType # "DUOTONE" THEN Txt("none") ELSE rgbaFromUnit(e.secondaryColor)]
GlassHighlight(e) ==
    [angle |-> wrapDegrees(e.lightAngle), intensity |-> clampUnitInterval(e.lightIntensity),
     splay |-> clampUnitInterval(e.splay)]
GlassShines(glass) == IsObj(glass) /\ clampUnitInterval(glass.o.lightIntensity) > 0
EffectOverlays(u) ==
    Style([noise |-> IF IsObj(u.noise) THEN Obj(GrainOverlay(u.noise.o, FALSE)) ELSE Absent,
           texture |-> IF IsObj(u.texture) THEN Obj(GrainOverlay(u.texture.o, TRUE)) ELSE Absent,
           glass |-> IF GlassShines(u.glass) THEN Obj(GlassHighlight(u.glass.o)) ELSE Absent])

-----------------------------------------------------------------------------
(* universal-wrapper.tsx *)
Positive(v) == IF IsNum(v) /\ v.n > 0 THEN v ELSE Absent
backdropBlurOf(u) ==
    LET own == NumberOr(clampFilterChannel(u.backdropBlur, BLUR_CAP), 0)
        glass == IF IsObj(u.glass) THEN NumberOr(clampFilterChannel(u.glass.o.radius, BLUR_CAP), 0) ELSE 0
    IN  Positive(clampFilterChannel(Num(own + glass), BLUR_CAP))
\* What makes a box a group of its own, which a blend inside it could not leave.
Isolating(u) ==
    Style([opacity |-> Only(IsNum(u.opacity) /\ u.opacity.n # One, u.opacity),
           rotate |-> Only(IsNum(u.rotation) /\ u.rotation.n # 0, u.rotation),
           flip |-> Only(u.flipY = Flag(TRUE), u.flipY),
           filter |-> Positive(clampFilterChannel(u.blur, BLUR_CAP)),
           backdropFilter |-> backdropBlurOf(u)])
UniversalWrapper(u) ==
    LET blend == Style([mixBlendMode |-> renderedBlendMode(u.blendMode)])
        placed == IF Given(u.position) THEN [position |-> Txt("absolute"), at |-> u.position] ELSE <<>>
        sized == Style([size |-> u.size])
        flex == Style([flex |-> u.sizing])
        overlays == EffectOverlays(u)
        relative == IF overlays = <<>> THEN <<>> ELSE [position |-> Txt("relative")]
    IN  IF Isolating(u) @@ overlays @@ flex @@ placed @@ blend = <<>> THEN <<>>
        ELSE IF blend # <<>> /\ Isolating(u) # <<>>
        THEN << blend @@ placed @@ flex, sized @@ Isolating(u) @@ relative @@ overlays >>
        ELSE << Isolating(u) @@ blend @@ (IF Given(u.position) THEN placed @@ sized ELSE relative)
                @@ flex @@ overlays >>

-----------------------------------------------------------------------------
(* shape-index.tsx, shape-geometry.tsx, mask.tsx *)
ShapeIndex == {id \in DOMAIN Scene : Scene[id].kind \in {"shape", "frame"}}
\* What a container's children cover: shapes, and those of containers one level down.
Capped(s) == SubSeq(s, 1, Min({Len(s), GroupMaskMaxChildren}))
collectCoverage(parts) ==
    LET Covers(c) == c.visible /\ (c.kind = "shape" \/ c.inside > 0) IN Capped(SelectSeq(parts, Covers))
CoverageOf(ref) ==
    IF Scene[ref].kind = "shape" THEN Scene[ref].parts ELSE collectCoverage(Scene[ref].parts)
coverageIsFeathered(ref) ==
    Scene[ref].kind = "frame" /\ \E i \in DOMAIN Scene[ref].parts :
        Scene[ref].parts[i].visible /\ Scene[ref].parts[i].blurred

parseMaskSpec(v) ==
    IF IsObj(v) /\ v.o.type \in {"alpha", "luminance"} /\ v.o.op \in {"intersect", "subtract", "union"}
       /\ v.o.source \in {"shape", "image", "group"}
    THEN v ELSE Absent
\* safeIdRef rejects what no compiler names a node; a ref must be known and cover something.
RefResolves(ref) == ref \in ShapeIndex /\ CoverageOf(ref) # <<>>
buildMask(spec, hosts) ==
    IF ~Given(spec) THEN Absent
    ELSE LET m == spec.o
         IN  IF m.source = "image"
             THEN Only(checkHostAllowed(m.src, hosts),
                       Obj([image |-> m.op = "intersect", type |-> m.type, op |-> m.op, feather |-> FALSE]))
             ELSE Only(RefResolves(m.ref),
                       Obj([image |-> FALSE, type |-> m.type, op |-> m.op,
                            feather |-> m.ref \in ShapeIndex /\ coverageIsFeathered(m.ref)]))

-----------------------------------------------------------------------------
(* The primitives: what is gated of what they read, and the rest as it is. *)
Gated == {"fills", "backgrounds", "shadow", "paths", "pathData", "src", "maxLines", "lineHeight", "colour"}
Bounded(v, low, high) == Only(IsNum(v) /\ v.n \in low..high, v)
resolveTypography(props) ==
    Style([lineHeight |-> Bounded(Get(props, "lineHeight"), 0, 100 * One),
           maxLines |-> Only(Get(props, "maxLines") # Absent /\ Get(props, "maxLines").n % One = 0,
                             Bounded(Get(props, "maxLines"), One, 1000 * One)),
           colour |-> Get(props, "colour")])
\* Image, Media, Instance: nothing at all without a source that passes, or a scene.
SourceShown(props, hosts) == IsObj(Get(props, "src")) /\ gateSrc(props["src"].o, hosts)
Shows(kind, props, hosts) ==
    CASE kind = "image" -> SourceShown(props, hosts)
      [] kind = "media" -> IsTxt(Get(props, "peerLabel")) \/ SourceShown(props, hosts)
      [] kind = "instance" -> Given(Get(props, "scene_id")) /\ Given(Get(props, "scene_version"))
      [] OTHER -> TRUE
Primitive(kind, props, hosts) ==
    LET plain == {p \in DOMAIN props : p \in PrimitiveReads(kind) \ Gated}
        gated == CASE kind = "frame" -> [layers |-> PaintedFills(Get(props, "backgrounds"), hosts),
                                         shadows |-> buildShadows(Get(props, "shadow"))]
                   [] kind = "shape" -> [layers |-> PaintedFills(Get(props, "fills"), hosts),
                                         paths |-> parseShapePaths(props)]
                   [] kind = "text" -> resolveTypography(props)
                   [] OTHER -> <<>>
    IN  IF Shows(kind, props, hosts) THEN <<gated @@ [p \in plain |-> props[p]]>> ELSE <<>>

(* tree.tsx: Node.  A blend on a masked node moves above the mask. *)
maskHoistsBlend(props) == Given(Get(props, "mask")) /\ Given(renderedBlendMode(Get(props, "blendMode")))
extractPosition(props) ==
    LET x == Get(props, "x") y == Get(props, "y") IN Only(IsNum(x) /\ IsNum(y), Obj(<<x.n, y.n>>))
extractSize(props) ==
    LET w == Get(props, "width") h == Get(props, "height") IN Only(IsNum(w) \/ IsNum(h), Obj(<<w, h>>))
UniversalOf(kind, props) ==
    LET own == kind = "frame"   \* a frame places, turns and mirrors itself
    IN  [opacity |-> Get(props, "universal_opacity"),
         rotation |-> Only(~own, Get(props, "rotation")), flipY |-> Only(~own, Get(props, "flipY")),
         blur |-> Get(props, "blur"), backdropBlur |-> Get(props, "backdropBlur"),
         noise |-> Get(props, "noise"), texture |-> Get(props, "texture"), glass |-> Get(props, "glass"),
         sizing |-> Get(props, "sizing"),
         position |-> Only(~own, extractPosition(props)), size |-> Only(~own, extractSize(props)),
         blendMode |-> Only(~maskHoistsBlend(props), Get(props, "blendMode"))]
Painted(kind, props, hosts) ==
    LET built == buildMask(parseMaskSpec(Get(props, "mask")), hosts)
        isImageMask == IF Given(built) THEN built.o.image ELSE FALSE
        hoisted == IF Given(built) /\ maskHoistsBlend(props) THEN <<[mixBlendMode |-> props["blendMode"]]>> ELSE <<>>
        masked == IF Given(built) THEN <<[mask |-> built]>> ELSE <<>>
        hidden == Get(props, "visible") = Flag(FALSE)
        wrapped == UniversalWrapper(UniversalOf(kind, props))
    IN  hoisted \o (IF isImageMask THEN <<>> ELSE masked)
        \o (IF hidden THEN <<>>
            ELSE wrapped \o (IF isImageMask THEN masked ELSE <<>>) \o Primitive(kind, props, hosts))
=============================================================================
