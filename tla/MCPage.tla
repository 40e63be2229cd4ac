------------------------------- MODULE MCPage -------------------------------
(***************************************************************************)
(* The machinery of the page, checked as a sum: `part` chooses, once, the  *)
(* binding of live values, the capture streams, the viewer of a meet room, *)
(* the rooms together, a node from document to screen or a Vue or Svelte   *)
(* adapter, and the other parts stay in their initial state.  They share   *)
(* nothing.                                                                *)
(***************************************************************************)
EXTENDS CaptureCache, FrameBinding, MeetViewer, PeerRooms, RenderedNode, DevSession

VARIABLE part
On(p) == part = p /\ UNCHANGED part
pageVars == <<bindVars, captureVars, meetVars, roomVars, nodeVars>>
InBind(A) == On("bind") /\ A /\ UNCHANGED <<captureVars, meetVars, roomVars, nodeVars, devSessionVars>>
InCapture(A) == On("capture") /\ A /\ UNCHANGED <<bindVars, meetVars, roomVars, nodeVars, devSessionVars>>
InMeet(A) == On("meet") /\ A /\ UNCHANGED <<bindVars, captureVars, roomVars, nodeVars, devSessionVars>>
InRooms(A) == On("rooms") /\ A /\ UNCHANGED <<bindVars, captureVars, meetVars, nodeVars, devSessionVars>>
InNode(A) == On("node") /\ A /\ UNCHANGED <<bindVars, captureVars, meetVars, roomVars, devSessionVars>>
InAdapter(A) == On("adapter") /\ A /\ UNCHANGED pageVars
vars == <<part, pageVars, devSessionVars>>

(* Values of documents and leaves: inside and beyond each bound, and malformed. *)
Garbled == Txt("NaN")
Size == Obj([width |-> Num(20), height |-> Num(20)])
Lengths == {Num(500), Num(1500), Num(-10), NegZero, Garbled}
Entry == [colour |-> TRUE, inset |-> FALSE, x |-> Num(20), blur |-> Num(30), spread |-> Num(0)]
Shadows == {Obj(<<Entry>>),
            Obj(<<[Entry EXCEPT !.x = Num(-90000), !.blur = Num(9000), !.spread = Num(90000)],
                  [Entry EXCEPT !.colour = FALSE]>>),
            Obj(<<[Entry EXCEPT !.inset = TRUE, !.x = Garbled, !.blur = NegZero, !.spread = Garbled]>>)}
Grain == [noiseType |-> "DUOTONE", radius |-> Num(20), noiseSize |-> Num(20), density |-> Num(3),
          color |-> Num(5), secondaryColor |-> Absent]
Grains == {Obj(Grain),
           Obj([Grain EXCEPT !.noiseSize = Num(30000), !.density = Num(30), !.color = Num(-4)]),
           Obj([Grain EXCEPT !.noiseSize = NegZero, !.density = Garbled, !.color = Garbled])}
Lens == [radius |-> Num(800), lightAngle |-> Num(450), lightIntensity |-> Num(5), splay |-> Num(2)]
Lenses == {Obj(Lens),
           Obj([Lens EXCEPT !.radius = Num(3000), !.lightAngle = Num(-900), !.lightIntensity = Num(50)]),
           Obj([Lens EXCEPT !.radius = NegZero, !.lightAngle = Garbled, !.splay = Garbled])}
Blends == {Txt("normal"), Txt("screen"), Txt("plus-lighter"), Txt("pass-through"), Num(1)}
ShapeMask == [type |-> "alpha", op |-> "intersect", source |-> "shape", ref |-> "star", src |-> Https("cdn")]
ImageMask == [ShapeMask EXCEPT !.source = "image"]
Masks == {Obj(m) : m \in {ShapeMask, ImageMask, [ShapeMask EXCEPT !.ref = "nowhere"],
                          [ShapeMask EXCEPT !.source = "group", !.ref = "halo", !.op = "subtract"],
                          [ShapeMask EXCEPT !.source = "group", !.ref = "void"],
                          [ImageMask EXCEPT !.op = "union"], [ImageMask EXCEPT !.src = Https("elsewhere")],
                          [ShapeMask EXCEPT !.op = "xor"]}} \cup {Garbled}
Fill == [kind |-> "solid", colour |-> TRUE, src |-> Https("cdn"), blendMode |-> Absent,
         objectFit |-> Absent, transform |-> Absent]
Turn(a, rest) == Obj(<<a, Num(10), Num(0), Num(10), Num(0), rest>>)
Gradient == [Fill EXCEPT !.kind = "linear-gradient", !.transform = Turn(Num(10), Num(0))]
Picture == [Fill EXCEPT !.kind = "image", !.objectFit = Txt("cover"), !.blendMode = Txt("screen")]
Fills == {Obj(<<Fill, Gradient, Picture>>),
          Obj(<<[Picture EXCEPT !.src = Https("elsewhere")], [Fill EXCEPT !.colour = FALSE]>>),
          Obj(<<[Picture EXCEPT !.src = Inline("image"), !.objectFit = Txt("zoom"), !.blendMode = Txt("xor")],
                [Picture EXCEPT !.src = Inline("text")]>>),
          Obj(<<[Fill EXCEPT !.blendMode = Txt("plus-lighter")], [Gradient EXCEPT !.kind = "angular-gradient"]>>),
          Obj(<<[Gradient EXCEPT !.transform = Turn(Num(20000000), Num(0))],
                [Gradient EXCEPT !.transform = Turn(Num(10), Garbled)]>>)}
Path == [chars |-> TRUE, bytes |-> 8192, commands |-> 4000, moves |-> TRUE, rule |-> "evenodd"]
Paths == {Path, [Path EXCEPT !.moves = FALSE], [Path EXCEPT !.bytes = 8193], [Path EXCEPT !.commands = 4001],
          [Path EXCEPT !.chars = FALSE]}
PathLists == {Obj(<<p, Path>>) : p \in Paths} \cup {Obj([i \in 1..65 |-> Path]), Obj(<<>>)}

Sample(key) ==
    CASE key \in {"blur", "backdropBlur"} -> Lengths
      [] key = "shadow" -> Shadows
      [] key \in {"noise", "texture"} -> Grains
      [] key = "glass" -> Lenses
      [] key = "blendMode" -> Blends
      [] key = "mask" -> Masks
      [] key \in {"fills", "backgrounds"} -> Fills
      [] key = "paths" -> PathLists
      [] key = "pathData" -> {Obj(p) : p \in Paths}
      [] key = "size" -> {Size}
      [] key = "position" -> {Obj([x |-> Num(10), y |-> Num(10)])}
      [] key = "stroke" -> {Obj([stroke |-> Txt("red"), stroke_width |-> Num(10)])}
      [] key = "stagger_ms" -> {Num(500), Num(-10)}
      [] key \in {"animate", "keyframes"} -> {Num(500), NegZero}
      [] OTHER -> {Txt("start")}
Base(kind) ==
    CASE kind = "x-zab.capture" -> ("x-zab.sourceKind" :> Txt("media.webcam")) @@
            ("x-zab.deviceRef" :> Txt("cam-1")) @@ ("size" :> Size)
      [] kind = "x-zab.meet-peer" -> ("x-zab.slotRef" :> Txt("slot-1")) @@ ("size" :> Size)
      [] kind = "shape" -> [geometry |-> Txt("path")]
      [] OTHER -> <<>>
Document(kind, given) ==
    [lsml |-> "1.2", profile |-> "none", kind |-> kind, given |-> given @@ Base(kind),
     bound |-> IF kind = "repeat" THEN {"items"} ELSE {}, anim |-> {}, animated |-> FALSE]
AnyDocument == Document("stack", <<>>)
Keys == UNION {Audited(kind) : kind \in Kinds} \cup {"tooltip"}
StaticDocuments == UNION {{Document(kind, key :> v) : v \in Sample(key)} : kind \in Kinds, key \in Keys}
Beside(p) ==
    CASE p = "glass" -> {<<>>, [backdropBlur |-> Num(500)]}
      [] p = "backdropBlur" -> {<<>>, [glass |-> Obj(Lens)], [blendMode |-> Txt("screen")]}
      [] p = "blur" -> {<<>>, [blendMode |-> Txt("screen")], [blur |-> Num(500)]}
      [] p = "blendMode" -> {<<>>, [rotation |-> Num(900), position |-> Obj([x |-> Num(10), y |-> Num(10)])],
                             [mask |-> Obj(ShapeMask)], [mask |-> Obj([ShapeMask EXCEPT !.ref = "nowhere"])]}
      [] p = "mask" -> {<<>>, [blendMode |-> Txt("screen")]}
      [] p = "pathData" -> {<<>>, [paths |-> Obj(<<Path>>)]}
      [] OTHER -> {<<>>}
GatedIn(kind) ==
    {"blur", "backdropBlur", "shadow", "noise", "texture", "glass", "blendMode", "mask"} \cup
    CASE kind = "frame" -> {"backgrounds"} [] kind = "shape" -> {"fills", "paths", "pathData"} [] OTHER -> {}
BoundDocuments ==
    UNION {{[Document(kind, beside) EXCEPT !.bound = {p}] : beside \in Beside(p)} :
           <<kind, p>> \in UNION {{kind} \X GatedIn(kind) : kind \in {"text", "frame", "shape"}}}
AnimatedDocuments ==
    {[Document(kind, <<>>) EXCEPT !.anim = {key}, !.animated = TRUE] : kind \in {"text", "frame", "shape"},
     key \in BIND_ANIMATE_SCALAR_KEYS \cup {"style.color", "fill", "background"}}
MCDocuments ==
    StaticDocuments \cup BoundDocuments \cup AnimatedDocuments \cup
    {[AnyDocument EXCEPT !.lsml = "2.0"]} \cup
    {[AnyDocument EXCEPT !.profile = p] : p \in {"x-zab.capture/1", "x-zab.authoring/1", "x-zab.authoring.fx/1"}}
MCScene == ("star" :> [kind |-> "shape", parts |-> <<"outline">>]) @@
    ("halo" :> [kind |-> "frame", parts |-> <<
        [kind |-> "shape", visible |-> FALSE, blurred |-> FALSE, inside |-> 0],
        [kind |-> "shape", visible |-> TRUE, blurred |-> TRUE, inside |-> 0],
        [kind |-> "frame", visible |-> TRUE, blurred |-> FALSE, inside |-> 1],
        [kind |-> "shape", visible |-> TRUE, blurred |-> FALSE, inside |-> 0]>>]) @@
    ("void" :> [kind |-> "frame", parts |-> <<[kind |-> "text", visible |-> TRUE, blurred |-> FALSE, inside |-> 0]>>])

-----------------------------------------------------------------------------
Init ==
    /\ BindInit /\ CaptureInit /\ MeetInit /\ RoomsInit /\ DevSessionInit
    /\ \/ part = "node" /\ NodeInit
       \/ /\ part \in {"bind", "capture", "meet", "rooms", "adapter"}
          /\ doc = AnyDocument /\ phase = "authored" /\ node = NoNode /\ leaf = <<>> /\ diagnosed = {}
    /\ part = "meet" \/ ~polite
Next ==
    \/ InBind(BindNext) \/ InCapture(CaptureNext) \/ InMeet(MeetNext)
    \/ InRooms(RoomsNext) \/ InNode(NodeNext) \/ InAdapter(DevSessionNext)
PageSpec ==
    /\ Init /\ [][Next]_vars
    /\ WF_vars(InBind(OnFrame)) /\ \A k \in BindKeys : WF_vars(InBind(Settle(k)))
    /\ WF_vars(InMeet(NegotiationNeeded)) /\ WF_vars(InMeet(OperationDone))
    /\ WF_vars(InMeet(ViewerHears)) /\ WF_vars(InMeet(PeerHears)) /\ WF_vars(InMeet(PeerOffers))
    /\ \A c \in Conns : WF_vars(InAdapter(AdapterHears(c))) /\ WF_vars(InAdapter(DevHears(c)))
    /\ WF_vars(InAdapter(AdapterReopens)) /\ WF_vars(InAdapter(AdapterConnects))

\* AdapterCatchesUp, where there is an adapter.
DevCatchesUp == part = "adapter" => AdapterCatchesUp

MCLabelKey(p) == "guest"
MCGoodTarget(key, v) == IF v \in {Unset, "bad"} THEN Unset ELSE v
MCSources == {[kind |-> "media.webcam", declared |-> TRUE], [kind |-> "media.screen", declared |-> FALSE]}
=============================================================================
