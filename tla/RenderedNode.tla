---------------------------- MODULE RenderedNode ----------------------------
(***************************************************************************)
(* A node on its way from a document to the screen: compiled or refused,   *)
(* mounted or found incompatible, then repainted at every value a leaf it  *)
(* is bound to takes.  The values of leaves have seen no compiler, so the  *)
(* renderer repeats every gate: this module holds the two against each     *)
(* other.                                                                  *)
(***************************************************************************)
EXTENDS Compiler, Renderer

CONSTANTS Documents,       \* [lsml, profile, kind, given, bound, anim, animated] each
          Published(_),    \* values that come on the leaf a prop is bound to
          AllowedHosts     \* assets.allowedHosts of the bundle

\* Documents are typed: a pair has both its halves.
ASSUME DocumentsAssumption ==
    \A d \in Documents :
        /\ DOMAIN d = {"lsml", "profile", "kind", "given", "bound", "anim", "animated"}
        /\ d.kind \in Kinds
        /\ \A key \in DOMAIN d.given \cap Pairs : \A p \in PropsOf(key) : Given(d.given[key].o[p])

VARIABLES doc, phase,
          node,      \* the render node
          leaf,      \* prop -> value of the leaf it is bound to
          diagnosed  \* props the audit of the mounted node reported
nodeVars == <<doc, phase, node, leaf, diagnosed>>

SUPPORTED_PROFILES == {"x-lumencast.color-srgb-1.0", "x-zab.capture/1"}
\* x-<vendor>.authoring/<major>, in use here under one name: advisory.
isAuthoringProfile(profile) == profile = "x-zab.authoring/1"
Compatible(profile) == profile = "none" \/ profile \in SUPPORTED_PROFILES \/ isAuthoringProfile(profile)

Compilable(d) == d.lsml \in SUPPORTED_VERSIONS /\ ~Refused(d)
NoNode == compileNode([kind |-> "stack", given |-> <<>>, bound |-> {}, anim |-> {}, animated |-> FALSE], {})
NodeInit ==
    /\ doc \in Documents /\ phase = "authored"
    /\ node = NoNode /\ leaf = <<>> /\ diagnosed = {}

compileBundle ==
    /\ phase = "authored" /\ Compilable(doc) /\ phase' = "compiled"
    /\ node' = compileNode(doc, AllowedHosts)
    /\ UNCHANGED <<doc, leaf, diagnosed>>
Refuse ==
    /\ phase = "authored" /\ ~Compilable(doc) /\ phase' = "refused"
    /\ UNCHANGED <<doc, node, leaf, diagnosed>>
MountBundle ==
    /\ phase = "compiled" /\ Compatible(doc.profile) /\ phase' = "mounted"
    /\ leaf' = [p \in node.bindings |-> Absent]
    /\ diagnosed' = checkNodeProps(node)
    /\ UNCHANGED <<doc, node>>
Incompatible ==
    /\ phase = "compiled" /\ ~Compatible(doc.profile) /\ phase' = "incompatible"
    /\ UNCHANGED <<doc, node, leaf, diagnosed>>
\* The leaf of a bound prop takes a value, and the node is painted anew.
Arrives(p, v) ==
    /\ phase = "mounted" /\ p \in node.bindings
    /\ leaf' = [leaf EXCEPT ![p] = v]
    /\ UNCHANGED <<doc, phase, node, diagnosed>>
NodeNext ==
    \/ compileBundle \/ Refuse \/ MountBundle \/ Incompatible
    \/ \E p \in node.bindings : \E v \in Published(p) : Arrives(p, v)
NodeSpec == NodeInit /\ [][NodeNext]_nodeVars

\* A bound prop is what its leaf is, be that nothing, whatever the document gave.
resolveProps == Style([p \in DOMAIN node.props \cup node.bindings |->
                          IF p \in node.bindings THEN leaf[p] ELSE node.props[p]])

-----------------------------------------------------------------------------
(* What is lost today with no diagnostic, and is known. *)
KnownSilent(kind, key) ==
    \/ key = "opacity" /\ kind \notin {"frame", "text", "image", "shape"}   \* the wrapper reads universal_opacity
    \/ key = "shadow" /\ kind # "frame"                                     \* listed as universal, read by frame
    \/ key = "size" /\ kind \in {"media", "instance", "x-zab.meet-peer"}    \* the box is sized where it is placed
    \/ key = "params" /\ kind = "instance"                                  \* a scaffold, diagnosed once per scene
Spoken(key) ==
    \/ key \in node.warned
    \/ /\ key \in DOMAIN Emits(doc.kind)
       /\ Emits(doc.kind)[key] \subseteq Reads(doc.kind, node.props) \cup diagnosed
\* Nothing an author wrote is lost without a word: every key of a mounted node is
\* reported by the compiler, or all it becomes is read or reported by the renderer;
\* and the authored timing of a bound animation is where its animation looks for it.
NoSilentDrop ==
    phase = "mounted" =>
        /\ \A key \in DOMAIN doc.given \ (EXEMPT_KEYS \cup StructuralKeys) :
            Spoken(key) \/ KnownSilent(doc.kind, key)
        /\ doc.animated => \A key \in doc.anim : transitionLookupKey(key) \in node.transitions

\* The document that gives p the value itself.
AuthoredWith(p, v) ==
    LET keys == (DOMAIN doc.given \ {p}) \cup (IF Given(v) THEN {p} ELSE {})
    IN  [doc EXCEPT !.bound = @ \ {p}, !.given = [key \in keys |-> IF key = p THEN v ELSE doc.given[key]]]
(* Where the two gates differ today, and it is known. *)
Layers(v) == IF IsObj(v) THEN {v.o[i] : i \in DOMAIN v.o} ELSE {}
RendererOnlyBlend(p, v) ==
    \/ p = "blendMode" /\ v = Txt("plus-lighter")
    \/ p \in {"fills", "backgrounds"} /\ \E f \in Layers(v) : f.blendMode = Txt("plus-lighter")
LooseTransform(p, v) ==
    p \in {"fills", "backgrounds"} /\ \E f \in Layers(v) :
        Given(f.transform) /\ clampGradientTransform(f.transform) # f.transform
\* A live mask that is malformed still takes the blend away from the wrapper.
MaskEatsBlend(p, v) ==
    p = "mask" /\ Given(v) /\ ~Given(lowerMask(v)) /\ Given(Get(doc.given, "blendMode"))
PaintsAsAuthored(p) ==
    LET authored == AuthoredWith(p, leaf[p])
    IN  \/ ~Compilable(authored)
        \/ RendererOnlyBlend(p, leaf[p]) \/ LooseTransform(p, leaf[p]) \/ MaskEatsBlend(p, leaf[p])
        \/ Painted(doc.kind, resolveProps, AllowedHosts)
           = Painted(doc.kind, compileNode(authored, AllowedHosts).props, AllowedHosts)
\* A value that comes live paints what it paints when a document gives it, unless the
\* compiler refuses that document: caps, enumerations and hosts are gated alike twice.
LiveIsAuthored == phase = "mounted" => \A p \in node.bindings : PaintsAsAuthored(p)
=============================================================================
