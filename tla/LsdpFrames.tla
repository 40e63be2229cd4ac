----------------------------- MODULE LsdpFrames -----------------------------
(***************************************************************************)
(* The LSDP frames that cross the wire, as records (protocol/envelope.ts,  *)
(* protocol/types.ts).  A snapshot's state and a delta's patches are       *)
(* abstracted to the scene they belong to and the scene's number: number n *)
(* of scene s always stands for the same content.  A frame that the        *)
(* receiver's decoder rejects is a record of type "malformed".             *)
(***************************************************************************)
EXTENDS Naturals

CONSTANT Tokens         \* the session tokens in circulation

\* subscribe(): `since` is since_sequence, 0 when the field is absent.
Subscribe(token, since) == [type |-> "subscribe", token |-> token, since |-> since]

\* input(): the patches, non-empty, each a path of some class and whether its
\* value meets the declared constraint.
Input(patches) == [type |-> "input", patches |-> patches]

Ping == [type |-> "ping"]
Pong == [type |-> "pong"]
Unsubscribe == [type |-> "unsubscribe"]

Snapshot(scene, seq) == [type |-> "snapshot", scene |-> scene, seq |-> seq]
Delta(scene, seq) == [type |-> "delta", scene |-> scene, seq |-> seq]
SceneChanged(scene, seq) == [type |-> "scene_changed", scene |-> scene, seq |-> seq]
SceneRoster == [type |-> "scene_roster"]
ErrorFrame(code, recoverable) ==
    [type |-> "error", code |-> code, recoverable |-> recoverable]

\* What the decoders make of bytes they refuse: `version` is a wrong envelope.v,
\* `fatal` a structural error, `value` a recoverable one inside a patch.
Malformed(kind) == [type |-> "malformed", kind |-> kind]

SceneData(frame) == frame.type \in {"snapshot", "delta"}
=============================================================================
