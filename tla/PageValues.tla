----------------------------- MODULE PageValues -----------------------------
(***************************************************************************)
(* Values of a document or of a leaf, as the gates of the compiler and of  *)
(* the renderer tell them apart: numbers in tenths of a unit, -0 by itself *)
(* (it slips past `< 0`), strings, and what is not there.                  *)
(***************************************************************************)
EXTENDS Integers, Sequences, FiniteSets, FiniteSetsExt, SequencesExt, Functions, TLC

One == 10
Num(n) == [n |-> n]
NegZero == [n |-> 0, neg |-> TRUE]
Txt(s) == [s |-> s]
Flag(b) == [b |-> b]
Obj(o) == [o |-> o]
Absent == [none |-> TRUE]

IsNum(v) == "n" \in DOMAIN v
IsNegZero(v) == "neg" \in DOMAIN v
IsTxt(v) == "s" \in DOMAIN v
IsObj(v) == "o" \in DOMAIN v
Given(v) == v # Absent
Clamp(n, low, high) == IF n < low THEN low ELSE IF n > high THEN high ELSE n
\* Number(v) ?? default, for a value that must be a finite number.
NumberOr(v, default) == IF IsNum(v) THEN v.n ELSE default
Get(props, p) == IF p \in DOMAIN props THEN props[p] ELSE Absent
\* The elements at some positions, in their order.
Picked(s, positions) == LET at == SetToSortSeq(positions, <) IN [j \in DOMAIN at |-> s[at[j]]]

-----------------------------------------------------------------------------
(* Asset URLs, and host-allow.ts: the gate both halves share. *)
Https(host) == [data |-> "no", absolute |-> TRUE, scheme |-> "https", credentials |-> FALSE, host |-> host]
Inline(what) == [data |-> what, absolute |-> TRUE, scheme |-> "data", credentials |-> FALSE, host |-> ""]
checkHostAllowed(url, hosts) ==
    \/ url.data = "image"
    \/ /\ url.data = "no" /\ url.absolute
       /\ url.scheme = "https" /\ ~url.credentials
       /\ url.host \in hosts

(* x-zab-capture.ts: the enumerations the vendor nodes are held to. *)
CAPTURE_VISUAL_KINDS == {"media.webcam", "media.screen", "media.window", "media.app", "media.file", "media.game"}
CAPTURE_SOURCE_KINDS == CAPTURE_VISUAL_KINDS \cup {"media.app_audio", "media.system_audio", "media.mic"}
\* Logical aliases, not physical ids: ^[a-z][a-z0-9-]{0,63}$ over the names in use.
Aliases == {"cam-1", "slot-1"}
checkZabCaptureNode(kind, ref, sized) ==
    /\ IsTxt(kind) /\ kind.s \in CAPTURE_SOURCE_KINDS
    /\ IsTxt(ref) /\ ref.s \in Aliases
    /\ kind.s \in CAPTURE_VISUAL_KINDS => sized

-----------------------------------------------------------------------------
(* Paths: [chars: inside the allowlist, bytes, commands, moves: starts with a
   moveto, rule].  Both halves count with the same caps. *)
MAX_PATH_SUBPATH_BYTES == 8192
MAX_PATH_COMMANDS == 4000
MAX_PATH_SUBPATHS == 64
PathWithinCaps(d) == d.chars /\ d.bytes \in 1..MAX_PATH_SUBPATH_BYTES /\ d.commands \in 1..MAX_PATH_COMMANDS
=============================================================================
