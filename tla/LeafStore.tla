----------------------------- MODULE LeafStore -----------------------------
(***************************************************************************)
(* The runtime's leaf store (packages/runtime/src/state/store.ts) and the  *)
(* two ways a frame is applied to it (apply-snapshot.ts, apply-delta.ts):  *)
(* a value and a transition directive per path.  A path the store has not  *)
(* seen reads as undefined, like one a snapshot left out, so every path    *)
(* has an entry here and None is undefined.                                *)
(*                                                                         *)
(* The state of a snapshot is a function on some of the paths.  A delta is *)
(* a function on the paths it patches, one patch for a path, to the value  *)
(* and the directive of the patch, None when it carries no directive.      *)
(***************************************************************************)
CONSTANTS Paths, None

EmptyStore ==
    [ values |-> [p \in Paths |-> None], directives |-> [p \in Paths |-> None] ]

\* A leaf of a snapshot's state; a path the snapshot leaves out is undefined.
Leaf(state, p) == IF p \in DOMAIN state THEN state[p] ELSE None

\* The values reset leaves: the snapshot's, and undefined everywhere else.
Restored(state) == [p \in Paths |-> Leaf(state, p)]

\* applySnapshot -> reset.  Directives are cleared on the snapshot's paths.
Reset(store, state) ==
    [ values |-> Restored(state),
      directives |-> [p \in Paths |->
          IF p \in DOMAIN state THEN None ELSE store.directives[p]] ]

\* The values the writes of a delta leave.
Written(values, patches) ==
    [p \in Paths |-> IF p \in DOMAIN patches THEN patches[p].value ELSE values[p]]

\* Fault: value and directive exchanged in the call of setWithTransition.
PatchedExchanged(store, patches) ==
    [ values |-> [p \in Paths |->
          IF p \in DOMAIN patches /\ patches[p].transition # None
          THEN patches[p].transition ELSE Written(store.values, patches)[p]],
      directives |-> store.directives ]

\* applyDelta: set, or setWithTransition for a patch with a directive.  A
\* patch without one leaves the path's directive as it is.
Patched(store, patches) ==
    [ values |-> Written(store.values, patches),
      directives |-> [p \in Paths |->
          IF p \in DOMAIN patches /\ patches[p].transition # None
          THEN patches[p].transition ELSE store.directives[p]] ]
=============================================================================
