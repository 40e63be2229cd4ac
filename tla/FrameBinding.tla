---------------------------- MODULE FrameBinding ----------------------------
(***************************************************************************)
(* useBindAnimate and the frame coalescer behind it: live values of the    *)
(* leaves a node's `animateBindings` name wait, one per binding, for the   *)
(* next animation frame, which retargets the animations.  A value that is  *)
(* refused leaves the last good one.                                       *)
(***************************************************************************)
EXTENDS Naturals, Functions, TLC

CONSTANTS BindKeys,      \* the bound animation keys of the node
          ColourKeys,    \* the colour-typed ones among them
          LeafValues,    \* values the host publishes on a leaf
          Unset,         \* no value
          GoodTarget(_, _), \* what a key makes of a value: a target, or Unset when refused
          MaxPublished   \* bound: values written

VARIABLES
    leaves,     \* leaves[k]: the leaf bound to k
    bound,      \* is the node mounted (the effect's subscriptions are up)?
    waiting,    \* key -> value: the coalescer's pending map
    scheduled,  \* frameId: a flush is scheduled
    shown,      \* shown[k]: where the motion value or the colour of k is
    motion,     \* motion[k]: the target of the animation in flight, or Unset
    coloured,   \* colour keys with a good value since the node was mounted
    writes
bindVars == <<leaves, bound, waiting, scheduled, shown, motion, coloured, writes>>

None0 == [k \in BindKeys |-> Unset]
BindInit ==
    /\ leaves = None0 /\ bound = FALSE /\ waiting = <<>> /\ scheduled = FALSE
    /\ shown = None0 /\ motion = None0 /\ coloured = {} /\ writes = 0

\* The effect runs: every leaf that has a value is shown at once, without animation.
Bind ==
    /\ ~bound /\ bound' = TRUE
    /\ shown' = [k \in BindKeys |-> IF GoodTarget(k, leaves[k]) = Unset THEN shown[k]
                                    ELSE GoodTarget(k, leaves[k])]
    /\ coloured' = {k \in ColourKeys : GoodTarget(k, leaves[k]) # Unset}
    /\ UNCHANGED <<leaves, waiting, scheduled, motion, writes>>
\* Its cleanup: subscriptions, coalescer (the frame cancelled, what waits dropped),
\* animations stopped where they are; the motion values stay.
Unbind ==
    /\ bound /\ bound' = FALSE
    /\ waiting' = <<>> /\ scheduled' = FALSE
    /\ motion' = None0
    /\ UNCHANGED <<leaves, shown, coloured, writes>>

\* Fault: the value that waits already is kept.
PushFirst(key, value) ==
    /\ waiting' = waiting @@ (key :> value)
    /\ scheduled' = TRUE
\* coalescer.push: the latest value of the key waits; one frame is scheduled.
Push(key, value) ==
    /\ waiting' = (key :> value) @@ waiting
    /\ scheduled' = TRUE

\* A leaf changes; its effect pushes the value, unless the node is not mounted.
Publish(key, value) ==
    /\ writes < MaxPublished /\ writes' = writes + 1
    /\ leaves[key] # value
    /\ leaves' = [leaves EXCEPT ![key] = value]
    /\ IF bound THEN Push(key, value) ELSE UNCHANGED <<waiting, scheduled>>
    /\ UNCHANGED <<bound, shown, motion, coloured>>

\* onFrame: what waits is taken, then each good value retargets its animation; the
\* first good colour since the mount has nothing to start from and shows at once.
OnFrame ==
    /\ scheduled /\ scheduled' = FALSE /\ waiting' = <<>>
    /\ LET good == {k \in DOMAIN waiting : GoodTarget(k, waiting[k]) # Unset}
           first == (good \cap ColourKeys) \ coloured
       IN  /\ motion' = [k \in BindKeys |-> IF k \in good \ first THEN GoodTarget(k, waiting[k]) ELSE motion[k]]
           /\ shown' = [k \in BindKeys |-> IF k \in first THEN GoodTarget(k, waiting[k]) ELSE shown[k]]
           /\ coloured' = coloured \cup first
    /\ UNCHANGED <<leaves, bound, writes>>

\* External: the animation of a key reaches its target.
Settle(key) ==
    /\ motion[key] # Unset
    /\ shown' = [shown EXCEPT ![key] = motion[key]]
    /\ motion' = [motion EXCEPT ![key] = Unset]
    /\ UNCHANGED <<leaves, bound, waiting, scheduled, coloured, writes>>

BindNext == \/ Bind \/ Unbind \/ OnFrame
            \/ \E k \in BindKeys : Settle(k) \/ \E v \in LeafValues : Publish(k, v)

-----------------------------------------------------------------------------
Arrived(key) == shown[key] = GoodTarget(key, leaves[key]) /\ motion[key] = Unset
\* A mounted node's binding comes to show the last value of its leaf, when that value
\* is one the key accepts: whatever waited, was refused, was in flight or was cut
\* by a rewiring before.
LatestGoodReached ==
    \A k \in BindKeys : \A v \in { w \in LeafValues : GoodTarget(k, w) # Unset } :
        (bound /\ leaves[k] = v) ~> (Arrived(k) \/ ~bound \/ leaves[k] # v)
=============================================================================
