---------------------------- MODULE CaptureCache ----------------------------
(***************************************************************************)
(* capture-stream-cache.ts with its only consumer, the Capture primitive:  *)
(* the cache shares one acquisition of a device between the nodes that     *)
(* show it, counts their claims, and stops the tracks with the last one.   *)
(* The resolver, the device and React's effects answer in any order.  A    *)
(* node paints from its own state, which outlives the claim it came from.  *)
(***************************************************************************)
EXTENDS Naturals, Sequences, FiniteSets, Functions

CONSTANTS CaptureNodes,   \* node instances that may be mounted
          CaptureSources, \* [kind |-> sourceKind, declared |-> BOOLEAN]
          Devices,        \* what the host's resolver may answer
          Unresolved,     \* ... or this: no device
          MaxClaims       \* bound: effects run

VARIABLES
    claims,     \* sequence of the effects run: one per mount or change of source
    current,    \* current[n]: the claim of the mounted node n, 0 when unmounted
    cache,      \* key -> [acq, refs]
    acqs,       \* sequence of the acquisitions: [key, is]; is: pending, live, failed, stopped
    nodeStream, \* nodeStream[n]: the acquisition in the React state of node n, 0 for null
    nodeVideo   \* nodeVideo[n]: the acquisition its <video> plays, 0 without a <video> or srcObject
captureVars == <<claims, current, cache, acqs, nodeStream, nodeVideo>>
nodeState == <<nodeStream, nodeVideo>>

ScreenKinds == {"media.screen", "media.window", "media.app"}
DeviceKinds == {"media.webcam", "media.mic", "media.app_audio"}
\* isVisualKind; files and games are visual, though nothing acquires them.
Visual(source) == source.kind \in ScreenKinds \cup {"media.webcam", "media.file", "media.game"}

CaptureInit ==
    /\ claims = <<>> /\ current = [n \in CaptureNodes |-> 0]
    /\ cache = <<>> /\ acqs = <<>>
    /\ nodeStream = [n \in CaptureNodes |-> 0] /\ nodeVideo = [n \in CaptureNodes |-> 0]

\* The physical key of a claim, or Unresolved: a declared device that was not
\* resolved, and an unknown kind, acquire nothing.
KeyOf(source, device) ==
    IF source.kind \notin ScreenKinds \cup DeviceKinds THEN Unresolved
    ELSE IF device # Unresolved THEN <<source.kind, device>>
    ELSE IF source.declared THEN Unresolved
    ELSE <<source.kind, IF source.kind \in DeviceKinds THEN "default" ELSE "display">>

\* acquireCaptureStream, of a key that has no entry: one claim on acquisition a.
Entered(key, a) ==
    [k \in DOMAIN cache \cup {key} |-> IF k = key THEN [acq |-> a, refs |-> 1] ELSE cache[k]]

\* releaseCaptureStream: the count, and with the last claim the entry and its tracks.
Release(key) ==
    IF key \notin DOMAIN cache THEN UNCHANGED <<cache, acqs>>
    ELSE IF cache[key].refs > 1
         THEN cache' = [cache EXCEPT ![key].refs = @ - 1] /\ UNCHANGED acqs
         ELSE /\ cache' = Restrict(cache, DOMAIN cache \ {key})
              /\ acqs' = [acqs EXCEPT ![cache[key].acq].is = IF @ = "live" THEN "stopped" ELSE @]

\* The effect's cleanup for claim i of a node: cancelled; what it holds is released.
Cleanup(i) ==
    IF claims[i].at = "holding" THEN Release(claims[i].key) ELSE UNCHANGED <<cache, acqs>>

NewClaim(source) ==
    [source |-> source, at |-> "resolving", cancelled |-> FALSE, key |-> Unresolved, acq |-> 0]
\* An effect that is over and has been cleaned up tells nothing any more.
Over == [source |-> Unresolved, at |-> "done", cancelled |-> TRUE, key |-> Unresolved, acq |-> 0]
Cancelled(i) == [claims EXCEPT ![i] = IF @.at \in {"holding", "done"} THEN Over ELSE [@ EXCEPT !.cancelled = TRUE]]
\* The effect has ended without a stream.  It does not touch the node's state: the
\* placeholder is shown only if no effect of the node had a stream before.
Done(i) == [claims EXCEPT ![i] = IF @.cancelled THEN Over
                                 ELSE [@ EXCEPT !.at = "done", !.key = Unresolved, !.acq = 0]]

MountCapture(n, source) ==
    /\ current[n] = 0 /\ Len(claims) < MaxClaims
    /\ claims' = Append(claims, NewClaim(source))
    /\ current' = [current EXCEPT ![n] = Len(claims')]
    /\ UNCHANGED <<cache, acqs, nodeState>>
\* The node's sourceKind or deviceRef changes: the old effect's cleanup, the new effect.
\* The state keeps the old stream, stopped or not, and so does the <video> between two
\* visual kinds; one that is rendered anew gets no srcObject, for the state is the same.
ChangeSource(n, source) ==
    /\ current[n] # 0 /\ Len(claims) < MaxClaims /\ claims[current[n]].source # source
    /\ Cleanup(current[n])
    /\ claims' = Append(Cancelled(current[n]), NewClaim(source))
    /\ current' = [current EXCEPT ![n] = Len(claims')]
    /\ nodeVideo' = [nodeVideo EXCEPT ![n] =
                    IF Visual(claims[current[n]].source) /\ Visual(source) THEN @ ELSE 0]
    /\ UNCHANGED nodeStream
\* The state goes with the node.
UnmountCapture(n) ==
    /\ current[n] # 0
    /\ Cleanup(current[n])
    /\ claims' = Cancelled(current[n])
    /\ current' = [current EXCEPT ![n] = 0]
    /\ nodeStream' = [nodeStream EXCEPT ![n] = 0] /\ nodeVideo' = [nodeVideo EXCEPT ![n] = 0]

\* The host's resolver answers: nothing to acquire, a claim on the entry of that key,
\* or a new entry whose acquisition starts.
ResolverAnswers(i, device) ==
    LET key == KeyOf(claims[i].source, device)
        Waits(acq) == claims' = [claims EXCEPT ![i].at = "waiting", ![i].key = key, ![i].acq = acq]
    IN  /\ claims[i].at = "resolving"
        /\ IF key = Unresolved
           THEN claims' = Done(i) /\ UNCHANGED <<cache, acqs>>
           ELSE IF key \in DOMAIN cache
                THEN /\ Waits(cache[key].acq)
                     /\ cache' = [cache EXCEPT ![key].refs = @ + 1]
                     /\ UNCHANGED acqs
                ELSE /\ acqs' = Append(acqs, [key |-> key, is |-> "pending"])
                     /\ Waits(Len(acqs'))
                     /\ cache' = Entered(key, Len(acqs'))
        /\ UNCHANGED <<current, nodeState>>

DeviceOpens(a) ==
    /\ acqs[a].is = "pending"
    /\ acqs' = [acqs EXCEPT ![a].is = "live"]
    /\ UNCHANGED <<claims, current, cache, nodeState>>
\* getUserMedia is refused: the entry of the key is evicted; every effect that waits
\* ends, and its node goes on with the state it had.
DeviceFails(a) ==
    /\ acqs[a].is = "pending"
    /\ acqs' = [acqs EXCEPT ![a].is = "failed"]
    /\ cache' = Restrict(cache, DOMAIN cache \ {acqs[a].key})
    /\ claims' = [i \in DOMAIN claims |->
                    IF claims[i].at = "waiting" /\ claims[i].acq = a
                    THEN Done(i)[i] ELSE claims[i]]
    /\ UNCHANGED <<current, nodeState>>

\* setStream in the effect i of a mounted node, and the effect that attaches the new
\* stream to the <video>; it does not run when the state was that stream already.
SetStream(i) ==
    /\ nodeStream' = [n \in CaptureNodes |-> IF current[n] = i THEN claims[i].acq ELSE nodeStream[n]]
    /\ nodeVideo' = [n \in CaptureNodes |->
                    IF nodeStream'[n] # nodeStream[n] /\ Visual(claims[i].source) THEN nodeStream'[n] ELSE nodeVideo[n]]

\* Fault: the effect does not look whether it was cancelled while it waited.
ContinueAnyway(i) ==
    /\ claims[i].at = "waiting" /\ acqs[claims[i].acq].is \in {"live", "stopped"}
    /\ claims' = [claims EXCEPT ![i].at = "holding"]
    /\ SetStream(i)
    /\ UNCHANGED <<current, cache, acqs>>
\* The effect goes on after `await claim.promise`.
Continue(i) ==
    /\ claims[i].at = "waiting" /\ acqs[claims[i].acq].is \in {"live", "stopped"}
    /\ IF claims[i].cancelled
       THEN Release(claims[i].key) /\ claims' = Done(i) /\ UNCHANGED nodeState
       ELSE /\ claims' = [claims EXCEPT ![i].at = "holding"] /\ SetStream(i)
            /\ UNCHANGED <<cache, acqs>>
    /\ UNCHANGED current

CaptureNext ==
    \/ \E n \in CaptureNodes : \/ UnmountCapture(n)
                               \/ \E s \in CaptureSources : MountCapture(n, s) \/ ChangeSource(n, s)
    \/ \E i \in DOMAIN claims : \/ Continue(i)
                                \/ \E d \in Devices \cup {Unresolved} : ResolverAnswers(i, d)
    \/ \E a \in DOMAIN acqs : DeviceOpens(a) \/ DeviceFails(a)

CaptureSpec == CaptureInit /\ [][CaptureNext]_captureVars

-----------------------------------------------------------------------------
\* A claim that counts: it waits for its stream, or it holds it and was not cleaned up.
Counts(i) == claims[i].at = "waiting" \/ (claims[i].at = "holding" /\ ~claims[i].cancelled)

\* A device is open exactly for its holders, however unmounts, changes of source, the
\* resolver and the device interleave: every live stream has a claim that counts; a
\* claim that holds is that of a mounted node, whose state is that stream, live; no key
\* is acquired twice at a time, and the counts of the cache are right.  A <video> plays
\* the state of its node and nothing else.  Of a node whose effect does not hold a
\* claim (yet, or ever) the state is only what an effect before it set: after a change
\* of source it may be a stopped stream, and nothing here says that it is live.
StreamsFollowHolders ==
    /\ \A a \in DOMAIN acqs : acqs[a].is = "live" =>
         \E i \in DOMAIN claims : Counts(i) /\ claims[i].acq = a
    /\ \A i \in DOMAIN claims : claims[i].at = "holding" /\ ~claims[i].cancelled =>
         \E n \in CaptureNodes :
            current[n] = i /\ nodeStream[n] = claims[i].acq /\ acqs[nodeStream[n]].is = "live"
    /\ \A a, b \in DOMAIN acqs :
         {acqs[a].is, acqs[b].is} \subseteq {"pending", "live"} /\ acqs[a].key = acqs[b].key => a = b
    /\ \A key \in DOMAIN cache : cache[key].refs =
         Cardinality({i \in DOMAIN claims : Counts(i) /\ claims[i].acq = cache[key].acq})
    /\ \A n \in CaptureNodes : nodeVideo[n] # 0 =>
         current[n] # 0 /\ nodeVideo[n] = nodeStream[n] /\ Visual(claims[current[n]].source)
=============================================================================
