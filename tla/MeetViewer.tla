----------------------------- MODULE MeetViewer -----------------------------
(***************************************************************************)
(* meet-viewer.ts with one peer: joining the room, one RTCPeerConnection   *)
(* for the peer, perfect negotiation over the relay.  The operations of    *)
(* the viewer's connection are chained, as the platform chains them, and   *)
(* the viewer's handlers of two signals run between each other's awaits.   *)
(* The room and the peer are external: the relay keeps the order of the    *)
(* messages, the peer negotiates as the specification of WebRTC says.      *)
(***************************************************************************)
EXTENDS Naturals, Sequences, SequencesExt, FiniteSets

CONSTANT MaxWants     \* bound: times the peer comes to need a negotiation

VARIABLES
    ws,       \* the viewer's socket: new, opening, open, closed
    self,     \* the viewer's peer id is known (a joined message came)
    polite,   \* the viewer's id is the greater one (chosen by the room)
    remote,   \* the RemoteState of the peer, or NoRemote
    peer,     \* external: the peer
    up, down, \* messages on their way to the room and to the viewer
    stranded  \* an offer was ignored while an answer was being applied
meetVars == <<ws, self, polite, remote, peer, up, down, stranded>>

Nothing == [type |-> "none", n |-> 0]
Offer(n) == [type |-> "offer", n |-> n]
Answer(n) == [type |-> "answer", n |-> n]     \* the answer to offer n
\* Offers are numbered, the viewer's odd and the peer's even.
Sdp(d) == [type |-> "sdp", desc |-> d]
Ice(n) == [type |-> "ice", n |-> n]           \* a candidate of the peer's description n

NoRemote == [known |-> FALSE]
\* ensureRemote: a connection with two recvonly transceivers still to negotiate.
\* name is the announced one, or the id's prefix when a signal made the entry.
NewRemote(name) ==
    [known |-> TRUE, name |-> name, makingOffer |-> FALSE, ignoreOffer |-> FALSE,
     pendingCandidates |-> <<>>,
     sig |-> "stable", local |-> Nothing, got |-> Nothing,
     needed |-> TRUE, fired |-> FALSE,        \* [[NegotiationNeeded]], and its event
     chain |-> <<>>,                          \* operations: [op, desc, left, by]
     added |-> {}, gathered |-> TRUE, next |-> 1]
EnsureRemote(name) == IF remote.known THEN remote ELSE NewRemote(name)

MeetInit ==
    /\ ws = "new" /\ self = FALSE /\ polite \in BOOLEAN /\ remote = NoRemote
    /\ peer = [here |-> FALSE, knows |-> FALSE, left |-> FALSE, sig |-> "stable", local |-> Nothing,
               got |-> Nothing, needs |-> FALSE, wants |-> 0, next |-> 2, gathered |-> TRUE]
    /\ up = <<>> /\ down = <<>> /\ stranded = FALSE

Signal(m) == up' = IF ws = "open" THEN Append(up, m) ELSE up

-----------------------------------------------------------------------------
(* The socket. *)
Join ==
    /\ ws = "new" /\ ws' = "opening"
    /\ UNCHANGED <<self, polite, remote, peer, up, down, stranded>>
MeetOpens ==
    /\ ws = "opening" /\ ws' = "open"
    /\ up' = Append(up, [type |-> "join"])
    /\ UNCHANGED <<self, polite, remote, peer, down, stranded>>
\* The socket ends (also before it opens: join() is rejected): tearDown closes every
\* connection.  leave() says so first and is otherwise the same.
MeetCloses ==
    /\ ws \in {"opening", "open"} /\ ws' = "closed"
    /\ remote' = NoRemote /\ up' = <<>> /\ down' = <<>>
    /\ UNCHANGED <<self, polite, peer, stranded>>

-----------------------------------------------------------------------------
(* The operations chain of the viewer's connection. *)
Op(op, desc, left, by) == [op |-> op, desc |-> desc, left |-> left, by |-> by]
Chained(r, o) == [r EXCEPT !.chain = Append(@, o)]
SetLocal(r, by) == Chained(r, Op("setLocal", Nothing, <<>>, by))

\* negotiationneeded: fired when nothing is chained and the state is stable.
NegotiationNeeded ==
    /\ remote.known /\ remote.needed /\ ~remote.fired
    /\ remote.chain = <<>> /\ remote.sig = "stable"
    /\ remote' = SetLocal([remote EXCEPT !.makingOffer = TRUE, !.fired = TRUE], "needed")
    /\ UNCHANGED <<ws, self, polite, peer, up, down, stranded>>

\* Fault: the list is emptied before the candidates that wait are added.
GoesOnWithout(r, desc, left) ==
    LET reset == [r EXCEPT !.pendingCandidates = <<>>]
    IN  IF desc.type = "offer" THEN SetLocal(reset, "signal") ELSE reset
\* The handler of a description goes on after setRemoteDescription, or after one of
\* the candidates that waited: the next one, or the list is emptied and an offer
\* answered.
GoesOn(r, desc, left) ==
    IF left # <<>> THEN Chained(r, Op("addWaiting", desc, left, "signal"))
    ELSE LET reset == [r EXCEPT !.pendingCandidates = <<>>]
         IN  IF desc.type = "offer" THEN SetLocal(reset, "signal") ELSE reset

Tail1 == [remote EXCEPT !.chain = Tail(@)]
ChainAt(op) == remote.known /\ remote.chain # <<>> /\ Head(remote.chain).op = op
ChainUnchanged == UNCHANGED <<ws, self, polite, peer, down, stranded>>

\* setLocalDescription() without an argument: an answer to a remote offer, else an
\* offer; the handler sends it.
LocalDone ==
    /\ ChainAt("setLocal")
    /\ LET answers == remote.sig = "have-remote-offer"
           desc == IF answers THEN Answer(remote.got.n) ELSE Offer(remote.next)
       IN  /\ Signal(Sdp(desc))
           /\ remote' = [Tail1 EXCEPT
                 !.local = desc, !.gathered = FALSE,
                 !.sig = IF answers THEN "stable" ELSE "have-local-offer",
                 !.fired = IF answers THEN FALSE ELSE @,
                 !.next = IF answers THEN @ ELSE @ + 2,
                 !.makingOffer = IF Head(remote.chain).by = "needed" THEN FALSE ELSE @]
    /\ ChainUnchanged
\* setRemoteDescription: an offer rolls a local one back; an answer needs its offer,
\* otherwise the handler ends with the error.
RemoteDone ==
    /\ ChainAt("setRemote")
    /\ LET desc == Head(remote.chain).desc
           fits == desc.type = "offer" \/ (remote.sig = "have-local-offer" /\ remote.local = Offer(desc.n))
           applied == [Tail1 EXCEPT
                 !.got = desc,
                 !.sig = IF desc.type = "offer" THEN "have-remote-offer" ELSE "stable",
                 !.needed = @ /\ desc.type = "offer",
                 !.fired = IF desc.type = "offer" THEN @ ELSE FALSE]
       IN  remote' = IF fits THEN GoesOn(applied, desc, remote.pendingCandidates) ELSE Tail1
    /\ UNCHANGED up /\ ChainUnchanged
\* addIceCandidate: accepted for the description it belongs to, its error is caught.
Accepted(n) == IF n = remote.got.n THEN {n} ELSE {}
WaitingAdded ==
    /\ ChainAt("addWaiting")
    /\ LET o == Head(remote.chain)
       IN  remote' = GoesOn([Tail1 EXCEPT !.added = @ \cup Accepted(Head(o.left))], o.desc, Tail(o.left))
    /\ UNCHANGED up /\ ChainUnchanged
CandidateAdded ==
    /\ ChainAt("add")
    /\ remote' = [Tail1 EXCEPT !.added = @ \cup Accepted(Head(remote.chain).desc.n)]
    /\ UNCHANGED up /\ ChainUnchanged
OperationDone == LocalDone \/ RemoteDone \/ WaitingAdded \/ CandidateAdded

\* A candidate of the viewer's own, for the peer.
IceCandidate ==
    /\ remote.known /\ ~remote.gathered
    /\ remote' = [remote EXCEPT !.gathered = TRUE]
    /\ Signal(Ice(remote.local.n))
    /\ ChainUnchanged
\* The connection fails, for the peer too: the entry is dropped; a signal still on its
\* way makes a new one.
ConnectionFails ==
    /\ remote.known /\ remote.sig = "stable" /\ remote.chain = <<>> /\ remote.got # Nothing
    /\ remote' = NoRemote
    /\ peer' = [peer EXCEPT !.knows = FALSE]
    /\ UNCHANGED <<ws, self, polite, up, down, stranded>>

-----------------------------------------------------------------------------
(* The viewer's messages. *)
Hears(type) == ws = "open" /\ down # <<>> /\ Head(down).type = type /\ down' = Tail(down)
HearUnchanged == UNCHANGED <<ws, polite, peer, up>>
IsPolite == self /\ polite

\* joined: the own id, and the peers that are there.
OnJoined ==
    /\ Hears("joined") /\ self' = TRUE
    /\ remote' = IF Head(down).peers THEN EnsureRemote("label") ELSE remote
    /\ UNCHANGED stranded /\ HearUnchanged
OnPeerJoined ==
    /\ Hears("peer-joined")
    /\ remote' = EnsureRemote("label")
    /\ UNCHANGED <<self, stranded>> /\ HearUnchanged
OnPeerLeft ==
    /\ Hears("peer-left")
    /\ remote' = NoRemote
    /\ UNCHANGED <<self, stranded>> /\ HearUnchanged

\* handleSignal up to its first await.  An offer collides with an own one, made or
\* in the making; the impolite side ignores it.
AnswerPending(r) == \E i \in DOMAIN r.chain :
    r.chain[i].op = "setRemote" /\ r.chain[i].desc.type = "answer"
OnDescription ==
    /\ Hears("sdp")
    /\ LET r == EnsureRemote("prefix")
           desc == Head(down).desc
           collision == desc.type = "offer" /\ (r.makingOffer \/ r.sig # "stable")
           ignore == ~IsPolite /\ collision
       IN  /\ remote' = IF ignore THEN [r EXCEPT !.ignoreOffer = TRUE]
                        ELSE Chained([r EXCEPT !.ignoreOffer = FALSE], Op("setRemote", desc, <<>>, "signal"))
           /\ stranded' = (stranded \/ (ignore /\ AnswerPending(r)))
    /\ UNCHANGED self /\ HearUnchanged
\* A candidate waits until there is a remote description.
OnCandidate ==
    /\ Hears("ice")
    /\ LET r == EnsureRemote("prefix")
           n == Head(down).n
       IN  remote' = IF r.got # Nothing THEN Chained(r, Op("add", Ice(n), <<>>, "signal"))
                     ELSE [r EXCEPT !.pendingCandidates = Append(@, n)]
    /\ UNCHANGED <<self, stranded>> /\ HearUnchanged
ViewerHears == OnJoined \/ OnPeerJoined \/ OnPeerLeft \/ OnDescription \/ OnCandidate

-----------------------------------------------------------------------------
(* External: the room and the peer. *)
PeerUnchanged == UNCHANGED <<ws, self, polite, remote, stranded>>
ToViewer(m) == down' = IF peer.knows THEN Append(down, m) ELSE down
RoomAdmits ==
    /\ up # <<>> /\ Head(up).type = "join" /\ up' = Tail(up)
    /\ down' = Append(down, [type |-> "joined", peers |-> peer.here])
    /\ peer' = [peer EXCEPT !.knows = TRUE]
    /\ PeerUnchanged
PeerEnters ==
    /\ ~peer.here /\ ~peer.left /\ ws # "closed"
    /\ peer' = [peer EXCEPT !.here = TRUE]
    /\ ToViewer([type |-> "peer-joined"])
    /\ UNCHANGED up /\ PeerUnchanged
PeerLeaves ==
    /\ peer.here
    /\ peer' = [peer EXCEPT !.here = FALSE, !.left = TRUE]
    /\ ToViewer([type |-> "peer-left"])
    /\ UNCHANGED up /\ PeerUnchanged
\* The peer has something to negotiate: its own tracks, a screen it shares.
PeerWants ==
    /\ peer.here /\ peer.knows /\ peer.wants < MaxWants /\ ~peer.needs
    /\ peer' = [peer EXCEPT !.needs = TRUE, !.wants = @ + 1]
    /\ UNCHANGED <<up, down>> /\ PeerUnchanged
PeerOffers ==
    /\ peer.here /\ peer.knows /\ peer.needs /\ peer.sig = "stable"
    /\ peer' = [peer EXCEPT !.sig = "have-local-offer", !.local = Offer(peer.next),
                            !.next = @ + 2, !.gathered = FALSE]
    /\ ToViewer(Sdp(Offer(peer.next)))
    /\ UNCHANGED up /\ PeerUnchanged
\* The peer's handling of a signal; it is polite when the viewer is not.
PeerHearsOffer ==
    /\ peer.here /\ up # <<>> /\ Head(up).type = "sdp" /\ Head(up).desc.type = "offer" /\ up' = Tail(up)
    /\ IF polite /\ peer.sig # "stable"
       THEN UNCHANGED <<peer, down>>
       ELSE /\ peer' = [peer EXCEPT !.sig = "stable", !.got = Head(up).desc,
                                    !.local = Answer(Head(up).desc.n), !.gathered = FALSE]
            /\ ToViewer(Sdp(Answer(Head(up).desc.n)))
    /\ PeerUnchanged
PeerHearsOther ==
    /\ up # <<>> /\ up' = Tail(up)
    /\ ~peer.here \/ Head(up).type = "ice" \/ (Head(up).type = "sdp" /\ Head(up).desc.type = "answer")
    /\ Head(up).type # "join"
    /\ peer' = IF peer.here /\ Head(up).type = "sdp" /\ peer.local = Offer(Head(up).desc.n)
               THEN [peer EXCEPT !.sig = "stable", !.got = Head(up).desc, !.needs = FALSE]
               ELSE peer
    /\ UNCHANGED down /\ PeerUnchanged
PeerGathers ==
    /\ peer.here /\ peer.knows /\ ~peer.gathered
    /\ peer' = [peer EXCEPT !.gathered = TRUE]
    /\ ToViewer(Ice(peer.local.n))
    /\ UNCHANGED up /\ PeerUnchanged
PeerHears == RoomAdmits \/ PeerHearsOffer \/ PeerHearsOther

MeetNext ==
    \/ Join \/ MeetOpens \/ MeetCloses
    \/ NegotiationNeeded \/ OperationDone \/ IceCandidate \/ ConnectionFails
    \/ ViewerHears \/ PeerEnters \/ PeerLeaves \/ PeerWants \/ PeerOffers \/ PeerHears \/ PeerGathers

-----------------------------------------------------------------------------
\* The viewer and the peer hold a connection each (and it has not failed).
Together == ws = "open" /\ peer.here /\ peer.knows /\ remote.known /\ remote.name = "label"
\* Both sides stable with the two descriptions of one exchange, nothing left to
\* negotiate, and the candidate that came for the remote one handed over.
Settled ==
    /\ remote.known /\ remote.sig = "stable" /\ peer.sig = "stable" /\ ~remote.needed /\ ~peer.needs
    /\ remote.local = peer.got /\ remote.got = peer.local
    /\ remote.chain = <<>>
    /\ \/ remote.got.n \in remote.added
       \/ ~peer.gathered
       \/ \E i \in DOMAIN down : down[i] = Ice(remote.got.n)

\* A viewer and a peer that stay together come to agree: whatever glare, rollback,
\* late answers and candidates came before, both end in one exchange with nothing
\* left over - except when an impolite viewer ignored an offer while it was
\* applying an answer (stranded): such an offer collides with nothing at the peer.
MeetSettles == (Together /\ ~stranded) ~> (Settled \/ stranded \/ ~Together)
=============================================================================
