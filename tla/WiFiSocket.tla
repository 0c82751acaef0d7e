------------------------------ MODULE WiFiSocket ------------------------------
(***************************************************************************)
(* A WiFiClient of the QR boxes down to the radio chip: WiFiClient.cpp over  *)
(* WiFiSocket.cpp over socket.c over m2m_hif.c, of the WiFi101 library.      *)
(*                                                                         *)
(* The chip answers commands later, one event at a time; events are handled *)
(* inside the sketch's own calls (m2m_wifi_handle_events), never while the   *)
(* rest of an event is still to be fetched from the chip.  An answer names  *)
(* its slot, and for received data the session; a connect's answer may come *)
(* when the sketch has given up, and its slot is free or another's.  A       *)
(* connection may be aborted, and the network lost (WiFi.cpp then closes     *)
(* every slot).                                                             *)
(*                                                                         *)
(* One client, TCP without SSL; the listening and sending sides and UDP are *)
(* left out.  What the chip and the peer do is external, seen through the   *)
(* events of m2m_ip_cb.                                                     *)
(***************************************************************************)
EXTENDS Integers, SequencesExt

CONSTANTS N,         \* TCP_SOCK_MAX: slots
          Buf,       \* SOCKET_BUFFER_SIZE
          Sids,      \* 2^16: session numbers, 0 is none
          MaxConns,  \* bound: connections dialled
          MaxBytes   \* bound: bytes a peer sends

\* With one slot, or one session number, a late answer would meet its namesake.
ASSUME SocketAssumption ==
  /\ {N, Buf, Sids, MaxConns, MaxBytes} \subseteq Nat
  /\ N > 1 /\ Buf > 0 /\ Sids > 2

Slots  == 0..N - 1
None   == -1
Free   == [used |-> FALSE, sid |-> 0, pending |-> FALSE]
Blank  == [state |-> "invalid", buf |-> <<>>, rest |-> <<>>]
Off    == [phase |-> "off", sid |-> 0, conn |-> 0, queue |-> <<>>, ended |-> FALSE, armed |-> FALSE]
NoPeer == [accepted |-> FALSE, ended |-> FALSE, broken |-> FALSE, sent |-> <<>>]

VARIABLES pc,      \* WiFiClient: "idle", or in connect: "dialling" (it waits), "refused"
                   \* (the command failed), "failing" (in close, after the events)
          client,  \* _socket of the client
          next,    \* u8NextTcpSock
          sid,     \* gu16SessionID
          sock,    \* gastrSockets: used, u16SessionID, bIsRecvPending
          info,    \* _info: state, the buffer, and the rest still in the chip
          blocked, \* hif_receive_blocked
          hif,     \* external: the chip's events not yet handled
          lost,    \* external: and after them, that the network is lost
          chip,    \* external: the chip's side of each slot
          conns,   \* bound and ghost: connections dialled; the last is the client's
          peer,    \* external: the peer of the last connection
          taken    \* ghost: what the sketch has read of it

chipVars == <<hif, lost, chip, peer>>
vars     == <<pc, client, next, sid, sock, info, blocked, hif, lost, chip, conns, peer, taken>>

Init ==
  /\ pc = "idle" /\ client = None /\ next = 0 /\ sid = 0
  /\ sock = [s \in Slots |-> Free] /\ info = [s \in Slots |-> Blank]
  /\ blocked = FALSE /\ hif = <<>> /\ lost = FALSE /\ chip = [s \in Slots |-> Off]
  /\ conns = 0 /\ peer = NoPeer /\ taken = <<>>
-----------------------------------------------------------------------------
(***************************************************************************)
(* Parts of the calls                                                      *)
(***************************************************************************)
\* Mutant: the lowest free slot.
LowestFree == CHOOSE s \in Slots : ~sock[s].used /\ \A r \in Slots : sock[r].used \/ s <= r

\* The search begins after the slot given last.
FreeSlot == CHOOSE s \in Slots :
              /\ ~sock[s].used
              /\ \A r \in Slots : ~sock[r].used => (s - next) % N <= (r - next) % N

NextSid == LET up == (sid + 1) % Sids IN IF up = 0 THEN 1 ELSE up

\* hif_receive, when the transfer over the bus works; the last part of an
\* event releases the next one.
Fetch(i, k) ==
  LET got == SubSeq(i.rest, 1, IF k * Buf < Len(i.rest) THEN k * Buf ELSE Len(i.rest))
  IN [i EXCEPT !.buf = i.buf \o got, !.rest = SubSeq(i.rest, Len(got) + 1, Len(i.rest))]

\* recv(): the command goes to the chip unless one is outstanding.
Recv(s) ==
  /\ sock' = [sock EXCEPT ![s].pending = TRUE]
  /\ chip' = IF sock[s].used /\ ~sock[s].pending /\ chip[s].sid = sock[s].sid
             THEN [chip EXCEPT ![s].armed = TRUE] ELSE chip

\* Mutant: the rest of an event is not given back.
CloseOver(s) ==
  /\ info' = [info EXCEPT ![s] = Blank]
  /\ sock' = [sock EXCEPT ![s] = Free]
  /\ chip' = IF sock[s].used /\ chip[s].sid = sock[s].sid THEN [chip EXCEPT ![s] = Off] ELSE chip
  /\ UNCHANGED blocked

\* WiFiSocket.close, after the events: the rest of an event is given back.
Close(s) ==
  /\ blocked' = (blocked /\ ~(info[s].state = "connected" /\ info[s].rest # <<>>))
  /\ info' = [info EXCEPT ![s] = Blank]
  /\ sock' = [sock EXCEPT ![s] = Free]
  /\ chip' = IF sock[s].used /\ chip[s].sid = sock[s].sid THEN [chip EXCEPT ![s] = Off] ELSE chip
-----------------------------------------------------------------------------
(***************************************************************************)
(* The events: m2m_ip_cb and handleEvent                                   *)
(***************************************************************************)
\* The answer to a connect is not asked for its session.
OnConnect(e) ==
  /\ info' = [info EXCEPT ![e.slot].state = IF e.ok THEN "connected" ELSE "idle"]
  /\ UNCHANGED <<sock, blocked, chip>>

\* Mutant: the flag is not reset.
StillPending(s) == sock

Answered(s) == [sock EXCEPT ![s].pending = FALSE]

\* Received for another session: dropped, but the flag is reset before the test.
OnStale(e) ==
  /\ e.sid # sock[e.slot].sid
  /\ sock' = Answered(e.slot)
  /\ UNCHANGED <<info, blocked, chip>>

OnEnd(e) == e.sid = sock[e.slot].sid /\ e.data = <<>> /\ Close(e.slot)

OnData(e) ==
  /\ e.sid = sock[e.slot].sid /\ e.data # <<>>
  /\ sock' = Answered(e.slot)
  /\ IF info[e.slot].state = "connected"
     THEN LET new == [info[e.slot] EXCEPT !.rest = e.data]
          IN \E i \in {Fetch([new EXCEPT !.buf = <<>>], 1), new} :
               info' = [info EXCEPT ![e.slot] = i] /\ blocked' = (i.rest # <<>>)
     ELSE UNCHANGED info /\ blocked' = FALSE
  /\ UNCHANGED chip

\* Disconnected: every slot is closed.
OnLoss ==
  /\ info' = [s \in Slots |-> Blank] /\ sock' = [s \in Slots |-> Free]
  /\ chip' = [s \in Slots |-> IF sock[s].used /\ chip[s].sid = sock[s].sid THEN Off ELSE chip[s]]
  /\ UNCHANGED blocked

\* One turn of hif_handle_isr, in any call.
Handle ==
  /\ ~blocked
  /\ \/ /\ hif # <<>> /\ hif' = Tail(hif) /\ UNCHANGED lost
        /\ LET e == Head(hif)
           IN IF e.cmd = "connect" THEN OnConnect(e) ELSE OnStale(e) \/ OnEnd(e) \/ OnData(e)
     \/ hif = <<>> /\ lost /\ lost' = FALSE /\ OnLoss /\ UNCHANGED hif
  /\ pc' = IF pc = "refused" THEN "failing" ELSE pc
  /\ UNCHANGED <<client, next, sid, conns, peer, taken>>
-----------------------------------------------------------------------------
(***************************************************************************)
(* The calls of the sketch                                                 *)
(***************************************************************************)
\* connect(), as far as its wait; what it handles before it has a slot (for the
\* name of a host, or in connected()) is Handle.  A client that is connected is
\* stopped first, by Stop.  The command may not reach the chip.
Dial ==
  /\ pc = "idle" /\ conns < MaxConns
  /\ client # None => info[client].state # "connected"
  /\ IF \A s \in Slots : sock[s].used
     THEN client' = None /\ UNCHANGED <<pc, next, sid, sock, info, conns, peer, taken, chip>>
     ELSE LET s == FreeSlot
          IN /\ client' = s /\ next' = (s + 1) % N /\ sid' = NextSid
             /\ sock' = [sock EXCEPT ![s] = [Free EXCEPT !.used = TRUE, !.sid = NextSid]]
             /\ conns' = conns + 1 /\ peer' = NoPeer /\ taken' = <<>>
             /\ \/ /\ pc' = "dialling"
                   /\ info' = [info EXCEPT ![s].state = "connecting"]
                   /\ chip' = [chip EXCEPT ![s] = [Off EXCEPT !.phase = "asked", !.sid = NextSid,
                                                              !.conn = conns + 1]]
                \/ /\ pc' = "refused" /\ UNCHANGED chip
                   /\ info' = IF s > 0 THEN [info EXCEPT ![s].state = "idle"] ELSE info
  /\ UNCHANGED <<blocked, hif, lost>>

\* The wait is over: the answer was yes.
Dialled ==
  /\ pc = "dialling" /\ info[client].state = "connected" /\ pc' = "idle"
  /\ info' = [info EXCEPT ![client].rest = <<>>]
  /\ Recv(client)
  /\ UNCHANGED <<client, next, sid, blocked, hif, lost, conns, peer, taken>>

\* Or no, or twenty seconds have passed with every event handled.
GiveUp ==
  /\ pc = "dialling" /\ pc' = "failing"
  /\ \/ info[client].state \notin {"connecting", "connected"}
     \/ info[client].state = "connecting" /\ ((hif = <<>> /\ ~lost) \/ blocked)
  /\ info' = [info EXCEPT ![client].state = "idle"]
  /\ UNCHANGED <<client, next, sid, sock, blocked, chipVars, conns, taken>>

\* close() handles an event that is there before it closes (Handle).
NoEvent ==
  /\ pc = "refused" /\ ((hif = <<>> /\ ~lost) \/ blocked) /\ pc' = "failing"
  /\ UNCHANGED <<client, next, sid, sock, info, blocked, chipVars, conns, taken>>

\* Mutant: connect() fails without closing its socket.
FailOpen ==
  /\ pc = "failing" /\ pc' = "idle" /\ client' = None
  /\ UNCHANGED <<next, sid, sock, info, blocked, chipVars, conns, taken>>

Fail ==
  /\ pc = "failing" /\ pc' = "idle" /\ client' = None /\ Close(client)
  /\ UNCHANGED <<next, sid, hif, lost, conns, peer, taken>>

Stop ==
  /\ pc = "idle" /\ client # None /\ client' = None /\ Close(client)
  /\ UNCHANGED <<pc, next, sid, hif, lost, conns, peer, taken>>

\* Mutant: more is asked for as soon as the chip has given its last part.
DryRest(i) == i.rest = <<>>

\* All that was received has been read.
Dry(i) == i.buf = <<>> /\ i.rest = <<>>

\* read(): up to n bytes, in as many transfers as that takes, or as work.
Read(n) ==
  /\ pc = "idle" /\ client # None /\ info[client].state = "connected"
  /\ LET i     == info[client]
         avail == Len(i.buf) + Len(i.rest)
         want  == IF n < avail THEN n ELSE avail
         fills == IF want <= Len(i.buf) THEN 0 ELSE (want - Len(i.buf) + Buf - 1) \div Buf
     IN /\ avail > 0
        /\ \E k \in 0..fills :
             LET full == Fetch(i, k)
                 m    == IF k = fills THEN want ELSE Len(full.buf)
                 left == [full EXCEPT !.buf = SubSeq(full.buf, m + 1, Len(full.buf))]
             IN /\ info' = [info EXCEPT ![client] = left]
                /\ taken' = taken \o SubSeq(full.buf, 1, m)
                /\ blocked' = (blocked /\ left.rest # <<>>)
                /\ IF Dry(left) THEN Recv(client) ELSE UNCHANGED <<sock, chip>>
  /\ UNCHANGED <<pc, client, next, sid, hif, lost, conns, peer>>
-----------------------------------------------------------------------------
(***************************************************************************)
(* The chip and the peer (external)                                        *)
(***************************************************************************)
hostVars == <<pc, client, next, sid, sock, info, blocked, conns, taken>>

\* It is the client's connection, or one that was left.
Mine(s) == chip[s].conn = conns

\* A chip that has lost the network has nothing more to say of a connection
\* until the library has heard of it, and joins the network at its command.
Answer(s) ==
  /\ chip[s].phase = "asked" /\ ~lost
  /\ \E ok \in BOOLEAN :
       /\ chip' = [chip EXCEPT ![s].phase = IF ok THEN "open" ELSE "off"]
       /\ hif' = Append(hif, [cmd |-> "connect", slot |-> s, ok |-> ok])
       /\ peer' = IF Mine(s) THEN [peer EXCEPT !.accepted = ok] ELSE peer
  /\ UNCHANGED <<lost, hostVars>>

PeerSends(s) ==
  /\ chip[s].phase = "open" /\ ~chip[s].ended /\ Mine(s) /\ Len(peer.sent) < MaxBytes
  /\ LET b == <<conns, Len(peer.sent) + 1>>
     IN /\ chip' = [chip EXCEPT ![s].queue = Append(@, b)]
        /\ peer' = [peer EXCEPT !.sent = Append(@, b)]
  /\ UNCHANGED <<hif, lost, hostVars>>

PeerEnds(s) ==
  /\ chip[s].phase = "open" /\ ~chip[s].ended
  /\ chip' = [chip EXCEPT ![s].ended = TRUE]
  /\ peer' = IF Mine(s) THEN [peer EXCEPT !.ended = TRUE] ELSE peer
  /\ UNCHANGED <<hif, lost, hostVars>>

\* The answer to recv: some of the bytes, or the end when there are no more.
Report(s) ==
  /\ chip[s].armed /\ ~lost /\ (chip[s].queue # <<>> \/ chip[s].ended)
  /\ \E n \in (IF chip[s].queue = <<>> THEN {0} ELSE 1..Len(chip[s].queue)) :
       /\ hif' = Append(hif, [cmd |-> "recv", slot |-> s, sid |-> chip[s].sid,
                              data |-> SubSeq(chip[s].queue, 1, n)])
       /\ chip' = [chip EXCEPT ![s].queue = SubSeq(@, n + 1, Len(@)), ![s].armed = FALSE]
  /\ UNCHANGED <<peer, lost, hostVars>>

\* Or an error, whatever the chip still holds: the connection was aborted, or
\* has timed out.
Abort(s) ==
  /\ chip[s].armed /\ ~lost
  /\ hif' = Append(hif, [cmd |-> "recv", slot |-> s, sid |-> chip[s].sid, data |-> <<>>])
  /\ chip' = [chip EXCEPT ![s].armed = FALSE]
  /\ peer' = IF Mine(s) THEN [peer EXCEPT !.broken = TRUE] ELSE peer
  /\ UNCHANGED <<lost, hostVars>>

\* Disconnected from the network.
Lose ==
  /\ ~lost /\ lost' = TRUE /\ peer' = [peer EXCEPT !.broken = TRUE]
  /\ UNCHANGED <<hif, chip, hostVars>>
-----------------------------------------------------------------------------
Calls == Dial \/ Dialled \/ GiveUp \/ NoEvent \/ Fail \/ Stop \/ \E n \in 1..MaxBytes : Read(n)

Chip == Lose \/ \E s \in Slots : Answer(s) \/ PeerSends(s) \/ PeerEnds(s) \/ Report(s) \/ Abort(s)

Next == Handle \/ Calls \/ Chip

Spec == Init /\ [][Next]_vars

\* The sketch calls on, and reads while there is something to read; the chip
\* reports what it has.
FairSpec ==
  /\ Spec /\ WF_vars(Handle) /\ WF_vars(Read(MaxBytes))
  /\ \A s \in Slots : WF_vars(Report(s))
-----------------------------------------------------------------------------
(***************************************************************************)
(* Properties                                                              *)
(***************************************************************************)
Open == pc = "idle" /\ client # None /\ info[client].state = "connected"

BlockedIsReadable == blocked => Open /\ info[client].rest # <<>>

AnswerComes(s) ==
  \/ chip[s].armed
  \/ \E k \in DOMAIN hif : hif[k].cmd = "recv" /\ hif[k].slot = s /\ hif[k].sid = sock[s].sid

StreamAlive == Open /\ info[client].buf = <<>> /\ info[client].rest = <<>> => AnswerComes(client)

\* No event is handled while the rest of one waits in the chip: it is always
\* the rest of the client's own connection, which the next read fetches or
\* the next stop gives back; nothing else ever ends the block.  And an open
\* connection with nothing to read has asked the chip for more, with the
\* answer still to come; nothing else makes the bytes flow again.
NeverStuck == BlockedIsReadable /\ StreamAlive

\* The chip has seven slots: none stays in use that no client names, whether a
\* connection failed, was left in time or too late, or was ended by the peer,
\* and the chip holds none open that the library has given up.
SlotsAreOwned ==
  \A s \in Slots : /\ sock[s].used => s = client
                   /\ chip[s].phase # "off" => sock[s].used /\ sock[s].sid = chip[s].sid

\* The phase of the client as the sketch sees it.
Seen == CASE pc # "idle"                  -> "dialling"
          [] pc = "idle" /\ client = None -> "left"
          [] Open                         -> "open"
          [] OTHER                        -> "ended"

Stream == INSTANCE ByteStream WITH
  phase <- Seen, accepted <- peer.accepted, ended <- peer.ended, broken <- peer.broken,
  sent <- peer.sent

\* Whatever answers come late, a client is a stream of bytes: it opens only
\* when its own peer has accepted, and gives that peer's bytes, once, in order
\* and, unless the connection breaks, all; a late answer of an earlier
\* connection opens or ends nothing.
ClientIsStream == Stream!Spec

\* Every byte that a peer sends is read in the end, however it was split over
\* events and transfers and however often a transfer fails first, unless the
\* sketch stops the client or the connection breaks.
BytesArrive ==
  \A k \in 1..MaxBytes : Open /\ Len(peer.sent) >= k ~> ~Open \/ Len(taken) >= k
=============================================================================
