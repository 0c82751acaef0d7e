-------------------------- MODULE WiFiSocketProofs --------------------------
(***************************************************************************)
(* Theorems about WiFiSocket, for any number of slots and session numbers   *)
(* (two and three at least), buffers, connections and bytes.                *)
(*                                                                         *)
(* The argument: the queue of the chip's events is short.  A connection in  *)
(* use has one answer outstanding at most, one left behind leaves one event *)
(* at most, and no connection ends its dialling before what was queued      *)
(* is handled.  So a late answer meets a slot, or a session, other than its *)
(* own: slots are taken in turn and session numbers grow.  The loss of the   *)
(* network comes last in the queue, and leaves every slot blank.             *)
(***************************************************************************)
EXTENDS WiFiSocket, SequenceTheorems, TLAPS

Bytes  == Nat \X Nat
States == {"invalid", "idle", "connecting", "connected"}
Socket == [used : BOOLEAN, sid : 0..Sids - 1, pending : BOOLEAN]
Record == [state : States, buf : Seq(Bytes), rest : Seq(Bytes)]
Side   == [phase : {"off", "asked", "open"}, sid : 0..Sids - 1, conn : Nat,
           queue : Seq(Bytes), ended : BOOLEAN, armed : BOOLEAN]
Event  == [cmd : {"connect"}, slot : Slots, ok : BOOLEAN]
          \cup [cmd : {"recv"}, slot : Slots, sid : 0..Sids - 1, data : Seq(Bytes)]

Types ==
  /\ pc \in {"idle", "dialling", "refused", "failing"} /\ client \in Slots \cup {None}
  /\ next \in Slots /\ sid \in 0..Sids - 1 /\ blocked \in BOOLEAN /\ conns \in Nat
  /\ sock \in [Slots -> Socket] /\ info \in [Slots -> Record] /\ chip \in [Slots -> Side]
  /\ hif \in Seq(Event) /\ lost \in BOOLEAN
  /\ peer \in [accepted : BOOLEAN, ended : BOOLEAN, broken : BOOLEAN, sent : Seq(Bytes)] /\ taken \in Seq(Bytes)

LEMMA Values ==
  /\ Free \in Socket /\ Blank \in Record /\ Off \in Side
  /\ NoPeer \in [accepted : BOOLEAN, ended : BOOLEAN, broken : BOOLEAN, sent : Seq(Bytes)]
<1>1. 0 \in 0..Sids - 1 /\ <<>> \in Seq(Bytes) /\ 0 \in Nat
  BY SocketAssumption DEF SocketAssumption
<1> QED BY <1>1 DEF Free, Blank, Off, NoPeer, Socket, Record, Side, States

THEOREM TypesInit == Init => Types
<1> SUFFICES ASSUME Init PROVE Types
  OBVIOUS
<1>1. 0 \in Slots /\ 0 \in 0..Sids - 1
  BY SocketAssumption DEF SocketAssumption, Slots
<1>2. sock \in [Slots -> Socket] /\ info \in [Slots -> Record] /\ chip \in [Slots -> Side]
  BY Values DEF Init
<1>3. hif \in Seq(Event) /\ taken \in Seq(Bytes)
  BY DEF Init
<1> QED BY <1>1, <1>2, <1>3, Values DEF Init, Types
-----------------------------------------------------------------------------
(***************************************************************************)
(* Sequences, slots and session numbers                                    *)
(***************************************************************************)
LEMMA HeadTail ==
  ASSUME NEW S, NEW q \in Seq(S), q # <<>>
  PROVE  /\ Len(q) \in Nat \ {0} /\ Head(q) = q[1] /\ q[1] \in S
         /\ Tail(q) \in Seq(S) /\ Len(Tail(q)) = Len(q) - 1
         /\ \A k \in 1..Len(q) - 1 : Tail(q)[k] = q[k + 1]
  OBVIOUS

LEMMA Appended ==
  ASSUME NEW S, NEW q \in Seq(S), NEW e \in S
  PROVE  /\ Append(q, e) \in Seq(S) /\ Len(Append(q, e)) = Len(q) + 1
         /\ \A k \in 1..Len(q) : Append(q, e)[k] = q[k]
         /\ Append(q, e)[Len(q) + 1] = e /\ Append(q, e) # <<>>
  OBVIOUS

LEMMA Emptiness ==
  ASSUME NEW S, NEW q \in Seq(S) PROVE q = <<>> <=> Len(q) = 0
  OBVIOUS

LEMMA Part ==
  ASSUME NEW S, NEW q \in Seq(S), NEW m \in 1..Len(q) + 1, NEW n \in 0..Len(q)
  PROVE  SubSeq(q, m, n) \in Seq(S)
  OBVIOUS

LEMMA SlotDistance ==
  ASSUME NEW s \in Slots, NEW t \in Slots
  PROVE  (s - t) % N = IF s >= t THEN s - t ELSE s - t + N
  BY SocketAssumption DEF SocketAssumption, Slots

\* When no slot is in use, the next one is taken.
LEMMA NextIsFree ==
  ASSUME next \in Slots, \A s \in Slots : ~sock[s].used PROVE FreeSlot = next
<1> DEFINE nearest(s) == ~sock[s].used
             /\ \A r \in Slots : ~sock[r].used => (s - next) % N <= (r - next) % N
<1>1. \A s \in Slots : (s - next) % N \in Nat /\ ((s - next) % N = 0 <=> s = next)
  BY SlotDistance, SocketAssumption DEF SocketAssumption, Slots
<1>2. nearest(next)
  BY <1>1
<1>3. \A s \in Slots : nearest(s) => s = next
  BY <1>1
<1> QED BY <1>2, <1>3 DEF FreeSlot

LEMMA NextSlot ==
  ASSUME NEW s \in Slots PROVE (s + 1) % N \in Slots /\ (s + 1) % N # s
  BY SocketAssumption DEF SocketAssumption, Slots

LEMMA NextSession ==
  ASSUME sid \in 0..Sids - 1 PROVE NextSid \in 1..Sids - 1 /\ NextSid # sid
  BY SocketAssumption DEF SocketAssumption, NextSid
-----------------------------------------------------------------------------
(***************************************************************************)
(* Types                                                                   *)
(***************************************************************************)
LEMMA FetchTyped ==
  ASSUME NEW i \in Record, NEW k \in Nat PROVE Fetch(i, k) \in Record
<1> DEFINE got == SubSeq(i.rest, 1, IF k * Buf < Len(i.rest) THEN k * Buf ELSE Len(i.rest))
<1>1. i.buf \in Seq(Bytes) /\ i.rest \in Seq(Bytes) /\ k * Buf \in Nat
  BY SocketAssumption DEF SocketAssumption, Record
<1>2. got \in Seq(Bytes) /\ Len(got) \in 0..Len(i.rest)
  BY <1>1, Part
<1>3. i.buf \o got \in Seq(Bytes) /\ SubSeq(i.rest, Len(got) + 1, Len(i.rest)) \in Seq(Bytes)
  BY <1>1, <1>2, Part
<1> QED BY <1>3 DEF Fetch, Record

LEMMA CloseTyped ==
  ASSUME Types, NEW s \in Slots, Close(s)
  PROVE  sock' \in [Slots -> Socket] /\ info' \in [Slots -> Record] /\ chip' \in [Slots -> Side]
         /\ blocked' \in BOOLEAN
  BY Values DEF Types, Close

LEMMA RecvTyped ==
  ASSUME Types, NEW s \in Slots, Recv(s)
  PROVE  sock' \in [Slots -> Socket] /\ chip' \in [Slots -> Side]
<1>1. sock[s] \in Socket /\ chip[s] \in Side
  BY DEF Types
<1>2. [sock[s] EXCEPT !.pending = TRUE] \in Socket /\ [chip[s] EXCEPT !.armed = TRUE] \in Side
  BY <1>1 DEF Socket, Side
<1> QED BY <1>2 DEF Types, Recv

LEMMA Received ==
  ASSUME NEW i \in Record, NEW d \in Seq(Bytes)
  PROVE  [i EXCEPT !.rest = d] \in Record /\ [[i EXCEPT !.rest = d] EXCEPT !.buf = <<>>] \in Record
<1> DEFINE j == [i EXCEPT !.rest = d]
<1>1. j \in Record
  BY DEF Record
<1>2. \A k \in Record, b \in Seq(Bytes) : [k EXCEPT !.buf = b] \in Record
  BY DEF Record
<1>3. <<>> \in Seq(Bytes)
  OBVIOUS
<1> HIDE DEF j
<1>4. [j EXCEPT !.buf = <<>>] \in Record
  BY <1>1, <1>2, <1>3
<1> QED BY <1>1, <1>4 DEF j

\* What is left of the handling of one event.
LEMMA EventHandled ==
  ASSUME Handle, hif # <<>>
  PROVE  /\ hif' = Tail(hif) /\ ~blocked /\ UNCHANGED <<lost, client, next, sid, conns, peer, taken>>
         /\ pc' = IF pc = "refused" THEN "failing" ELSE pc
         /\ IF Head(hif).cmd = "connect" THEN OnConnect(Head(hif))
            ELSE OnStale(Head(hif)) \/ OnEnd(Head(hif)) \/ OnData(Head(hif))
  BY DEF Handle

LEMMA LossHandled ==
  ASSUME Handle, hif = <<>>
  PROVE  /\ OnLoss /\ ~blocked /\ lost /\ lost' = FALSE
         /\ UNCHANGED <<hif, client, next, sid, conns, peer, taken>>
         /\ pc' = IF pc = "refused" THEN "failing" ELSE pc
  BY DEF Handle

LEMMA LossTyped ==
  ASSUME Types, OnLoss
  PROVE  sock' \in [Slots -> Socket] /\ info' \in [Slots -> Record] /\ chip' \in [Slots -> Side]
         /\ blocked' \in BOOLEAN
  BY Values DEF Types, OnLoss

LEMMA StateTyped ==
  ASSUME NEW i \in Record, NEW state \in States
  PROVE  [i EXCEPT !.state = state] \in Record
  BY DEF Record

LEMMA EventTyped == ASSUME Types, Handle, hif # <<>> PROVE Types'
<1> DEFINE e == Head(hif)
<1>0. hif' = Tail(hif) /\ hif \in Seq(Event)
  BY EventHandled DEF Types
<1>1. e \in Event /\ hif' \in Seq(Event)
  BY <1>0, HeadTail
<1>2. e.slot \in Slots
  BY <1>1 DEF Event
<1>3. pc' \in {"idle", "dialling", "refused", "failing"}
  BY EventHandled DEF Types
<1>4. CASE e.cmd = "connect"
  <2>1. OnConnect(e)
    BY <1>4, EventHandled
  <2>2. info' \in [Slots -> Record]
    <3>1. PICK state \in States : info' = [info EXCEPT ![e.slot].state = state]
      BY <2>1 DEF OnConnect, States
    <3>2. info \in [Slots -> Record] /\ info[e.slot] \in Record
      BY <1>2 DEF Types
    <3>3. [info[e.slot] EXCEPT !.state = state] \in Record
      BY <3>1, <3>2, StateTyped
    <3> HIDE DEF e
    <3> QED BY <1>2, <3>1, <3>2, <3>3
  <2> QED BY <1>1, <1>3, <2>1, <2>2, EventHandled DEF OnConnect, Types
<1>5. CASE e.cmd = "recv"
  <2>1. e.data \in Seq(Bytes)
    BY <1>1, <1>5 DEF Event
  <2>2. Answered(e.slot) \in [Slots -> Socket]
    BY <1>2 DEF Types, Answered, Socket
  <2>3. CASE OnStale(e)
    BY <1>1, <1>3, <2>2, <2>3, EventHandled DEF OnStale, Types
  <2>4. CASE OnEnd(e)
    BY <1>1, <1>2, <1>3, <2>4, CloseTyped, EventHandled DEF OnEnd, Types
  <2>5. CASE OnData(e)
    <3> DEFINE new == [info[e.slot] EXCEPT !.rest = e.data]
               new0 == [new EXCEPT !.buf = <<>>]
    <3>0. info[e.slot] \in Record
      BY <1>2 DEF Types
    <3>1. new \in Record /\ new0 \in Record
      BY <2>1, <3>0, Received
    <3>2. Fetch(new0, 1) \in Record
      BY <3>1, FetchTyped
    <3>3. UNCHANGED info \/ \E i \in Record : info' = [info EXCEPT ![e.slot] = i]
      <4> HIDE DEF e
      <4> QED BY <2>5, <3>1, <3>2 DEF OnData
    <3>4. blocked' \in BOOLEAN
      BY <2>5 DEF OnData
    <3>5. info' \in [Slots -> Record]
      BY <1>2, <3>3 DEF Types
    <3> QED BY <1>1, <1>3, <2>2, <2>5, <3>4, <3>5, EventHandled DEF OnData, Types
  <2> QED BY <1>5, <2>3, <2>4, <2>5, EventHandled
<1> QED BY <1>1, <1>4, <1>5 DEF Event

LEMMA HandleTyped == ASSUME Types, Handle PROVE Types'
<1>l. CASE hif = <<>>
  <2>1. pc' \in {"idle", "dialling", "refused", "failing"}
    BY <1>l, LossHandled DEF Types
  <2>2. UNCHANGED <<hif, client, next, sid, conns, peer, taken>> /\ lost' = FALSE /\ OnLoss
    BY <1>l, LossHandled
  <2> QED BY <2>1, <2>2, LossTyped DEF Types
<1>e. CASE hif # <<>>
  BY <1>e, EventTyped
<1> QED BY <1>l, <1>e
-----------------------------------------------------------------------------
(***************************************************************************)
(* The invariant                                                           *)
(***************************************************************************)
\* An event of another slot, or of another session, than the client's; and
\* the answer to the client's own connect.
Stale(e) == \/ e.cmd = "connect" /\ e.slot # client
            \/ e.cmd = "recv" /\ e.sid # 0 /\ e.sid # sid
Own(e)   == e.cmd = "connect" /\ e.slot = client

\* A slot that no client names is blank on both sides.
Books ==
  /\ SlotsAreOwned
  /\ \A s \in Slots : ~sock[s].used => sock[s] = Free /\ chip[s] = Off
  /\ \A s \in Slots : info[s].buf # <<>> \/ info[s].rest # <<>> => Open /\ s = client
  /\ \A s \in Slots : chip[s].armed => pc = "idle" /\ s = client
  /\ client # None => next # client
  /\ client # None /\ sock[client].used => sock[client].sid = sid /\ sid # 0
  /\ pc # "idle" => client # None /\ ~sock[client].pending

\* What the chip's queue may hold, at each place of a client's life.
Between == pc = "idle" /\ client = None =>
  /\ Len(hif) <= 1
  /\ hif # <<>> => \/ hif[1].cmd = "connect" /\ hif[1].slot # next
                   \/ hif[1].cmd = "recv" /\ hif[1].sid = sid /\ sid # 0

InUse == pc = "idle" /\ client # None =>
  /\ sock[client].used <=> info[client].state = "connected"
  /\ ~sock[client].used => hif = <<>>
  /\ sock[client].used =>
       /\ Len(hif) <= 1
       /\ hif # <<>> => hif[1].cmd = "recv" /\ hif[1].slot = client /\ hif[1].sid = sid
       /\ chip[client].phase = "open" /\ chip[client].sid = sid
       /\ sock[client].pending <=> (chip[client].armed \/ hif # <<>>)
       /\ ~(chip[client].armed /\ hif # <<>>)
       /\ sock[client].pending <=> Dry(info[client])

Dialling == pc = "dialling" =>
  /\ chip[client] = Off \/ chip[client].sid = sid
  /\ info[client].state \in {"connecting", "connected"} => sock[client].used /\ chip[client].sid = sid
  /\ info[client].state = "connecting" /\ chip[client].phase = "asked" =>
       /\ Len(hif) <= 1
       /\ hif # <<>> => Stale(hif[1])
  /\ info[client].state = "connecting" /\ chip[client].phase # "asked" =>
       /\ Len(hif) \in {1, 2} /\ Own(hif[Len(hif)])
       /\ Len(hif) = 2 => Stale(hif[1])
       /\ hif[Len(hif)].ok => chip[client].phase = "open"
  /\ info[client].state # "connecting" =>
       /\ hif = <<>> /\ chip[client].phase # "asked"
       /\ info[client].state = "connected" => chip[client].phase = "open"

Refused == pc = "refused" =>
  /\ chip[client] = Off /\ Len(hif) <= 1
  /\ hif # <<>> => Stale(hif[1])

Failing == pc = "failing" =>
  /\ chip[client] = Off \/ chip[client].sid = sid
  /\ Len(hif) <= 1
  /\ hif # <<>> => Own(hif[1]) /\ chip[client].phase # "asked"

Stages == Between /\ InUse /\ Dialling /\ Refused /\ Failing
SocketInv == Types /\ Books /\ BlockedIsReadable /\ Stages

LEMMA QueuesAreNeverStuck == SocketInv => SlotsAreOwned /\ NeverStuck
<1> SUFFICES ASSUME SocketInv, Open, info[client].buf = <<>>, info[client].rest = <<>>
             PROVE  AnswerComes(client)
  BY DEF SocketInv, Books, NeverStuck, StreamAlive
<1>1. client \in Slots /\ pc = "idle" /\ client # None /\ sock[client].used
  BY DEF SocketInv, Stages, InUse, Types, Open
<1>2. sock[client].pending /\ sock[client].sid = sid
  BY <1>1 DEF SocketInv, Stages, InUse, Dry, Books
<1>3. CASE chip[client].armed
  BY <1>3 DEF AnswerComes
<1>4. CASE hif # <<>>
  <2>1. 1 \in DOMAIN hif
    BY <1>4, HeadTail DEF SocketInv, Types
  <2> QED BY <1>1, <1>2, <1>4, <2>1 DEF SocketInv, Stages, InUse, AnswerComes
<1> QED BY <1>1, <1>2, <1>3, <1>4 DEF SocketInv, Stages, InUse

THEOREM SocketInvInit == Init => SocketInv
<1> SUFFICES ASSUME Init PROVE SocketInv
  OBVIOUS
<1>1. Types
  BY TypesInit
<1>2. Books
  BY DEF Init, Books, SlotsAreOwned, Free, Blank, Off, None
<1>3. BlockedIsReadable /\ Stages
  BY DEF Init, BlockedIsReadable, Stages, Between, InUse, Dialling, Refused, Failing
<1> QED BY <1>1, <1>2, <1>3 DEF SocketInv
-----------------------------------------------------------------------------
(***************************************************************************)
(* Closing, and events that come late                                      *)
(***************************************************************************)
\* Whatever its state, a slot that is closed is blank on both sides, as then
\* are all, and no event is left half fetched.
LEMMA Closed ==
  ASSUME SocketInv, client # None, Close(client)
  PROVE  /\ sock' \in [Slots -> Socket] /\ info' \in [Slots -> Record]
         /\ chip' \in [Slots -> Side] /\ ~blocked' /\ blocked' \in BOOLEAN
         /\ \A s \in Slots : /\ sock'[s] = Free /\ chip'[s] = Off
                             /\ info'[s].buf = <<>> /\ info'[s].rest = <<>>
         /\ info'[client].state = "invalid"
<1> USE DEF SocketInv
<1>1. client \in Slots /\ pc \in {"idle", "dialling", "refused", "failing"}
      /\ sock \in [Slots -> Socket] /\ info \in [Slots -> Record] /\ chip \in [Slots -> Side]
  BY DEF Types
<1>2. \A s \in Slots \ {client} : sock[s] = Free /\ chip[s] = Off
  BY DEF Books, SlotsAreOwned
<1>3. sock[client].used => chip[client] = Off \/ chip[client].sid = sock[client].sid
  BY <1>1 DEF Books, Stages, InUse, Dialling, Refused, Failing
<1>4. ~sock[client].used => chip[client] = Off
  BY <1>1 DEF Books
<1>5. \A s \in Slots : sock'[s] = Free /\ chip'[s] = Off
  BY <1>1, <1>2, <1>3, <1>4 DEF Close
<1>6. \A s \in Slots : info'[s].buf = <<>> /\ info'[s].rest = <<>>
  BY <1>1 DEF Close, Books, Blank
<1>7. ~blocked' /\ info'[client].state = "invalid"
  BY <1>1 DEF Close, BlockedIsReadable, Open, Blank
<1> QED BY <1>1, <1>5, <1>6, <1>7, CloseTyped

\* While the client dials, or has failed, a late event touches the client's own
\* slot at most by a flag that is already low.
LEMMA LateHandled ==
  ASSUME SocketInv, pc # "idle", Handle, hif # <<>>, Stale(Head(hif))
  PROVE  /\ UNCHANGED <<blocked, chip, sock>>
         /\ info'[client].state = info[client].state
         /\ \A s \in Slots : info'[s].buf = info[s].buf /\ info'[s].rest = info[s].rest
<1> DEFINE e == Head(hif)
<1> USE DEF SocketInv
<1>1. e \in Event /\ e.slot \in Slots
  BY HeadTail DEF Types, Event
<1>2. client \in Slots /\ client # None /\ sock \in [Slots -> Socket] /\ info \in [Slots -> Record]
  BY DEF Types, Books
<1>3. sock[client].sid \in {0, sid}
  BY <1>2 DEF Books, Free
<1>4. \A s \in Slots \ {client} : sock[s] = Free
  BY <1>2 DEF Books, SlotsAreOwned
<1>5. CASE e.cmd = "connect"
  <2>1. OnConnect(e) /\ e.slot # client
    BY <1>5, EventHandled DEF Stale
  <2> QED BY <1>1, <1>2, <2>1 DEF OnConnect, Record
<1>6. CASE e.cmd = "recv"
  <2>1. e.sid # sock[e.slot].sid
    BY <1>1, <1>3, <1>4, <1>6 DEF Stale, Free
  <2>2. OnStale(e)
    BY <1>6, <2>1, EventHandled DEF OnEnd, OnData
  <2>3. sock[e.slot] \in Socket /\ ~sock[e.slot].pending
    BY <1>1, <1>2, <1>4 DEF Books, Free
  <2>4. [sock[e.slot] EXCEPT !.pending = FALSE] = sock[e.slot]
    BY <2>3 DEF Socket
  <2>5. Answered(e.slot) = sock
    BY <1>1, <1>2, <2>4 DEF Answered
  <2> QED BY <2>2, <2>5, EventHandled DEF OnStale
<1> QED BY <1>1, <1>5, <1>6 DEF Event

\* hif_handle_isr while the client dials: a late event, then its own answer.
LEMMA DiallingHandle == ASSUME SocketInv, pc = "dialling", Handle, hif # <<>> PROVE SocketInv'
<1> USE DEF SocketInv
<1>1. client \in Slots /\ client # None /\ hif # <<>> /\ hif \in Seq(Event) /\ info \in [Slots -> Record]
  BY DEF Types, Books
<1>2. info[client].state = "connecting" /\ Len(hif) \in {1, 2}
  <2>1. Len(hif) \in Nat \ {0}
    BY <1>1, HeadTail
  <2>2. info[client].state = "connecting"
    BY <1>1 DEF Stages, Dialling
  <2>3. Len(hif) <= 1 \/ Len(hif) \in {1, 2}
    BY <2>2 DEF Stages, Dialling
  <2>4. \A n \in Nat \ {0} : (n <= 1 \/ n \in {1, 2}) => n \in {1, 2}
    OBVIOUS
  <2> QED BY <2>1, <2>2, <2>3, <2>4
<1>3. UNCHANGED <<pc, client, next, sid>> /\ hif' = Tail(hif)
  BY EventHandled
<1>4. Types'
  BY HandleTyped
<1>5. CASE Stale(Head(hif))
  <2>1. UNCHANGED <<blocked, chip, sock>> /\ info'[client].state = info[client].state
        /\ \A s \in Slots : info'[s].buf = info[s].buf /\ info'[s].rest = info[s].rest
    BY <1>5, LateHandled
  <2>2. Books' /\ BlockedIsReadable'
    BY <1>3, <2>1 DEF Books, SlotsAreOwned, BlockedIsReadable, Open
  <2>3. Dialling'
    <3>1. chip[client].phase # "asked" => Len(hif) = 2
      BY <1>1, <1>2, <1>5, HeadTail DEF Stages, Dialling, Stale, Own
    <3>2. hif' \in Seq(Event) /\ Len(hif') = Len(hif) - 1 /\ (Len(hif) = 2 => hif'[1] = hif[2])
      BY <1>1, <1>3, HeadTail
    <3>3. CASE chip[client].phase = "asked"
      <4>1. hif' = <<>>
        BY <1>2, <3>2, <3>3, Emptiness DEF Stages, Dialling
      <4> QED BY <1>2, <1>3, <2>1, <3>3, <4>1 DEF Stages, Dialling
    <3>4. CASE chip[client].phase # "asked"
      <4>1. Len(hif') = 1 /\ hif'[Len(hif')] = hif[Len(hif)]
        BY <3>1, <3>2, <3>4
      <4>2. Own(hif[Len(hif)]) /\ (hif[Len(hif)].ok => chip[client].phase = "open")
            /\ chip[client].sid = sid /\ sock[client].used
        BY <1>2, <3>4 DEF Stages, Dialling
      <4>3. info'[client].state = "connecting" /\ chip'[client].phase # "asked" /\ client' = client
        BY <1>2, <1>3, <2>1, <3>4
      <4>4. hif'[Len(hif')].cmd = "connect" /\ hif'[Len(hif')].slot = client'
            /\ (hif'[Len(hif')].ok => chip'[client'].phase = "open") /\ chip'[client'].sid = sid'
            /\ sock'[client'].used
        BY <1>3, <2>1, <4>1, <4>2 DEF Own
      <4> QED BY <4>1, <4>3, <4>4 DEF Dialling, Own
    <3> QED BY <3>3, <3>4
  <2> QED BY <1>3, <1>4, <2>2, <2>3 DEF Stages, Between, InUse, Refused, Failing
<1>6. CASE ~Stale(Head(hif))
  <2>1. chip[client].phase # "asked" /\ Len(hif) = 1 /\ Own(Head(hif))
        /\ (Head(hif).ok => chip[client].phase = "open")
    BY <1>1, <1>2, <1>6, HeadTail DEF Stages, Dialling
  <2>2. OnConnect(Head(hif)) /\ Head(hif).slot = client
    BY <2>1, EventHandled DEF Own
  <2>3. info'[client].state = (IF Head(hif).ok THEN "connected" ELSE "idle")
        /\ UNCHANGED <<sock, blocked, chip>>
        /\ \A s \in Slots : info'[s].buf = info[s].buf /\ info'[s].rest = info[s].rest
    BY <1>1, <2>2 DEF OnConnect, Record
  <2>4. hif' = <<>>
    BY <1>1, <1>3, <2>1, HeadTail, Emptiness
  <2>5. Books' /\ BlockedIsReadable'
    BY <1>3, <2>3 DEF Books, SlotsAreOwned, BlockedIsReadable, Open
  <2>6. Dialling'
    BY <1>3, <2>1, <2>3, <2>4 DEF Stages, Dialling
  <2> QED BY <1>3, <1>4, <2>5, <2>6 DEF Stages, Between, InUse, Refused, Failing
<1> QED BY <1>5, <1>6

\* An event in connect()'s close: late, or the answer that came too late.
LEMMA FailingHandle ==
  ASSUME SocketInv, pc \in {"refused", "failing"}, Handle, hif # <<>> PROVE SocketInv'
<1> USE DEF SocketInv
<1>1. client \in Slots /\ client # None /\ hif # <<>> /\ hif \in Seq(Event) /\ info \in [Slots -> Record]
  BY DEF Types, Books
<1>2. UNCHANGED <<client, next, sid>> /\ pc' = "failing" /\ hif' = <<>>
  BY <1>1, HeadTail, Emptiness, EventHandled DEF Stages, Refused, Failing
<1>3. UNCHANGED <<blocked, chip, sock>>
      /\ \A s \in Slots : info'[s].buf = info[s].buf /\ info'[s].rest = info[s].rest
  <2>1. CASE Stale(Head(hif))
    BY <2>1, LateHandled
  <2>2. CASE Own(Head(hif))
    <3>1. OnConnect(Head(hif)) /\ Head(hif).slot = client
      BY <2>2, EventHandled DEF Own
    <3> QED BY <1>1, <3>1 DEF OnConnect, Record
  <2> QED BY <1>1, <2>1, <2>2, HeadTail DEF Stages, Refused, Failing
<1>4. Types'
  BY HandleTyped
<1>5. Books' /\ BlockedIsReadable'
  BY <1>2, <1>3 DEF Books, SlotsAreOwned, BlockedIsReadable, Open
<1>6. Failing'
  BY <1>2, <1>3 DEF Stages, Refused, Failing
<1> QED BY <1>2, <1>4, <1>5, <1>6 DEF Stages, Between, InUse, Dialling, Refused

\* What is fetched of an event that brings data is not nothing.
LEMMA FetchBrings ==
  ASSUME NEW d \in Seq(Bytes), d # <<>>, NEW i \in Record, i.buf = <<>>, i.rest = d
  PROVE  ~Dry(Fetch(i, 1))
<1> DEFINE n == IF 1 * Buf < Len(d) THEN 1 * Buf ELSE Len(d)
           got == SubSeq(d, 1, n)
<1>1. n \in 1..Len(d)
  BY Emptiness, SocketAssumption DEF SocketAssumption
<1>2. got \in Seq(Bytes) /\ Len(got) = n
  BY <1>1
<1>3. (i.buf \o got) # <<>>
  BY <1>1, <1>2
<1>4. Fetch(i, 1).buf = i.buf \o got
  BY DEF Fetch, Record
<1> QED BY <1>3, <1>4 DEF Dry

LEMMA InUseHandle == ASSUME SocketInv, pc = "idle", client # None, Handle, hif # <<>> PROVE SocketInv'
<1> DEFINE e == Head(hif)
<1> USE DEF SocketInv
<1>1. client \in Slots /\ client # None /\ hif # <<>> /\ hif \in Seq(Event)
      /\ info \in [Slots -> Record] /\ sock \in [Slots -> Socket]
  BY DEF Types
<1>2. sock[client].used /\ sock[client].sid = sid /\ sid # 0 /\ info[client].state = "connected"
  BY <1>1 DEF Stages, InUse, Books
<1>3. e.cmd = "recv" /\ e.slot = client /\ e.sid = sid /\ e \in Event
  BY <1>1, <1>2, HeadTail DEF Stages, InUse
<1>4. UNCHANGED <<client, next, sid>> /\ pc' = "idle" /\ hif' = <<>>
  BY <1>1, <1>2, HeadTail, Emptiness, EventHandled DEF Stages, InUse
<1>5. Types'
  BY HandleTyped
<1>6. CASE OnEnd(e)
  <2>1. Close(client)
    BY <1>3, <1>6 DEF OnEnd
  <2>2. \A s \in Slots : /\ sock'[s] = Free /\ chip'[s] = Off
                         /\ info'[s].buf = <<>> /\ info'[s].rest = <<>>
    BY <1>1, <2>1, Closed
  <2>3. ~blocked' /\ info'[client].state = "invalid"
    BY <1>1, <2>1, Closed
  <2>4. Books' /\ BlockedIsReadable'
    <3>1. \A s \in Slots : ~sock'[s].used /\ chip'[s].phase = "off" /\ ~chip'[s].armed
      BY <2>2 DEF Free, Off
    <3> QED BY <1>1, <1>4, <2>2, <2>3, <3>1 DEF Books, SlotsAreOwned, BlockedIsReadable
  <2>5. InUse'
    BY <1>1, <1>4, <2>2, <2>3 DEF InUse, Free
  <2> QED BY <1>4, <1>5, <2>4, <2>5 DEF Stages, Between, Dialling, Refused, Failing, None
<1>7. CASE OnData(e)
  <2> DEFINE new == [info[client] EXCEPT !.rest = e.data]
             full == Fetch([new EXCEPT !.buf = <<>>], 1)
  <2>0. e.data \in Seq(Bytes) /\ e.data # <<>> /\ info[client] \in Record
    BY <1>1, <1>3, <1>7 DEF OnData, Event
  <2>1. new \in Record /\ [new EXCEPT !.buf = <<>>] \in Record /\ new.rest = e.data
        /\ [new EXCEPT !.buf = <<>>].rest = e.data /\ [new EXCEPT !.buf = <<>>].buf = <<>>
        /\ new.state = "connected"
    BY <1>2, <2>0, Received DEF Record
  <2>2. full.state = "connected" /\ ~Dry(full)
    BY <2>0, <2>1, FetchBrings DEF Fetch, Record
  <2>3. PICK i : /\ i \in {full, new}
                 /\ info' = [info EXCEPT ![client] = i] /\ blocked' = (i.rest # <<>>)
    BY <1>2, <1>3, <1>7 DEF OnData
  <2>4. i.state = "connected" /\ ~Dry(i)
    BY <2>0, <2>1, <2>2, <2>3 DEF Dry
  <2>5. sock' = Answered(client) /\ chip' = chip
    BY <1>3, <1>7 DEF OnData
  <2>6. info'[client] = i /\ \A s \in Slots \ {client} : info'[s] = info[s]
    BY <1>1, <2>3
  <2>7. /\ ~sock'[client].pending /\ sock'[client].used /\ sock'[client].sid = sid
        /\ \A s \in Slots \ {client} : sock'[s] = sock[s]
    BY <1>1, <1>2, <2>5 DEF Answered, Socket
  <2>8. BlockedIsReadable'
    BY <1>1, <1>4, <2>3, <2>4, <2>6 DEF BlockedIsReadable, Open
  <2>9. Books'
    BY <1>1, <1>2, <1>4, <2>4, <2>5, <2>6, <2>7 DEF Books, SlotsAreOwned, Open
  <2>10. InUse'
    BY <1>1, <1>2, <1>4, <2>4, <2>5, <2>6, <2>7 DEF Stages, InUse
  <2> QED BY <1>4, <1>5, <1>1, <2>8, <2>9, <2>10 DEF Stages, Between, Dialling, Refused, Failing
<1>8. ~OnStale(e)
  BY <1>2, <1>3 DEF OnStale
<1> QED BY <1>3, <1>6, <1>7, <1>8, EventHandled
\* Between two clients a late event finds its slot free: it is no one's.
LEMMA BetweenHandle ==
  ASSUME SocketInv, pc = "idle", client = None, Handle, hif # <<>> PROVE SocketInv'
<1> DEFINE e == Head(hif)
<1> USE DEF SocketInv
<1>1. e \in Event /\ e.slot \in Slots /\ hif \in Seq(Event) /\ sock \in [Slots -> Socket]
      /\ info \in [Slots -> Record] /\ ~blocked
  BY HeadTail, EventHandled DEF Types, Event
<1>2. \A s \in Slots : sock[s] = Free /\ s # None
  BY SocketAssumption DEF Books, SlotsAreOwned, SocketAssumption, Slots, None
<1>3. UNCHANGED <<pc, client, next, sid>> /\ hif' = <<>>
  BY <1>1, HeadTail, Emptiness, EventHandled DEF Stages, Between
<1>4. UNCHANGED <<blocked, chip, sock>>
      /\ \A s \in Slots : info'[s].buf = info[s].buf /\ info'[s].rest = info[s].rest
  <2>1. CASE e.cmd = "connect"
    <3>1. OnConnect(e)
      BY <2>1, EventHandled
    <3> QED BY <1>1, <3>1 DEF OnConnect, Record
  <2>2. CASE e.cmd = "recv"
    <3>1. e.sid # sock[e.slot].sid
      BY <1>1, <1>2, <2>2, HeadTail DEF Stages, Between, Free
    <3>2. OnStale(e)
      BY <2>2, <3>1, EventHandled DEF OnEnd, OnData
    <3>3. sock[e.slot] \in Socket /\ ~sock[e.slot].pending
      BY <1>1, <1>2 DEF Free
    <3>4. [sock[e.slot] EXCEPT !.pending = FALSE] = sock[e.slot]
      BY <3>3 DEF Socket
    <3>5. Answered(e.slot) = sock
      BY <1>1, <3>4 DEF Answered
    <3> QED BY <3>2, <3>5 DEF OnStale
  <2> QED BY <1>1, <2>1, <2>2 DEF Event
<1>5. Types'
  BY HandleTyped
<1>6. Books' /\ BlockedIsReadable'
  BY <1>1, <1>3, <1>4 DEF Books, SlotsAreOwned, BlockedIsReadable, Open
<1> QED BY <1>3, <1>5, <1>6 DEF Stages, Between, InUse, Dialling, Refused, Failing

\* The loss of the network leaves every slot blank on both sides.
LEMMA LossBlanks ==
  ASSUME SocketInv, OnLoss
  PROVE  \A s \in Slots : /\ sock'[s] = Free /\ chip'[s] = Off
                          /\ info'[s].buf = <<>> /\ info'[s].rest = <<>> /\ info'[s].state = "invalid"
<1> USE DEF SocketInv
<1> SUFFICES ASSUME NEW s \in Slots PROVE chip'[s] = Off
  BY DEF OnLoss, Blank
<1>1. CASE ~sock[s].used
  BY <1>1 DEF Books, OnLoss
<1>2. CASE sock[s].used
  <2>1. s = client /\ client # None /\ sock[client].sid = sid
    BY <1>2, SocketAssumption DEF Books, SlotsAreOwned, SocketAssumption, Slots, None
  <2>2. chip[s] = Off \/ chip[s].sid = sock[s].sid
    BY <1>2, <2>1 DEF Stages, InUse, Dialling, Refused, Failing, Types
  <2> QED BY <1>2, <2>2 DEF OnLoss
<1> QED BY <1>1, <1>2

LEMMA LossKeeps == ASSUME SocketInv, Handle, hif = <<>> PROVE SocketInv'
<1> USE DEF SocketInv
<1>1. \A s \in Slots : /\ sock'[s] = Free /\ chip'[s] = Off
                       /\ info'[s].buf = <<>> /\ info'[s].rest = <<>> /\ info'[s].state = "invalid"
  BY LossHandled, LossBlanks
<1>2. UNCHANGED <<hif, client, next, sid>> /\ ~blocked' /\ pc' = IF pc = "refused" THEN "failing" ELSE pc
  BY LossHandled DEF OnLoss
<1>3. Types'
  BY HandleTyped
<1>4. \A s \in Slots : ~sock'[s].used /\ ~sock'[s].pending /\ chip'[s].phase = "off" /\ ~chip'[s].armed
  BY <1>1 DEF Free, Off
<1>5. client \in Slots \cup {None}
  BY DEF Types
<1>6. Books' /\ BlockedIsReadable'
  BY <1>1, <1>2, <1>4, <1>5 DEF Books, SlotsAreOwned, BlockedIsReadable
<1>7. Between' /\ InUse'
  BY <1>1, <1>2, <1>4, <1>5 DEF Between, InUse
<1>8. Dialling' /\ Refused' /\ Failing'
  BY <1>1, <1>2, <1>4, <1>5 DEF Dialling, Refused, Failing, Books
<1> QED BY <1>3, <1>6, <1>7, <1>8 DEF Stages

LEMMA HandleKeeps == ASSUME SocketInv, Handle PROVE SocketInv'
  BY LossKeeps, DiallingHandle, FailingHandle, InUseHandle, BetweenHandle DEF SocketInv, Types

-----------------------------------------------------------------------------
(***************************************************************************)
(* The calls                                                               *)
(***************************************************************************)
\* A client that dials has no slot, and what is queued is not for it.
LEMMA DialBegins ==
  ASSUME SocketInv, Dial
  PROVE  /\ \A s \in Slots : sock[s] = Free /\ chip[s] = Off /\ info[s].buf = <<>> /\ info[s].rest = <<>>
         /\ FreeSlot = next /\ ~blocked /\ Len(hif) <= 1
         /\ hif # <<>> => \/ hif[1].cmd = "connect" /\ hif[1].slot # next
                          \/ hif[1].cmd = "recv" /\ hif[1].sid = sid /\ sid # 0
<1> USE DEF SocketInv
<1>1. pc = "idle" /\ ~Open
  BY DEF Dial, Open
<1>2. \A s \in Slots : ~sock[s].used
  <2>1. client \in Slots => client # None
    BY SocketAssumption DEF SocketAssumption, Slots, None
  <2> QED BY <1>1, <2>1 DEF Books, SlotsAreOwned, Stages, InUse, Dial
<1>3. \A s \in Slots : sock[s] = Free /\ chip[s] = Off /\ info[s].buf = <<>> /\ info[s].rest = <<>>
  BY <1>1, <1>2 DEF Books
<1>4. FreeSlot = next /\ ~blocked
  BY <1>1, <1>2, NextIsFree DEF BlockedIsReadable, Types
<1>5. CASE client = None
  <2>1. Between
    BY DEF Stages
  <2>2. Len(hif) <= 1
    BY <1>1, <1>5, <2>1 DEF Between
  <2>3. hif # <<>> => \/ hif[1].cmd = "connect" /\ hif[1].slot # next
                      \/ hif[1].cmd = "recv" /\ hif[1].sid = sid /\ sid # 0
    BY <1>1, <1>5, <2>1 DEF Between
  <2> QED BY <1>3, <1>4, <2>2, <2>3
<1>6. CASE client # None
  <2>1. hif = <<>>
    BY <1>1, <1>2, <1>6 DEF Stages, InUse, Types
  <2>2. Len(hif) <= 1
    BY <2>1
  <2> QED BY <1>3, <1>4, <2>1, <2>2
<1> QED BY <1>5, <1>6

LEMMA DialTakes ==
  ASSUME Dial, FreeSlot = next, next \in Slots, \A s \in Slots : sock[s] = Free
  PROVE  /\ client' = next /\ next' = (next + 1) % N /\ sid' = NextSid /\ conns' = conns + 1
         /\ sock' = [sock EXCEPT ![next] = [Free EXCEPT !.used = TRUE, !.sid = NextSid]]
         /\ blocked' = blocked /\ hif' = hif /\ lost' = lost /\ peer' = NoPeer /\ taken' = <<>>
         /\ \/ /\ pc' = "dialling" /\ info' = [info EXCEPT ![next].state = "connecting"]
               /\ chip' = [chip EXCEPT ![next] = [Off EXCEPT !.phase = "asked", !.sid = NextSid,
                                                            !.conn = conns + 1]]
            \/ /\ pc' = "refused" /\ chip' = chip
               /\ info' = info \/ info' = [info EXCEPT ![next].state = "idle"]
<1>1. ~\A s \in Slots : sock[s].used
  BY DEF Free
<1> QED BY <1>1 DEF Dial

LEMMA DialKeeps == ASSUME SocketInv, Dial PROVE SocketInv'
<1> USE DEF SocketInv
<1>1. next \in Slots /\ FreeSlot = next /\ (\A s \in Slots : sock[s] = Free)
  BY DialBegins DEF Types
<1>2. next' \in Slots /\ next' # next /\ client' = next /\ hif' = hif /\ ~blocked'
      /\ sid' \in 1..Sids - 1 /\ sid' # sid /\ sid' = NextSid
  BY <1>1, DialBegins, DialTakes, NextSlot, NextSession DEF Types
<1>3. sock \in [Slots -> Socket] /\ info \in [Slots -> Record] /\ chip \in [Slots -> Side]
      /\ hif \in Seq(Event) /\ conns + 1 \in Nat /\ NextSid \in 0..Sids - 1 /\ sid' # 0
  BY <1>2, SocketAssumption DEF Types, SocketAssumption
<1>4. next # None /\ \A s \in Slots : s # None
  BY <1>1, SocketAssumption DEF SocketAssumption, Slots, None
<1>5. sock'[next] = [used |-> TRUE, sid |-> sid', pending |-> FALSE]
      /\ \A s \in Slots \ {next} : sock'[s] = Free
  BY <1>1, <1>2, <1>3, DialTakes DEF Free
<1>6. sock' \in [Slots -> Socket]
  <2>1. [Free EXCEPT !.used = TRUE, !.sid = NextSid] \in Socket
    BY <1>3 DEF Socket, Free
  <2> QED BY <1>1, <1>3, <2>1, DialTakes
<1>t. /\ client' \in Slots \cup {None} /\ next' \in Slots /\ sid' \in 0..Sids - 1
      /\ blocked' \in BOOLEAN /\ conns' \in Nat /\ hif' \in Seq(Event) /\ lost' \in BOOLEAN /\ taken' \in Seq(Bytes)
      /\ peer' \in [accepted : BOOLEAN, ended : BOOLEAN, broken : BOOLEAN, sent : Seq(Bytes)]
  <2>1. blocked' \in BOOLEAN /\ lost' \in BOOLEAN /\ conns' = conns + 1 /\ peer' = NoPeer /\ taken' = <<>>
    BY <1>1, DialTakes DEF Types
  <2> QED BY <1>1, <1>2, <1>3, <2>1, Values
<1>7. Len(hif') <= 1
      /\ (hif' # <<>> => \/ hif'[1].cmd = "connect" /\ hif'[1].slot # client'
                         \/ hif'[1].cmd = "recv" /\ hif'[1].sid # 0 /\ hif'[1].sid # sid')
  BY <1>2, DialBegins
<1>8. CASE /\ pc' = "dialling" /\ info' = [info EXCEPT ![next].state = "connecting"]
           /\ chip' = [chip EXCEPT ![next] = [Off EXCEPT !.phase = "asked", !.sid = NextSid,
                                                        !.conn = conns + 1]]
  <2> DEFINE side == [Off EXCEPT !.phase = "asked", !.sid = NextSid, !.conn = conns + 1]
  <2>1. side \in Side /\ side.phase = "asked" /\ side.sid = sid' /\ ~side.armed
    BY <1>2, <1>3, Values DEF Side, Off
  <2>2. chip' \in [Slots -> Side] /\ chip'[next] = side
        /\ \A s \in Slots \ {next} : chip'[s] = Off
    <3> HIDE DEF side
    <3>1. chip' = [chip EXCEPT ![next] = side]
      BY <1>8 DEF side
    <3> QED BY <1>1, <1>3, <2>1, <3>1, DialBegins
  <2> HIDE DEF side
  <2>3. info' \in [Slots -> Record] /\ info'[next].state = "connecting"
        /\ \A s \in Slots : info'[s].buf = <<>> /\ info'[s].rest = <<>>
    BY <1>1, <1>3, <1>8, DialBegins DEF Record, States
  <2>4. Types'
    BY <1>6, <1>8, <1>t, <2>2, <2>3 DEF Types
  <2>5. Books'
    <3>1. \A s \in Slots \ {next} : ~sock'[s].used /\ chip'[s].phase = "off" /\ ~chip'[s].armed
      BY <1>5, <2>2 DEF Free, Off
    <3> QED BY <1>2, <1>3, <1>4, <1>5, <1>8, <2>1, <2>2, <2>3, <3>1 DEF Books, SlotsAreOwned
  <2>6. Dialling'
    BY <1>2, <1>5, <1>7, <1>8, <2>1, <2>2, <2>3 DEF Dialling, Stale
  <2> QED BY <1>2, <1>8, <2>4, <2>5, <2>6
      DEF BlockedIsReadable, Stages, Between, InUse, Refused, Failing
<1>9. CASE /\ pc' = "refused" /\ chip' = chip
           /\ info' = info \/ info' = [info EXCEPT ![next].state = "idle"]
  <2>1. chip' \in [Slots -> Side] /\ \A s \in Slots : chip'[s] = Off
    BY <1>3, <1>9, DialBegins
  <2>2. info' \in [Slots -> Record] /\ \A s \in Slots : info'[s].buf = <<>> /\ info'[s].rest = <<>>
    BY <1>1, <1>3, <1>9, DialBegins DEF Record, States
  <2>3. Types'
    BY <1>6, <1>9, <1>t, <2>1, <2>2 DEF Types
  <2>4. Books'
    <3>1. \A s \in Slots : chip'[s].phase = "off" /\ ~chip'[s].armed
      BY <2>1 DEF Off
    <3>2. \A s \in Slots \ {next} : ~sock'[s].used
      BY <1>5 DEF Free
    <3> QED BY <1>2, <1>3, <1>4, <1>5, <1>9, <2>1, <2>2, <3>1, <3>2 DEF Books, SlotsAreOwned
  <2>5. Refused'
    BY <1>1, <1>2, <1>7, <1>9, <2>1 DEF Refused, Stale
  <2> QED BY <1>2, <1>9, <2>3, <2>4, <2>5
      DEF BlockedIsReadable, Stages, Between, InUse, Dialling, Failing
<1> QED BY <1>1, <1>8, <1>9, DialTakes

\* connect() succeeds: every event is handled, and the chip is asked for data.
LEMMA DialledKeeps == ASSUME SocketInv, Dialled PROVE SocketInv'
<1> USE DEF SocketInv
<1>1. client \in Slots /\ client # None /\ sock \in [Slots -> Socket] /\ info \in [Slots -> Record]
      /\ chip \in [Slots -> Side]
  BY DEF Dialled, Types, Books
<1>2. sock[client].used /\ ~sock[client].pending /\ sock[client].sid = sid /\ sid # 0
  BY <1>1 DEF Dialled, Stages, Dialling, Books
<1>3. hif = <<>> /\ chip[client].phase = "open" /\ chip[client].sid = sid
  BY DEF Dialled, Stages, Dialling
<1>4. pc' = "idle" /\ UNCHANGED <<client, next, sid, blocked, hif, lost, conns, peer, taken>>
  BY DEF Dialled
<1>5. sock' = [sock EXCEPT ![client].pending = TRUE] /\ chip' = [chip EXCEPT ![client].armed = TRUE]
  BY <1>2, <1>3 DEF Dialled, Recv
<1>6. sock'[client].used /\ sock'[client].sid = sid /\ sock'[client].pending
      /\ \A s \in Slots \ {client} : sock'[s] = sock[s]
  BY <1>1, <1>2, <1>5 DEF Socket
<1>7. chip'[client].phase = "open" /\ chip'[client].sid = sid /\ chip'[client].armed
      /\ \A s \in Slots \ {client} : chip'[s] = chip[s]
  BY <1>1, <1>3, <1>5 DEF Side
<1>8. info'[client].state = "connected" /\ (\A s \in Slots : info'[s].buf = <<>> /\ info'[s].rest = <<>>)
      /\ info' \in [Slots -> Record]
  <2>1. info[client] \in Record /\ info[client].state = "connected"
    BY <1>1 DEF Dialled
  <2>2. [info[client] EXCEPT !.rest = <<>>] \in Record
    <3>1. <<>> \in Seq(Bytes)
      OBVIOUS
    <3> QED BY <2>1, <3>1, Received
  <2>3. \A s \in Slots : info[s].buf = <<>> /\ (s # client => info[s].rest = <<>>)
    BY DEF Books, Open, Dialled
  <2>4. info' = [info EXCEPT ![client].rest = <<>>]
    BY DEF Dialled
  <2> QED BY <1>1, <2>1, <2>2, <2>3, <2>4 DEF Record
<1>9. Types'
  BY <1>1, <1>4, <1>8, RecvTyped DEF Types, Dialled
<1>10. Books' /\ BlockedIsReadable'
  BY <1>1, <1>2, <1>4, <1>6, <1>7, <1>8 DEF Books, SlotsAreOwned, BlockedIsReadable, Open, Dialled
<1>11. InUse'
  BY <1>3, <1>4, <1>6, <1>7, <1>8, <1>1 DEF InUse, Dry
<1> QED BY <1>1, <1>4, <1>9, <1>10, <1>11 DEF Stages, Between, Dialling, Refused, Failing

LEMMA GiveUpKeeps == ASSUME SocketInv, GiveUp \/ NoEvent PROVE SocketInv'
<1> USE DEF SocketInv
<1>1. client \in Slots /\ client # None /\ info \in [Slots -> Record] /\ pc \in {"dialling", "refused"}
  BY DEF GiveUp, NoEvent, Types, Books
<1>2. ~blocked
  BY <1>1 DEF BlockedIsReadable, Open
<1>3. hif = <<>> /\ (chip[client] = Off \/ chip[client].sid = sid)
  BY <1>2 DEF GiveUp, NoEvent, Stages, Dialling, Refused
<1>4. UNCHANGED <<client, next, sid, sock, blocked, hif, lost, chip, peer, conns, taken>> /\ pc' = "failing"
  BY DEF GiveUp, NoEvent, chipVars
<1>5. info' \in [Slots -> Record] /\ \A s \in Slots : info'[s].buf = <<>> /\ info'[s].rest = <<>>
  <2>1. \A s \in Slots : info[s].buf = <<>> /\ info[s].rest = <<>>
    BY <1>1 DEF Books, Open
  <2>2. info' = [info EXCEPT ![client].state = "idle"] \/ info' = info
    BY DEF GiveUp, NoEvent
  <2> QED BY <1>1, <2>1, <2>2 DEF Record, States
<1>6. Types'
  BY <1>4, <1>5 DEF Types
<1>7. Books' /\ BlockedIsReadable'
  BY <1>1, <1>2, <1>4, <1>5 DEF Books, SlotsAreOwned, BlockedIsReadable
<1>8. Failing'
  BY <1>3, <1>4 DEF Failing
<1> QED BY <1>4, <1>6, <1>7, <1>8 DEF Stages, Between, InUse, Dialling, Refused

\* A client that is stopped leaves at most the answer to its last recv behind,
\* one that failed the answer to its connect; the next slot is another.
LEMMA LeaveKeeps == ASSUME SocketInv, Fail \/ Stop PROVE SocketInv'
<1> USE DEF SocketInv
<1>1. client \in Slots /\ client # None /\ hif \in Seq(Event) /\ Close(client)
      /\ UNCHANGED <<next, sid, hif, lost, conns, peer, taken>> /\ pc' = "idle" /\ client' = None
  BY DEF Fail, Stop, Types, Books
<1>2. /\ sock' \in [Slots -> Socket] /\ info' \in [Slots -> Record]
      /\ chip' \in [Slots -> Side] /\ ~blocked' /\ blocked' \in BOOLEAN
      /\ \A s \in Slots : sock'[s] = Free /\ chip'[s] = Off
      /\ \A s \in Slots : info'[s].buf = <<>> /\ info'[s].rest = <<>>
  BY <1>1, Closed
<1>3. Types'
  BY <1>1, <1>2 DEF Types
<1>4. Books' /\ BlockedIsReadable'
  <2>1. \A s \in Slots : ~sock'[s].used /\ chip'[s].phase = "off" /\ ~chip'[s].armed
    BY <1>2 DEF Free, Off
  <2> QED BY <1>1, <1>2, <2>1 DEF Books, SlotsAreOwned, BlockedIsReadable
<1>5. Between'
  <2>1. CASE pc = "failing"
    BY <1>1, <2>1 DEF Between, Stages, Failing, Own, Books
  <2>2. CASE pc = "idle" /\ sock[client].used
    BY <1>1, <2>2 DEF Between, Stages, InUse, Books
  <2>3. CASE pc = "idle" /\ ~sock[client].used
    <3>1. hif = <<>> /\ Len(hif) = 0
      BY <1>1, <2>3 DEF Stages, InUse
    <3> QED BY <1>1, <3>1 DEF Between
  <2> QED BY <2>1, <2>2, <2>3 DEF Fail, Stop
<1> QED BY <1>1, <1>3, <1>4, <1>5 DEF Stages, InUse, Dialling, Refused, Failing

\* As many transfers of Buf bytes as x bytes take.
LEMMA Transfers ==
  ASSUME NEW x \in Nat
  PROVE  (x + Buf - 1) \div Buf \in Nat /\ ((x + Buf - 1) \div Buf) * Buf >= x
<1> DEFINE a == x + Buf - 1
           q == a \div Buf
<1>1. Buf \in Nat \ {0} /\ a \in Nat
  BY SocketAssumption DEF SocketAssumption
<1>2. q \in Nat /\ a % Buf \in 0..Buf - 1 /\ a = Buf * q + (a % Buf)
  BY <1>1
<1>3. q * Buf = Buf * q /\ q * Buf \in Nat
  BY <1>1, <1>2
<1> HIDE DEF q
<1>4. q * Buf >= x
  BY <1>1, <1>2, <1>3
<1> QED BY <1>2, <1>4 DEF q

LEMMA Fetched ==
  ASSUME NEW i \in Record, NEW k \in Nat,
         NEW n, n = IF k * Buf < Len(i.rest) THEN k * Buf ELSE Len(i.rest)
  PROVE  /\ n \in 0..Len(i.rest)
         /\ Fetch(i, k) = [state |-> i.state, buf |-> i.buf \o SubSeq(i.rest, 1, n),
                           rest |-> SubSeq(i.rest, n + 1, Len(i.rest))]
         /\ Len(Fetch(i, k).buf) = Len(i.buf) + n
<1>1. i.buf \in Seq(Bytes) /\ i.rest \in Seq(Bytes) /\ k * Buf \in Nat
  BY SocketAssumption DEF SocketAssumption, Record
<1>2. n \in 0..Len(i.rest)
  BY <1>1
<1>3. SubSeq(i.rest, 1, n) \in Seq(Bytes) /\ Len(SubSeq(i.rest, 1, n)) = n
  BY <1>1, <1>2
<1>4. Fetch(i, k) = [i EXCEPT !.buf = i.buf \o SubSeq(i.rest, 1, n),
                              !.rest = SubSeq(i.rest, n + 1, Len(i.rest))]
  BY <1>3 DEF Fetch
<1>5. Fetch(i, k) = [state |-> i.state, buf |-> i.buf \o SubSeq(i.rest, 1, n),
                    rest |-> SubSeq(i.rest, n + 1, Len(i.rest))]
  BY <1>4 DEF Record
<1>6. Len(i.buf \o SubSeq(i.rest, 1, n)) = Len(i.buf) + n
  BY <1>1, <1>3
<1> QED BY <1>2, <1>5, <1>6

\* The bytes a read wants, a of them at hand and b in the chip, are there after
\* its transfers.
Want(n, a, b)  == IF n < a + b THEN n ELSE a + b
Fills(w, a)    == IF w <= a THEN 0 ELSE (w - a + Buf - 1) \div Buf

LEMMA WantedArrive ==
  ASSUME NEW n \in Nat, NEW a \in Nat, NEW b \in Nat
  PROVE  LET w == Want(n, a, b)
             f == Fills(w, a)
         IN /\ w \in 0..a + b /\ f \in Nat
            /\ w <= a + (IF f * Buf < b THEN f * Buf ELSE b)
<1> DEFINE w == Want(n, a, b)
           f == Fills(w, a)
<1>1. w \in 0..a + b
  BY DEF Want
<1> HIDE DEF w
<1>2. ASSUME w <= a PROVE f \in Nat /\ w <= a + (IF f * Buf < b THEN f * Buf ELSE b)
  <2>1. f = 0 /\ f * Buf = 0
    BY <1>2, SocketAssumption DEF Fills, SocketAssumption
  <2> QED BY <1>1, <1>2, <2>1
<1>3. ASSUME w > a PROVE f \in Nat /\ w <= a + (IF f * Buf < b THEN f * Buf ELSE b)
  <2>1. w - a \in Nat
    BY <1>1, <1>3
  <2>2. f = (w - a + Buf - 1) \div Buf
    BY <1>1, <1>3 DEF Fills
  <2>3. f \in Nat /\ f * Buf >= w - a
    BY <2>1, <2>2, Transfers
  <2>4. f * Buf \in Nat
    BY <2>3, SocketAssumption DEF SocketAssumption
  <2> HIDE DEF f
  <2> QED BY <1>1, <1>3, <2>3, <2>4
<1> QED BY <1>1, <1>2, <1>3 DEF w

\* What a read leaves, after k transfers and m bytes.
Left(i, k, m) ==
  LET full == Fetch(i, k) IN [full EXCEPT !.buf = SubSeq(full.buf, m + 1, Len(full.buf))]

LEMMA ReadParts ==
  ASSUME Types, NEW n \in Nat, Read(n)
  PROVE  \E k \in Nat : \E m \in 0..Len(Fetch(info[client], k).buf) :
           /\ info' = [info EXCEPT ![client] = Left(info[client], k, m)]
           /\ taken' = taken \o SubSeq(Fetch(info[client], k).buf, 1, m)
           /\ blocked' = (blocked /\ Left(info[client], k, m).rest # <<>>)
           /\ IF Dry(Left(info[client], k, m)) THEN Recv(client) ELSE UNCHANGED <<sock, chip>>
<1> DEFINE i == info[client]
           a == Len(i.buf)
           b == Len(i.rest)
           w == Want(n, a, b)
           f == Fills(w, a)
<1>1. i \in Record
  BY DEF Read, Types
<1>2. a \in Nat /\ b \in Nat
  BY <1>1 DEF Record
<1>3. PICK k \in 0..f :
           LET m == IF k = f THEN w ELSE Len(Fetch(i, k).buf)
           IN /\ info' = [info EXCEPT ![client] = Left(i, k, m)]
              /\ taken' = taken \o SubSeq(Fetch(i, k).buf, 1, m)
              /\ blocked' = (blocked /\ Left(i, k, m).rest # <<>>)
              /\ IF Dry(Left(i, k, m)) THEN Recv(client) ELSE UNCHANGED <<sock, chip>>
  BY DEF Read, Left, Want, Fills
<1> DEFINE m   == IF k = f THEN w ELSE Len(Fetch(i, k).buf)
           got == IF k * Buf < b THEN k * Buf ELSE b
<1>4. w \in 0..a + b /\ f \in Nat /\ w <= a + (IF f * Buf < b THEN f * Buf ELSE b)
  <2> HIDE DEF a, b
  <2> QED BY <1>2, WantedArrive
<1>5. k \in Nat
  BY <1>4
<1>6. got \in 0..b /\ Len(Fetch(i, k).buf) = a + got
  <2> HIDE DEF i
  <2> QED BY <1>1, <1>5, Fetched
<1>7. m \in 0..Len(Fetch(i, k).buf)
  <2>1. k = f => w <= a + got
    BY <1>4
  <2> HIDE DEF w, f, got, a, b
  <2> QED BY <1>2, <1>4, <1>6, <2>1
<1> QED BY <1>3, <1>5, <1>7

LEMMA LeftTyped ==
  ASSUME NEW i \in Record, NEW k \in Nat, NEW m \in 0..Len(Fetch(i, k).buf)
  PROVE  /\ Fetch(i, k).buf \in Seq(Bytes) /\ SubSeq(Fetch(i, k).buf, 1, m) \in Seq(Bytes)
         /\ Left(i, k, m) \in Record /\ Left(i, k, m).state = i.state
<1> DEFINE full == Fetch(i, k)
<1>0. full \in Record
  BY FetchTyped
<1>1. full \in Record /\ full.state = i.state
  BY <1>0 DEF Fetch, Record
<1>2. full.buf \in Seq(Bytes)
  BY <1>1 DEF Record
<1> HIDE DEF full
<1>3. SubSeq(full.buf, 1, m) \in Seq(Bytes) /\ SubSeq(full.buf, m + 1, Len(full.buf)) \in Seq(Bytes)
  BY <1>2, Part DEF full
<1>4. [full EXCEPT !.buf = SubSeq(full.buf, m + 1, Len(full.buf))] \in Record
      /\ [full EXCEPT !.buf = SubSeq(full.buf, m + 1, Len(full.buf))].state = i.state
  BY <1>1, <1>3 DEF Record
<1> QED BY <1>2, <1>3, <1>4 DEF full, Left

\* A read empties the client and then asks for more, or leaves it with
\* something to read.
LEMMA ReadKeeps == ASSUME SocketInv, NEW n \in Nat, Read(n) PROVE SocketInv'
<1> USE DEF SocketInv
<1>1. /\ client \in Slots /\ client # None /\ sock \in [Slots -> Socket] /\ info \in [Slots -> Record]
      /\ chip \in [Slots -> Side] /\ pc = "idle" /\ info[client].state = "connected"
  BY DEF Read, Types
<1>2. sock[client].used /\ sock[client].sid = sid /\ sid # 0 /\ chip[client].sid = sid
      /\ chip[client].phase = "open"
  BY <1>1 DEF Stages, InUse, Books
<1>3. ~Dry(info[client])
  <2>1. Len(info[client].buf) + Len(info[client].rest) > 0
    BY DEF Read
  <2>2. Dry(info[client]) => Len(info[client].buf) = 0 /\ Len(info[client].rest) = 0
    BY DEF Dry
  <2>3. ~(0 + 0 > 0)
    OBVIOUS
  <2> QED BY <2>1, <2>2, <2>3
<1>4. ~sock[client].pending /\ ~chip[client].armed /\ hif = <<>>
  BY <1>1, <1>2, <1>3 DEF Stages, InUse
<1>5. UNCHANGED <<pc, client, next, sid, hif, lost, conns, peer>>
  BY DEF Read
<1>k. PICK k \in Nat : \E m \in 0..Len(Fetch(info[client], k).buf) :
           /\ info' = [info EXCEPT ![client] = Left(info[client], k, m)]
           /\ taken' = taken \o SubSeq(Fetch(info[client], k).buf, 1, m)
           /\ blocked' = (blocked /\ Left(info[client], k, m).rest # <<>>)
           /\ IF Dry(Left(info[client], k, m)) THEN Recv(client) ELSE UNCHANGED <<sock, chip>>
  BY ReadParts
<1>6. PICK m \in 0..Len(Fetch(info[client], k).buf) :
           /\ info' = [info EXCEPT ![client] = Left(info[client], k, m)]
           /\ taken' = taken \o SubSeq(Fetch(info[client], k).buf, 1, m)
           /\ blocked' = (blocked /\ Left(info[client], k, m).rest # <<>>)
           /\ IF Dry(Left(info[client], k, m)) THEN Recv(client) ELSE UNCHANGED <<sock, chip>>
  BY <1>k
<1> DEFINE left == Left(info[client], k, m)
<1>7. left \in Record /\ left.state = "connected" /\ taken' \in Seq(Bytes)
  <2>1. info[client] \in Record /\ taken \in Seq(Bytes)
    BY <1>1 DEF Types
  <2>2. left \in Record /\ left.state = "connected"
        /\ SubSeq(Fetch(info[client], k).buf, 1, m) \in Seq(Bytes)
    BY <1>1, <1>6, <2>1, LeftTyped
  <2>3. \A q \in Seq(Bytes), r \in Seq(Bytes) : q \o r \in Seq(Bytes)
    BY ConcatProperties
  <2> QED BY <1>6, <2>1, <2>2, <2>3
<1> HIDE DEF left
<1>8. info'[client] = left /\ (\A s \in Slots \ {client} : info'[s] = info[s])
      /\ info' \in [Slots -> Record]
  BY <1>1, <1>6, <1>7 DEF left
<1>9. /\ sock' \in [Slots -> Socket] /\ chip' \in [Slots -> Side]
      /\ sock'[client].used /\ sock'[client].sid = sid /\ chip'[client].sid = sid
      /\ chip'[client].phase = "open"
      /\ sock'[client].pending <=> Dry(left)
      /\ chip'[client].armed <=> Dry(left)
      /\ \A s \in Slots \ {client} : sock'[s] = sock[s] /\ chip'[s] = chip[s]
  <2>1. CASE Dry(left)
    <3>1. Recv(client)
      BY <1>6, <2>1 DEF left
    <3>2. sock' = [sock EXCEPT ![client].pending = TRUE] /\ chip' = [chip EXCEPT ![client].armed = TRUE]
      BY <1>2, <1>4, <3>1 DEF Recv
    <3>3. sock[client] \in Socket /\ chip[client] \in Side
      BY <1>1
    <3> QED BY <1>1, <1>2, <2>1, <3>1, <3>2, <3>3, RecvTyped DEF Socket, Side
  <2>2. CASE ~Dry(left)
    <3>1. UNCHANGED <<sock, chip>>
      BY <1>6, <2>2 DEF left
    <3> QED BY <1>1, <1>2, <1>4, <2>2, <3>1
  <2> QED BY <2>1, <2>2
<1>10. Types'
  BY <1>5, <1>6, <1>7, <1>8, <1>9 DEF Types
<1>11. Books'
  BY <1>1, <1>2, <1>5, <1>7, <1>8, <1>9 DEF Books, SlotsAreOwned, Open
<1>12. BlockedIsReadable'
  BY <1>1, <1>5, <1>6, <1>7, <1>8 DEF BlockedIsReadable, Open, left
<1>13. InUse'
  <2>1. Len(hif') = 0
    BY <1>4, <1>5
  <2> QED BY <1>1, <1>2, <1>4, <1>5, <1>7, <1>8, <1>9, <2>1 DEF InUse
<1> QED BY <1>1, <1>5, <1>10, <1>11, <1>12, <1>13 DEF Stages, Between, Dialling, Refused, Failing
-----------------------------------------------------------------------------
(***************************************************************************)
(* The chip                                                                *)
(***************************************************************************)
\* The chip acts for the client's slot alone.
LEMMA ChipSlot ==
  ASSUME SocketInv, NEW s \in Slots, chip[s].phase # "off" \/ chip[s].armed
  PROVE  /\ s = client /\ client # None /\ sock[client].used /\ sock[client].sid = sid /\ sid # 0
         /\ chip[client] # Off /\ chip[client].sid = sid
<1> USE DEF SocketInv
<1>1. chip[s] # Off
  BY DEF Off
<1>2. sock[s].used /\ s = client
  BY <1>1 DEF Books, SlotsAreOwned
<1>3. client # None
  BY <1>2, SocketAssumption DEF SocketAssumption, Slots, None
<1>4. chip[client].sid = sid
  BY <1>1, <1>2, <1>3 DEF Stages, InUse, Dialling, Refused, Failing, Types
<1> QED BY <1>1, <1>2, <1>3, <1>4 DEF Books

LEMMA AnswerKeeps == ASSUME SocketInv, NEW s \in Slots, Answer(s) PROVE SocketInv'
<1> USE DEF SocketInv
<1>1. /\ s = client /\ client # None /\ sock[client].used /\ chip[client].sid = sid
      /\ chip[client] # Off /\ chip[client].phase = "asked"
  BY ChipSlot DEF Answer
<1>2. PICK ok \in BOOLEAN :
           /\ chip' = [chip EXCEPT ![client].phase = IF ok THEN "open" ELSE "off"]
           /\ hif' = Append(hif, [cmd |-> "connect", slot |-> client, ok |-> ok])
           /\ peer' = IF Mine(client) THEN [peer EXCEPT !.accepted = ok] ELSE peer
  BY <1>1 DEF Answer
<1>3. UNCHANGED <<pc, client, next, sid, sock, info, blocked, lost, conns, taken>>
  BY DEF Answer, hostVars
<1>4. pc \in {"dialling", "failing"}
  BY <1>1 DEF Stages, InUse, Refused, Types
<1>5. chip' \in [Slots -> Side] /\ chip'[client].phase \in {"open", "off"} /\ chip'[client].sid = sid
      /\ (ok => chip'[client].phase = "open") /\ (\A t \in Slots \ {client} : chip'[t] = chip[t])
      /\ chip'[client].armed = chip[client].armed
  <2> DEFINE side == [chip[client] EXCEPT !.phase = IF ok THEN "open" ELSE "off"]
  <2>1. chip[client] \in Side
    BY <1>1 DEF Types
  <2>2. side \in Side /\ side.phase = (IF ok THEN "open" ELSE "off") /\ side.sid = sid
        /\ side.armed = chip[client].armed
    BY <1>1, <2>1 DEF Side
  <2>3. chip' = [chip EXCEPT ![client] = side]
    BY <1>2
  <2> HIDE DEF side
  <2> QED BY <1>1, <2>2, <2>3 DEF Types
<1> DEFINE e == [cmd |-> "connect", slot |-> client, ok |-> ok]
<1>6. e \in Event /\ hif \in Seq(Event) /\ e.cmd = "connect" /\ e.slot = client /\ e.ok = ok
  BY <1>1 DEF Event, Types
<1> HIDE DEF e
<1>7. hif' \in Seq(Event) /\ Len(hif') = Len(hif) + 1 /\ hif'[Len(hif')] = e
      /\ (\A k \in 1..Len(hif) : hif'[k] = hif[k])
  BY <1>2, <1>6, Appended DEF e
<1>8. Types'
  BY <1>2, <1>3, <1>5, <1>7 DEF Types
<1>9. Books' /\ BlockedIsReadable'
  BY <1>1, <1>3, <1>4, <1>5 DEF Books, SlotsAreOwned, BlockedIsReadable, Open
<1>10. CASE pc = "dialling"
  <2>1. info[client].state = "connecting" /\ Len(hif) <= 1 /\ (hif # <<>> => Stale(hif[1]))
    BY <1>1, <1>10 DEF Stages, Dialling
  <2>2. Len(hif') \in {1, 2} /\ (Len(hif') = 2 => hif # <<>> /\ hif'[1] = hif[1])
    BY <1>6, <1>7, <2>1, Emptiness
  <2>3. Dialling'
    BY <1>1, <1>3, <1>5, <1>6, <1>7, <2>1, <2>2 DEF Dialling, Own, Stale
  <2> QED BY <1>3, <1>8, <1>9, <1>10, <2>3 DEF Stages, Between, InUse, Refused, Failing
<1>11. CASE pc = "failing"
  <2>1. hif = <<>> /\ Len(hif) = 0
    BY <1>1, <1>11 DEF Stages, Failing
  <2>2. Failing'
    BY <1>3, <1>5, <1>6, <1>7, <2>1 DEF Failing, Own
  <2> QED BY <1>3, <1>8, <1>9, <1>11, <2>2 DEF Stages, Between, InUse, Dialling, Refused
<1> QED BY <1>4, <1>10, <1>11

\* What the peer does shows in no event yet.
LEMMA PeerKeeps ==
  ASSUME SocketInv, NEW s \in Slots, PeerSends(s) \/ PeerEnds(s) PROVE SocketInv'
<1> USE DEF SocketInv
<1>1. s = client /\ client # None /\ sock[client].used /\ chip[client].phase = "open"
      /\ chip[client] # Off /\ chip[client].sid = sid
  BY ChipSlot DEF PeerSends, PeerEnds
<1>2. UNCHANGED <<pc, client, next, sid, sock, info, blocked, hif, lost, conns, taken>>
  BY DEF PeerSends, PeerEnds, hostVars
<1>3. chip[client] \in Side /\ peer.sent \in Seq(Bytes) /\ <<conns, Len(peer.sent) + 1>> \in Bytes
  BY <1>1 DEF Types, Bytes
<1>4. PICK side \in Side :
           /\ side.phase = "open" /\ side.sid = sid /\ side.armed = chip[client].armed
           /\ chip' = [chip EXCEPT ![client] = side]
  <2>1. CASE PeerSends(s)
    <3> DEFINE b == <<conns, Len(peer.sent) + 1>>
    <3>1. Append(chip[client].queue, b) \in Seq(Bytes)
      BY <1>3 DEF Side
    <3>2. chip' = [chip EXCEPT ![client] = [chip[client] EXCEPT !.queue = Append(chip[client].queue, b)]]
      BY <1>1, <2>1 DEF PeerSends
    <3> HIDE DEF b
    <3>3. [chip[client] EXCEPT !.queue = Append(chip[client].queue, b)] \in Side
      BY <1>3, <3>1 DEF Side
    <3> QED BY <1>1, <1>3, <3>2, <3>3 DEF Side
  <2>2. CASE PeerEnds(s)
    <3>1. chip' = [chip EXCEPT ![client] = [chip[client] EXCEPT !.ended = TRUE]]
      BY <1>1, <2>2 DEF PeerEnds
    <3>2. [chip[client] EXCEPT !.ended = TRUE] \in Side
      BY <1>3 DEF Side
    <3> QED BY <1>1, <1>3, <3>1, <3>2 DEF Side
  <2> QED BY <2>1, <2>2
<1>5. chip' \in [Slots -> Side] /\ chip'[client] = side /\ (\A t \in Slots \ {client} : chip'[t] = chip[t])
  BY <1>1, <1>4 DEF Types
<1>6. peer' \in [accepted : BOOLEAN, ended : BOOLEAN, broken : BOOLEAN, sent : Seq(Bytes)]
  <2>1. Append(peer.sent, <<conns, Len(peer.sent) + 1>>) \in Seq(Bytes)
    BY <1>3
  <2> QED BY <2>1 DEF PeerSends, PeerEnds, Types
<1>7. Types'
  BY <1>2, <1>5, <1>6 DEF Types
<1>8. Books' /\ BlockedIsReadable'
  BY <1>1, <1>2, <1>4, <1>5 DEF Books, SlotsAreOwned, BlockedIsReadable, Open
<1>9. Stages'
  BY <1>1, <1>2, <1>4, <1>5
  DEF Stages, Between, InUse, Dialling, Refused, Failing, Stale, Own
<1> QED BY <1>7, <1>8, <1>9

\* What an event tells is of the chip's data the first n bytes, for an error
\* none.
Told(side, n) == [side EXCEPT !.queue = SubSeq(side.queue, n + 1, Len(side.queue)), !.armed = FALSE]

LEMMA ChipTells ==
  ASSUME Types, NEW s \in Slots, Report(s) \/ Abort(s)
  PROVE  \E n \in 0..Len(chip[s].queue) :
           /\ hif' = Append(hif, [cmd |-> "recv", slot |-> s, sid |-> chip[s].sid,
                                  data |-> SubSeq(chip[s].queue, 1, n)])
           /\ chip' = [chip EXCEPT ![s] = Told(chip[s], n)]
           /\ n = 0 => Abort(s) \/ (chip[s].queue = <<>> /\ chip[s].ended)
<1> DEFINE queue == chip[s].queue
<1>1. chip \in [Slots -> Side] /\ chip[s] \in Side /\ queue \in Seq(Bytes)
  BY DEF Types, Side
<1>2. CASE Report(s)
  <2>1. PICK n \in (IF queue = <<>> THEN {0} ELSE 1..Len(queue)) :
             /\ hif' = Append(hif, [cmd |-> "recv", slot |-> s, sid |-> chip[s].sid,
                                    data |-> SubSeq(queue, 1, n)])
             /\ chip' = [chip EXCEPT ![s].queue = SubSeq(@, n + 1, Len(@)), ![s].armed = FALSE]
    BY <1>2 DEF Report
  <2>2. n \in 0..Len(queue) /\ (n = 0 => queue = <<>> /\ chip[s].ended)
    <3>1. queue # <<>> \/ chip[s].ended
      BY <1>2 DEF Report
    <3>2. CASE queue = <<>>
      <4>1. n = 0 /\ Len(queue) \in Nat
        BY <1>1, <2>1, <3>2
      <4> QED BY <3>1, <3>2, <4>1
    <3>3. CASE queue # <<>>
      <4>1. n \in 1..Len(queue) /\ Len(queue) \in Nat
        BY <1>1, <2>1, <3>3
      <4> QED BY <4>1
    <3> QED BY <3>2, <3>3
  <2>3. chip' = [chip EXCEPT ![s] = Told(chip[s], n)]
    BY <1>1, <2>1 DEF Told
  <2> QED BY <2>1, <2>2, <2>3
<1>3. CASE Abort(s)
  <2>1. SubSeq(queue, 1, 0) = <<>> /\ SubSeq(queue, 0 + 1, Len(queue)) = queue /\ 0 \in 0..Len(queue)
    BY <1>1
  <2>2. Told(chip[s], 0) = [chip[s] EXCEPT !.armed = FALSE]
    <3> HIDE DEF queue
    <3>1. Told(chip[s], 0) = [chip[s] EXCEPT !.queue = queue, !.armed = FALSE]
      BY <2>1 DEF Told, queue
    <3>2. [chip[s] EXCEPT !.queue = queue, !.armed = FALSE] = [chip[s] EXCEPT !.armed = FALSE]
      BY <1>1 DEF Side, queue
    <3> QED BY <3>1, <3>2
  <2>3. chip' = [chip EXCEPT ![s] = [chip[s] EXCEPT !.armed = FALSE]]
    BY <1>3 DEF Abort
  <2>4. hif' = Append(hif, [cmd |-> "recv", slot |-> s, sid |-> chip[s].sid, data |-> <<>>])
    BY <1>3 DEF Abort
  <2> QED BY <1>3, <2>1, <2>2, <2>3, <2>4
<1> QED BY <1>2, <1>3

LEMMA ReportKeeps == ASSUME SocketInv, NEW s \in Slots, Report(s) \/ Abort(s) PROVE SocketInv'
<1> USE DEF SocketInv
<1>1. s = client /\ client # None /\ pc = "idle" /\ sock[client].used /\ chip[client].armed
      /\ chip[client] # Off /\ chip[client].sid = sid /\ sid # 0
  BY ChipSlot DEF Report, Abort, Books
<1>2. UNCHANGED <<pc, client, next, sid, sock, info, blocked, lost, conns, taken>>
      /\ peer' \in [accepted : BOOLEAN, ended : BOOLEAN, broken : BOOLEAN, sent : Seq(Bytes)]
  BY DEF Report, Abort, hostVars, Types
<1>3. hif = <<>> /\ chip[client].phase = "open" /\ sock[client].pending /\ Dry(info[client])
      /\ info[client].state = "connected"
  BY <1>1 DEF Stages, InUse
<1>4. chip[client] \in Side /\ chip[client].queue \in Seq(Bytes)
  BY <1>1 DEF Types, Side
<1>5. PICK n \in 0..Len(chip[client].queue) :
           /\ hif' = Append(hif, [cmd |-> "recv", slot |-> client, sid |-> chip[client].sid,
                                  data |-> SubSeq(chip[client].queue, 1, n)])
           /\ chip' = [chip EXCEPT ![client] = Told(chip[client], n)]
  BY <1>1, ChipTells
<1> DEFINE e == [cmd |-> "recv", slot |-> client, sid |-> chip[client].sid,
                 data |-> SubSeq(chip[client].queue, 1, n)]
           rest == SubSeq(chip[client].queue, n + 1, Len(chip[client].queue))
<1>6. e \in Event /\ e.cmd = "recv" /\ e.slot = client /\ e.sid = sid
  BY <1>1, <1>4, <1>5, Part DEF Event, Types
<1>7. chip' \in [Slots -> Side] /\ chip'[client].phase = "open" /\ chip'[client].sid = sid
      /\ ~chip'[client].armed /\ (\A t \in Slots \ {client} : chip'[t] = chip[t])
  <2>1. rest \in Seq(Bytes)
    BY <1>4, <1>5, Part
  <2>2. chip' = [chip EXCEPT ![client] = [chip[client] EXCEPT !.queue = rest, !.armed = FALSE]]
    BY <1>5 DEF Told
  <2> HIDE DEF rest
  <2>3. [chip[client] EXCEPT !.queue = rest, !.armed = FALSE] \in Side
    BY <1>4, <2>1 DEF Side
  <2> QED BY <1>1, <1>3, <1>4, <2>2, <2>3 DEF Types, Side
<1> HIDE DEF e
<1>8. hif' \in Seq(Event) /\ Len(hif') = 1 /\ hif' # <<>> /\ hif'[1] = e
  <2>1. Len(hif) = 0 /\ hif \in Seq(Event) /\ hif' = Append(hif, e)
    BY <1>3, <1>5 DEF e, Types
  <2> QED BY <1>6, <2>1, Appended
<1>9. Types'
  BY <1>2, <1>7, <1>8 DEF Types
<1>10. Books' /\ BlockedIsReadable'
  BY <1>1, <1>2, <1>3, <1>7 DEF Books, SlotsAreOwned, BlockedIsReadable, Open
<1>11. InUse'
  BY <1>1, <1>2, <1>3, <1>6, <1>7, <1>8 DEF InUse
<1> QED BY <1>1, <1>2, <1>9, <1>10, <1>11 DEF Stages, Between, Dialling, Refused, Failing
LEMMA LoseKeeps == ASSUME SocketInv, Lose PROVE SocketInv'
<1>1. UNCHANGED <<hif, chip, hostVars>> /\ lost' = TRUE /\ peer' = [peer EXCEPT !.broken = TRUE]
  BY DEF Lose
<1>2. UNCHANGED <<pc, client, next, sid, sock, info, blocked, conns, taken>>
  BY <1>1 DEF hostVars
<1>3. Types'
  BY <1>1, <1>2 DEF SocketInv, Types
<1>4. Books' /\ BlockedIsReadable' /\ Stages'
  BY <1>1, <1>2
  DEF SocketInv, Books, SlotsAreOwned, BlockedIsReadable, Open, Stages, Between, InUse,
      Dialling, Refused, Failing, Stale, Own
<1> QED BY <1>3, <1>4 DEF SocketInv

-----------------------------------------------------------------------------
THEOREM SocketInvStep == SocketInv /\ [Next]_vars => SocketInv'
<1> SUFFICES ASSUME SocketInv, [Next]_vars PROVE SocketInv'
  OBVIOUS
<1>1. CASE Handle
  BY <1>1, HandleKeeps
<1>2. CASE Calls
  <2>1. \A n \in 1..MaxBytes : n \in Nat
    BY SocketAssumption DEF SocketAssumption
  <2> QED BY <1>2, <2>1, DialKeeps, DialledKeeps, GiveUpKeeps, LeaveKeeps, ReadKeeps DEF Calls
<1>3. CASE Chip
  BY <1>3, AnswerKeeps, PeerKeeps, ReportKeeps, LoseKeeps DEF Chip
<1>4. CASE UNCHANGED vars
  BY <1>4
  DEF vars, SocketInv, Types, Books, SlotsAreOwned, BlockedIsReadable, Open, Stages, Between, InUse,
      Dialling, Refused, Failing, Stale, Own
<1> QED BY <1>1, <1>2, <1>3, <1>4 DEF Next

\* Of the chip's slots none is in use that no client names, and the chip holds
\* none open that the library has given up (WiFiSocket.close and m2m_ip_cb).
THEOREM SlotsAlwaysOwned == Spec => []SlotsAreOwned
  BY SocketInvInit, SocketInvStep, QueuesAreNeverStuck, PTL DEF Spec

\* An event half fetched is the client's own, and an open client with nothing
\* to read has asked for more, whatever arrives late (hif_receive and recv).
THEOREM AlwaysUnstuck == Spec => []NeverStuck
  BY SocketInvInit, SocketInvStep, QueuesAreNeverStuck, PTL DEF Spec
-----------------------------------------------------------------------------
(***************************************************************************)
(* The client as a stream: what a peer has sent is what was taken, then the *)
(* buffer, the rest of an event, the event still queued, and the chip's.    *)
(***************************************************************************)
Incoming == IF Open /\ hif # <<>> THEN hif[1].data ELSE <<>>
Unread   == info[client].buf \o (info[client].rest \o (Incoming \o chip[client].queue))

StreamInv == client # None /\ chip[client] # Off =>
  /\ chip[client].conn = conns
  /\ chip[client].phase = "asked" =>
       /\ ~peer.accepted /\ ~peer.ended /\ peer.sent = <<>> /\ taken = <<>>
       /\ ~chip[client].ended /\ chip[client].queue = <<>>
  /\ chip[client].phase = "open" =>
       /\ peer.accepted /\ peer.ended = chip[client].ended /\ peer.sent = taken \o Unread
       /\ Open /\ hif # <<>> /\ hif[1].data = <<>> =>
            peer.broken \/ (chip[client].queue = <<>> /\ chip[client].ended)
       /\ lost => peer.broken

SeenIs == Seen = IF pc # "idle" THEN "dialling"
                 ELSE IF client = None THEN "left" ELSE IF Open THEN "open" ELSE "ended"

LEMMA SeenCases == SeenIs
<1>1. Open => pc = "idle" /\ client # None
  BY DEF Open
<1>2. CASE pc # "idle"
  BY <1>1, <1>2 DEF Seen, SeenIs
<1>3. CASE pc = "idle" /\ client = None
  BY <1>1, <1>3 DEF Seen, SeenIs
<1>4. CASE Open
  BY <1>1, <1>4 DEF Seen, SeenIs
<1>5. CASE pc = "idle" /\ client # None /\ ~Open
  BY <1>1, <1>5 DEF Seen, SeenIs
<1> QED BY <1>1, <1>2, <1>3, <1>4, <1>5 DEF SeenIs

LEMMA SeenCasesNext == SeenIs'
  BY SeenCases, PTL

LEMMA PrefixOf ==
  ASSUME NEW q \in Seq(Bytes), NEW r \in Seq(Bytes)
  PROVE  IsPrefix(q, q \o r)
<1> DEFINE t == q \o r
           n == Len(q)
<1>1. t \in Seq(Bytes) /\ Len(t) = n + Len(r) /\ n \in Nat /\ Len(r) \in Nat
      /\ \A k \in 1..n : t[k] = q[k]
  OBVIOUS
<1> HIDE DEF t
<1>2. SubSeq(t, 1, n) = SubSeq(q, 1, n)
  <2>1. SubSeq(t, 1, n) = [k \in 1..n |-> t[k]] /\ SubSeq(q, 1, n) = [k \in 1..n |-> q[k]]
    BY <1>1
  <2> QED BY <1>1, <2>1
<1> QED BY <1>1, <1>2 DEF t, IsPrefix

LEMMA CutInTwo ==
  ASSUME NEW q \in Seq(Bytes), NEW n \in 0..Len(q)
  PROVE  /\ SubSeq(q, 1, n) \in Seq(Bytes) /\ SubSeq(q, n + 1, Len(q)) \in Seq(Bytes)
         /\ SubSeq(q, 1, n) \o SubSeq(q, n + 1, Len(q)) = q
<1>1. SubSeq(q, 1, n) \in Seq(Bytes) /\ SubSeq(q, n + 1, Len(q)) \in Seq(Bytes)
  BY Part
<1>2. SubSeq(q, 1, n) \o SubSeq(q, n + 1, Len(q)) = SubSeq(q, 1, Len(q))
  <2>1. 1 \in 1..Len(q) + 1 /\ n \in 1 - 1..Len(q) /\ Len(q) \in n..Len(q)
    OBVIOUS
  <2> QED BY <2>1, ConcatAdjacentSubSeq
<1>3. SubSeq(q, 1, Len(q)) = q
  OBVIOUS
<1> QED BY <1>1, <1>2, <1>3

LEMMA Joined ==
  ASSUME NEW q \in Seq(Bytes), NEW r \in Seq(Bytes)
  PROVE  q \o r \in Seq(Bytes) /\ q \o <<>> = q /\ <<>> \o q = q
  BY ConcatProperties, ConcatEmptySeq

\* Named, so that the provers match it instead of joining sequences at random.
Regroup(q, r, t) == (q \o r) \o t = q \o (r \o t)

LEMMA Regrouped ==
  ASSUME NEW q \in Seq(Bytes), NEW r \in Seq(Bytes), NEW t \in Seq(Bytes)
  PROVE  Regroup(q, r, t)
<1>1. (q \o r) \o t = q \o (r \o t)
  BY ConcatAssociative
<1> QED BY <1>1 DEF Regroup

\* The parts of the stream, whose slot is the client's.
LEMMA PartsTyped ==
  ASSUME SocketInv, client # None
  PROVE  /\ client \in Slots /\ info[client] \in Record /\ chip[client] \in Side
         /\ info[client].buf \in Seq(Bytes) /\ info[client].rest \in Seq(Bytes)
         /\ Incoming \in Seq(Bytes) /\ chip[client].queue \in Seq(Bytes)
         /\ taken \in Seq(Bytes) /\ peer.sent \in Seq(Bytes) /\ Unread \in Seq(Bytes)
<1>1. client \in Slots /\ info[client] \in Record /\ chip[client] \in Side
      /\ taken \in Seq(Bytes) /\ peer.sent \in Seq(Bytes) /\ hif \in Seq(Event)
  BY DEF SocketInv, Types
<1>2. info[client].buf \in Seq(Bytes) /\ info[client].rest \in Seq(Bytes)
      /\ chip[client].queue \in Seq(Bytes)
  BY <1>1 DEF Record, Side
<1>3. Incoming \in Seq(Bytes)
  <2>1. CASE Open /\ hif # <<>>
    <3>1. hif[1] \in Event /\ hif[1].cmd = "recv"
      BY <1>1, <2>1, HeadTail DEF SocketInv, Stages, InUse, Open
    <3> QED BY <2>1, <3>1 DEF Incoming, Event
  <2>2. CASE ~(Open /\ hif # <<>>)
    BY <2>2 DEF Incoming
  <2> QED BY <2>1, <2>2
<1>4. Unread \in Seq(Bytes)
  BY <1>2, <1>3, ConcatProperties DEF Unread
<1> QED BY <1>1, <1>2, <1>3, <1>4

\* Nothing is buffered for a client that is not open.
NothingRead == SocketInv /\ client # None /\ ~Open => Unread = chip[client].queue

LEMMA NothingBuffered == NothingRead
<1> SUFFICES ASSUME SocketInv, client # None, ~Open
             PROVE  Unread = chip[client].queue
  BY DEF NothingRead
<1>1. info[client].buf = <<>> /\ info[client].rest = <<>> /\ Incoming = <<>>
  BY PartsTyped DEF SocketInv, Books, Incoming
<1> QED BY <1>1, PartsTyped, Joined DEF Unread

LEMMA NothingBufferedNext == NothingRead'
  BY NothingBuffered, PTL

\* Every step of the client is one of a stream, or none.
Streams == StreamInv' /\ (Stream!Next \/ UNCHANGED <<Seen, peer, taken>>)

\* What comes late brings the chip nothing.
LEMMA LateStreams == ASSUME SocketInv, SocketInv', StreamInv, Handle, hif # <<>>, pc # "idle" PROVE Streams
<1> USE DEF SocketInv
<1>1. client \in Slots /\ client # None /\ hif # <<>> /\ hif \in Seq(Event)
  BY DEF Types, Books
<1>2. UNCHANGED <<client, conns, peer, taken, lost>> /\ pc' # "idle" /\ ~Open /\ ~Open'
  BY EventHandled DEF Types, Open
<1>3. chip' = chip
  <2>1. CASE Stale(Head(hif))
    BY <2>1, LateHandled
  <2>2. CASE ~Stale(Head(hif))
    <3>1. Head(hif).cmd = "connect"
      BY <1>1, <2>2, HeadTail DEF Stages, Dialling, Refused, Failing, Own, Types
    <3> QED BY <3>1, EventHandled DEF OnConnect
  <2> QED BY <2>1, <2>2
<1>4. Unread = chip[client].queue /\ Unread' = Unread
  BY <1>1, <1>2, <1>3, NothingBuffered, NothingBufferedNext DEF NothingRead
<1>5. Seen' = Seen
  BY <1>2, SeenCases, SeenCasesNext DEF SeenIs
<1>6. StreamInv'
  BY <1>2, <1>3, <1>4 DEF StreamInv
<1> QED BY <1>2, <1>5, <1>6 DEF Streams

\* Empty data of the client's own is the end of all that was sent.
LEMMA EndStreams ==
  ASSUME SocketInv, SocketInv', StreamInv, Handle, hif # <<>>, client # None, pc = "idle", OnEnd(Head(hif)) PROVE Streams
<1> DEFINE e == Head(hif)
<1> USE DEF SocketInv
<1>1. client \in Slots /\ client # None /\ hif # <<>> /\ hif \in Seq(Event)
  BY DEF Types
<1>2. sock[client].used /\ info[client].state = "connected" /\ Open /\ chip[client].phase = "open"
  BY <1>1 DEF Stages, InUse, Open
<1>3. e = hif[1] /\ e.slot = client /\ e.data = <<>> /\ Close(client)
  BY <1>1, <1>2, HeadTail DEF Stages, InUse, OnEnd
<1>4. UNCHANGED <<client, conns, peer, taken>> /\ pc' = "idle"
  BY EventHandled
<1>5. info'[client].state = "invalid" /\ chip'[client] = Off
  BY <1>1, <1>3, Closed
<1>6. chip[client] # Off
  BY <1>2 DEF Off
<1>7. peer.accepted /\ peer.ended = chip[client].ended /\ peer.sent = taken \o Unread
      /\ (peer.broken \/ (chip[client].queue = <<>> /\ chip[client].ended))
  BY <1>1, <1>2, <1>3, <1>6 DEF StreamInv
<1>8. chip[client].queue = <<>> => Unread = <<>>
  <2>1. info[client].buf = <<>> /\ info[client].rest = <<>>
    BY <1>1, <1>2 DEF Stages, InUse, Dry
  <2>2. Incoming = <<>>
    BY <1>1, <1>2, <1>3 DEF Incoming
  <2>3. <<>> \o (<<>> \o (<<>> \o <<>>)) = <<>>
    OBVIOUS
  <2> QED BY <2>1, <2>2, <2>3 DEF Unread
<1>9. peer.broken \/ (peer.ended /\ taken = peer.sent)
  <2>1. taken \in Seq(Bytes) /\ taken \o <<>> = taken
    BY <1>1, PartsTyped, Joined
  <2> QED BY <1>7, <1>8, <2>1
<1>10. Seen = "open" /\ Seen' = "ended"
  BY <1>1, <1>2, <1>4, <1>5, SeenCases, SeenCasesNext DEF SeenIs, Open
<1>11. Stream!HangUp
  BY <1>4, <1>7, <1>9, <1>10 DEF Stream!HangUp
<1>12. StreamInv'
  BY <1>4, <1>5 DEF StreamInv
<1> QED BY <1>11, <1>12 DEF Streams, Stream!Next

\* The transfers of hif_receive lose nothing.
LEMMA FetchKeeps ==
  ASSUME NEW i \in Record, NEW k \in Nat
  PROVE  /\ Fetch(i, k) \in Record /\ Fetch(i, k).state = i.state
         /\ Fetch(i, k).buf \o Fetch(i, k).rest = i.buf \o i.rest
<1> DEFINE n    == IF k * Buf < Len(i.rest) THEN k * Buf ELSE Len(i.rest)
           got  == SubSeq(i.rest, 1, n)
           rest == SubSeq(i.rest, n + 1, Len(i.rest))
           f    == Fetch(i, k)
<1>1. n \in 0..Len(i.rest) /\ f = [state |-> i.state, buf |-> i.buf \o got, rest |-> rest]
  BY Fetched
<1>2. f.state = i.state /\ f.buf = i.buf \o got /\ f.rest = rest
  <2> HIDE DEF f, n, got, rest
  <2> QED BY <1>1
<1>3. i.buf \in Seq(Bytes) /\ i.rest \in Seq(Bytes)
  BY DEF Record
<1> HIDE DEF n
<1>4. got \in Seq(Bytes) /\ rest \in Seq(Bytes) /\ got \o rest = i.rest
  BY <1>1, <1>3, CutInTwo
<1> HIDE DEF got, rest
<1>5. (i.buf \o got) \o rest = i.buf \o i.rest
  <2>1. (i.buf \o got) \o rest = i.buf \o (got \o rest)
    BY <1>3, <1>4, Regrouped DEF Regroup
  <2> QED BY <1>4, <2>1
<1>6. f \in Record
  BY FetchTyped
<1> HIDE DEF f
<1> QED BY <1>2, <1>5, <1>6 DEF f

\* Nor is any of an event's data lost, whether its first transfer works or not.
LEMMA DataKept ==
  ASSUME NEW i \in Record, i.state = "connected", i.buf = <<>>, NEW d \in Seq(Bytes),
         NEW j \in {Fetch([[i EXCEPT !.rest = d] EXCEPT !.buf = <<>>], 1), [i EXCEPT !.rest = d]}
  PROVE  j \in Record /\ j.state = "connected" /\ j.buf \o j.rest = d
<1> DEFINE new  == [i EXCEPT !.rest = d]
           new0 == [new EXCEPT !.buf = <<>>]
<1>1. new \in Record /\ new0 \in Record
  BY Received
<1>2. new.rest = d /\ new.buf = <<>> /\ new.state = "connected"
  BY DEF Record
<1>3. new0.rest = d /\ new0.buf = <<>> /\ new0.state = "connected"
  BY DEF Record
<1>4. <<>> \o d = d
  BY Joined
<1>5. j \in {Fetch(new0, 1), new}
  OBVIOUS
<1> HIDE DEF new, new0
<1>6. CASE j = new
  BY <1>1, <1>2, <1>4, <1>6
<1>7. CASE j = Fetch(new0, 1)
  <2>1. 1 \in Nat
    OBVIOUS
  <2>2. j \in Record /\ j.state = new0.state /\ j.buf \o j.rest = new0.buf \o new0.rest
    BY <1>1, <1>7, <2>1, FetchKeeps
  <2> QED BY <1>3, <1>4, <2>2
<1> QED BY <1>5, <1>6, <1>7

\* Data of the client's own goes from the queue to the buffer and the rest.
LEMMA DataStreams ==
  ASSUME SocketInv, SocketInv', StreamInv, Handle, hif # <<>>, client # None, pc = "idle", OnData(Head(hif)) PROVE Streams
<1> DEFINE e == Head(hif)
<1> USE DEF SocketInv
<1>1. client \in Slots /\ client # None /\ hif # <<>> /\ hif \in Seq(Event)
  BY DEF Types
<1>2. sock[client].used /\ info[client].state = "connected" /\ Open /\ chip[client].phase = "open"
  BY <1>1 DEF Stages, InUse, Open
<1>3. e = hif[1] /\ e.slot = client /\ hif' = <<>>
  BY <1>1, <1>2, HeadTail, Emptiness, EventHandled DEF Stages, InUse
<1>4. UNCHANGED <<client, conns, peer, taken, chip, lost>> /\ pc' = "idle"
  BY EventHandled DEF OnData
<1>5. chip[client] # Off
  BY <1>2 DEF Off
<1>6. info[client].buf = <<>> /\ info[client].rest = <<>>
  BY <1>1, <1>2 DEF Stages, InUse, Dry
<1> DEFINE data == e.data
           new  == [info[client] EXCEPT !.rest = data]
<1>7. data \in Seq(Bytes) /\ info[client] \in Record /\ Incoming = data
  BY <1>1, <1>2, <1>3, PartsTyped DEF Incoming
<1>8. PICK i \in {Fetch([new EXCEPT !.buf = <<>>], 1), new} : info' = [info EXCEPT ![client] = i]
  BY <1>2, <1>3 DEF OnData
<1>9. i \in Record /\ i.state = "connected" /\ i.buf \o i.rest = data
  BY <1>2, <1>6, <1>7, DataKept
<1>10. info'[client] = i /\ Open'
  BY <1>1, <1>4, <1>7, <1>8, <1>9 DEF Open, Types
<1>11. Unread' = Unread
  <2>1. Incoming' = <<>>
    BY <1>3 DEF Incoming
  <2>2. i.buf \in Seq(Bytes) /\ i.rest \in Seq(Bytes) /\ chip[client].queue \in Seq(Bytes)
    BY <1>1, <1>9, PartsTyped DEF Record
  <2>3. Unread = data \o chip[client].queue
    <3>1. data \o chip[client].queue \in Seq(Bytes)
      BY <1>7, <2>2, Joined
    <3> QED BY <1>6, <1>7, <3>1, Joined DEF Unread
  <2>4. Unread' = i.buf \o (i.rest \o chip[client].queue)
    BY <1>4, <1>10, <2>1, <2>2, Joined DEF Unread
  <2>5. (i.buf \o i.rest) \o chip[client].queue = i.buf \o (i.rest \o chip[client].queue)
    <3> HIDE DEF data
    <3> QED BY <2>2, Regrouped DEF Regroup
  <2> QED BY <1>9, <2>3, <2>4, <2>5
<1>12. StreamInv'
  BY <1>1, <1>2, <1>3, <1>4, <1>5, <1>11 DEF StreamInv
<1>13. Seen' = Seen
  BY <1>2, <1>10, SeenCases, SeenCasesNext DEF SeenIs, Open
<1> QED BY <1>4, <1>12, <1>13 DEF Streams

\* What is handled while no connection is dialled.
LEMMA OwnStreams ==
  ASSUME SocketInv, SocketInv', StreamInv, Handle, hif # <<>>, pc = "idle", client # None PROVE Streams
<1> DEFINE e == Head(hif)
<1>1. client \in Slots /\ hif \in Seq(Event)
  BY DEF SocketInv, Types
<1>2. sock[client].used /\ sock[client].sid = sid
  BY <1>1 DEF SocketInv, Stages, InUse, Books
<1>3. e.cmd = "recv" /\ e.slot = client /\ e.sid = sid
  BY <1>1, <1>2, HeadTail DEF SocketInv, Stages, InUse
<1>4. OnEnd(e) \/ OnData(e)
  BY <1>2, <1>3, EventHandled DEF OnStale
<1> QED BY <1>4, EndStreams, DataStreams

\* A client there is not is left.
LEMMA NoneStreams ==
  ASSUME SocketInv, SocketInv', StreamInv, Handle, pc = "idle", client = None PROVE Streams
<1>1. UNCHANGED <<client, peer, taken, pc>>
  BY DEF Handle
<1>2. Seen' = Seen
  BY <1>1, SeenCases, SeenCasesNext DEF SeenIs
<1> QED BY <1>1, <1>2 DEF Streams, StreamInv

\* The loss of the network ends an open stream, and fails one that is dialled.
LEMMA LossStreams ==
  ASSUME SocketInv, SocketInv', StreamInv, Handle, hif = <<>>, client # None PROVE Streams
<1> USE DEF SocketInv
<1>1. client \in Slots
  BY DEF Types
<1>2. UNCHANGED <<client, conns, peer, taken>> /\ lost /\ pc' = IF pc = "refused" THEN "failing" ELSE pc
  BY LossHandled
<1>3. chip'[client] = Off /\ info'[client].state = "invalid"
  BY <1>1, LossHandled, LossBlanks
<1>4. StreamInv'
  BY <1>2, <1>3 DEF StreamInv
<1>5. CASE Open
  <2>1. chip[client].phase = "open" /\ pc = "idle"
    BY <1>1, <1>5 DEF Stages, InUse, Open
  <2>2. peer.broken
    BY <1>1, <1>2, <2>1 DEF StreamInv, Off, Open
  <2>3. Seen = "open" /\ Seen' = "ended"
    BY <1>2, <1>3, <1>5, <2>1, SeenCases, SeenCasesNext DEF SeenIs, Open
  <2>4. Stream!HangUp
    BY <1>2, <2>2, <2>3 DEF Stream!HangUp
  <2> QED BY <1>4, <2>4 DEF Streams, Stream!Next
<1>6. CASE ~Open
  <2>1. Seen' = Seen
    BY <1>2, <1>3, <1>6, SeenCases, SeenCasesNext DEF SeenIs, Open
  <2> QED BY <1>2, <1>4, <2>1 DEF Streams
<1> QED BY <1>5, <1>6

LEMMA HandleStreams == ASSUME SocketInv, SocketInv', StreamInv, Handle PROVE Streams
<1>1. pc # "idle" => client # None
  BY DEF SocketInv, Books
<1> QED BY <1>1, LateStreams, OwnStreams, NoneStreams, LossStreams

\* connect() begins the stream anew.
LEMMA DialStreams == ASSUME SocketInv, SocketInv', StreamInv, Dial PROVE Streams
<1> USE DEF SocketInv
<1>1. next \in Slots /\ FreeSlot = next /\ (\A s \in Slots : sock[s] = Free /\ chip[s] = Off)
      /\ chip \in [Slots -> Side]
  BY DialBegins DEF Types
<1>2. client' = next /\ pc' # "idle" /\ ~Open' /\ peer' = NoPeer /\ taken' = <<>> /\ conns' = conns + 1
  BY <1>1, DialTakes DEF Open
<1>3. client' # None
  BY <1>1, <1>2, SocketAssumption DEF SocketAssumption, Slots, None
<1>4. chip'[client'] = Off \/ chip'[client'] = [Off EXCEPT !.phase = "asked", !.sid = NextSid, !.conn = conns + 1]
  <2> DEFINE side == [Off EXCEPT !.phase = "asked", !.sid = NextSid, !.conn = conns + 1]
  <2>1. chip' = chip \/ chip' = [chip EXCEPT ![next] = side]
    BY <1>1, DialTakes
  <2> HIDE DEF side
  <2>2. chip'[next] = Off \/ chip'[next] = side
    BY <1>1, <2>1
  <2> QED BY <1>2, <2>2 DEF side
<1>5. StreamInv'
  <2>1. CASE chip'[client'] = Off
    BY <2>1 DEF StreamInv
  <2>2. CASE chip'[client'] = [Off EXCEPT !.phase = "asked", !.sid = NextSid, !.conn = conns + 1]
    <3>1. chip'[client'].conn = conns' /\ chip'[client'].phase = "asked" /\ chip'[client'].queue = <<>>
          /\ ~chip'[client'].ended
      BY <1>2, <2>2 DEF Off
    <3> QED BY <1>2, <3>1 DEF StreamInv, NoPeer
  <2> QED BY <1>4, <2>1, <2>2
<1>6. Seen \in {"left", "ended"} /\ Seen' = "dialling"
  BY <1>2, SeenCases, SeenCasesNext DEF SeenIs, Dial, Open
<1>7. Stream!Dial
  BY <1>2, <1>6 DEF Stream!Dial, NoPeer
<1> QED BY <1>5, <1>7 DEF Streams, Stream!Next

\* It succeeds only for a peer that has accepted.
LEMMA DialledStreams == ASSUME SocketInv, SocketInv', StreamInv, Dialled PROVE Streams
<1> USE DEF SocketInv
<1>1. client \in Slots /\ client # None /\ info \in [Slots -> Record] /\ chip \in [Slots -> Side]
  BY DEF Dialled, Types, Books
<1>2. hif = <<>> /\ chip[client].phase = "open" /\ chip[client] # Off /\ ~Open
  BY DEF Dialled, Stages, Dialling, Off, Open
<1>3. pc' = "idle" /\ UNCHANGED <<client, hif, lost, conns, peer, taken>>
      /\ info' = [info EXCEPT ![client].rest = <<>>]
      /\ (chip' = chip \/ chip' = [chip EXCEPT ![client].armed = TRUE])
  BY DEF Dialled, Recv
<1>4. chip'[client].conn = chip[client].conn /\ chip'[client].phase = "open"
      /\ chip'[client].queue = chip[client].queue /\ chip'[client].ended = chip[client].ended
  BY <1>1, <1>2, <1>3 DEF Side
<1>5. Open' /\ info'[client].buf = <<>> /\ info'[client].rest = <<>>
  BY <1>1, <1>2, <1>3 DEF Open, Dialled, Record, Books
<1>6. Unread' = chip[client].queue /\ Unread = chip[client].queue
  <2>1. Incoming' = <<>> /\ chip[client].queue \in Seq(Bytes)
    BY <1>1, <1>2, <1>3, PartsTyped DEF Incoming
  <2>2. Unread' = <<>> \o (<<>> \o (<<>> \o chip[client].queue))
    BY <1>3, <1>4, <1>5, <2>1 DEF Unread
  <2> QED BY <1>1, <1>2, <2>1, <2>2, Joined, NothingBuffered DEF NothingRead
<1>7. peer.accepted /\ peer.ended = chip[client].ended /\ peer.sent = taken \o Unread
      /\ chip[client].conn = conns /\ (lost => peer.broken)
  BY <1>1, <1>2 DEF StreamInv
<1>8. StreamInv'
  BY <1>2, <1>3, <1>4, <1>6, <1>7 DEF StreamInv
<1>9. Seen = "dialling" /\ Seen' = "open"
  BY <1>3, <1>5, SeenCases, SeenCasesNext DEF SeenIs, Open, Dialled
<1>10. Stream!Open
  BY <1>3, <1>7, <1>9 DEF Stream!Open
<1> QED BY <1>8, <1>10 DEF Streams, Stream!Next

LEMMA GiveUpStreams == ASSUME SocketInv, SocketInv', StreamInv, GiveUp \/ NoEvent PROVE Streams
<1>1. UNCHANGED <<client, chip, lost, conns, peer, taken>> /\ pc # "idle" /\ pc' # "idle" /\ ~Open /\ ~Open'
  BY DEF GiveUp, NoEvent, chipVars, Open
<1>2. StreamInv'
  BY <1>1, NothingBuffered, NothingBufferedNext DEF StreamInv, NothingRead
<1>3. Seen' = Seen
  BY <1>1, SeenCases, SeenCasesNext DEF SeenIs
<1> QED BY <1>1, <1>2, <1>3 DEF Streams

LEMMA LeaveStreams == ASSUME SocketInv, SocketInv', StreamInv, Fail \/ Stop PROVE Streams
<1>1. client # None /\ client' = None /\ pc' = "idle" /\ UNCHANGED <<peer, taken>>
  BY DEF Fail, Stop, SocketInv, Books
<1>2. Seen # "left" /\ Seen' = "left"
  BY <1>1, SeenCases, SeenCasesNext DEF SeenIs
<1>3. Stream!Leave
  BY <1>1, <1>2 DEF Stream!Leave
<1> QED BY <1>1, <1>3 DEF Streams, StreamInv, Stream!Next

\* Bytes that move on within a stream leave it the stream it was.
MovedOn(done, b, r, later, got, keep, rest) ==
  (got \o keep) \o rest = b \o r
    => done \o (b \o (r \o later)) = (done \o got) \o (keep \o (rest \o later))

LEMMA Moved ==
  ASSUME NEW done \in Seq(Bytes), NEW b \in Seq(Bytes), NEW r \in Seq(Bytes), NEW later \in Seq(Bytes),
         NEW got \in Seq(Bytes), NEW keep \in Seq(Bytes), NEW rest \in Seq(Bytes)
  PROVE  MovedOn(done, b, r, later, got, keep, rest)
<1>1. rest \o later \in Seq(Bytes)
  BY Joined
<1>2. keep \o (rest \o later) \in Seq(Bytes)
  BY <1>1, Joined
<1>3. got \o keep \in Seq(Bytes)
  BY Joined
<1>4. Regroup(b, r, later)
  BY Regrouped
<1>5. Regroup(got \o keep, rest, later)
  BY <1>3, Regrouped
<1>6. Regroup(got, keep, rest \o later)
  BY <1>1, Regrouped
<1>7. Regroup(done, got, keep \o (rest \o later))
  BY <1>2, Regrouped
<1> QED BY <1>4, <1>5, <1>6, <1>7 DEF Regroup, MovedOn

\* A read moves bytes from the rest to the buffer, and from there to the sketch.
LEMMA ReadStreams ==
  ASSUME SocketInv, SocketInv', StreamInv, NEW n \in Nat, Read(n) PROVE Streams
<1> USE DEF SocketInv
<1>1. /\ client \in Slots /\ client # None /\ info \in [Slots -> Record] /\ chip \in [Slots -> Side]
      /\ Open /\ chip[client].phase = "open" /\ chip[client] # Off
  <2>1. client \in Slots /\ client # None /\ info \in [Slots -> Record] /\ chip \in [Slots -> Side]
        /\ Open
    BY DEF Read, Types, Open
  <2>2. chip[client].phase = "open"
    BY <2>1 DEF Open, Stages, InUse
  <2> QED BY <2>1, <2>2 DEF Off
<1>2. UNCHANGED <<pc, client, hif, lost, conns, peer>>
  BY DEF Read
<1>k. PICK k \in Nat : \E m \in 0..Len(Fetch(info[client], k).buf) :
           /\ info' = [info EXCEPT ![client] = Left(info[client], k, m)]
           /\ taken' = taken \o SubSeq(Fetch(info[client], k).buf, 1, m)
           /\ IF Dry(Left(info[client], k, m)) THEN Recv(client) ELSE UNCHANGED <<sock, chip>>
  BY ReadParts
<1>m. PICK m \in 0..Len(Fetch(info[client], k).buf) :
           /\ info' = [info EXCEPT ![client] = Left(info[client], k, m)]
           /\ taken' = taken \o SubSeq(Fetch(info[client], k).buf, 1, m)
           /\ IF Dry(Left(info[client], k, m)) THEN Recv(client) ELSE UNCHANGED <<sock, chip>>
  BY <1>k
<1> DEFINE full == Fetch(info[client], k)
           got  == SubSeq(full.buf, 1, m)
           keep == SubSeq(full.buf, m + 1, Len(full.buf))
           queue == chip[client].queue
<1>3. full \in Record /\ full.state = info[client].state
      /\ full.buf \o full.rest = info[client].buf \o info[client].rest
  BY <1>1, FetchKeeps
<1>4. full.buf \in Seq(Bytes) /\ full.rest \in Seq(Bytes) /\ queue \in Seq(Bytes) /\ Incoming \in Seq(Bytes)
      /\ info[client].buf \in Seq(Bytes) /\ info[client].rest \in Seq(Bytes)
      /\ taken \in Seq(Bytes) /\ peer.sent \in Seq(Bytes)
  BY <1>1, <1>3, PartsTyped DEF Record
<1> HIDE DEF full
<1>5. got \in Seq(Bytes) /\ keep \in Seq(Bytes) /\ got \o keep = full.buf
  BY <1>4, <1>m, CutInTwo DEF full
<1>6. info'[client] = [full EXCEPT !.buf = keep]
  BY <1>1, <1>m DEF Left, full
<1>7. info'[client].buf = keep /\ info'[client].rest = full.rest
      /\ info'[client].state = info[client].state
  <2> HIDE DEF keep
  <2> QED BY <1>3, <1>6 DEF Record
<1>8. Open' /\ Incoming' = Incoming
  BY <1>1, <1>2, <1>7 DEF Open, Incoming
<1>9. chip' = chip \/ chip' = [chip EXCEPT ![client].armed = TRUE]
  BY <1>m DEF Recv
<1>10. chip'[client].conn = chip[client].conn /\ chip'[client].phase = "open"
       /\ chip'[client].queue = queue /\ chip'[client].ended = chip[client].ended
  BY <1>1, <1>9 DEF Side
<1> DEFINE later == Incoming \o queue
           left  == Unread'
<1>11. taken' = taken \o got
  BY <1>m DEF full
<1>12. later \in Seq(Bytes) /\ Unread = info[client].buf \o (info[client].rest \o later)
  BY <1>4, Joined DEF Unread
<1> HIDE DEF got, keep, queue
<1>13. left = keep \o (full.rest \o later)
  BY <1>2, <1>7, <1>8, <1>10 DEF Unread
<1> HIDE DEF later, left
<1>14. peer.accepted /\ peer.ended = chip[client].ended /\ peer.sent = taken \o Unread
       /\ chip[client].conn = conns
       /\ (hif # <<>> /\ hif[1].data = <<>> => peer.broken \/ (queue = <<>> /\ chip[client].ended))
       /\ (lost => peer.broken)
  BY <1>1 DEF StreamInv, queue
<1>15. left \in Seq(Bytes) /\ taken' \in Seq(Bytes)
  <2>1. full.rest \o later \in Seq(Bytes)
    BY <1>4, <1>12, Joined
  <2> QED BY <1>4, <1>5, <1>11, <1>13, <2>1, Joined
<1>16. taken \o (info[client].buf \o (info[client].rest \o later)) = (taken \o got) \o (keep \o (full.rest \o later))
  <2>1. MovedOn(taken, info[client].buf, info[client].rest, later, got, keep, full.rest)
    BY <1>4, <1>5, <1>12, Moved
  <2> QED BY <1>3, <1>5, <2>1 DEF MovedOn
<1>17. peer.sent = taken' \o left
  BY <1>11, <1>12, <1>13, <1>14, <1>16
<1>18. StreamInv'
  BY <1>2, <1>10, <1>14, <1>17 DEF StreamInv, left, queue
<1>19. Seen = "open" /\ Seen' = "open"
  BY <1>1, <1>8, SeenCases, SeenCasesNext DEF SeenIs, Open
<1>20. IsPrefix(taken, taken') /\ IsPrefix(taken', peer.sent)
  BY <1>4, <1>5, <1>11, <1>15, <1>17, PrefixOf
<1>21. Stream!Take
  BY <1>2, <1>19, <1>20 DEF Stream!Take, Stream!IsPrefix, IsPrefix
<1> QED BY <1>18, <1>21 DEF Streams, Stream!Next

\* The chip's answer to a connect is the peer's.
LEMMA AnswerStreams ==
  ASSUME SocketInv, SocketInv', StreamInv, NEW s \in Slots, Answer(s) PROVE Streams
<1> USE DEF SocketInv
<1>1. s = client /\ client # None /\ chip[client] # Off /\ chip[client].phase = "asked"
  BY ChipSlot DEF Answer
<1>2. chip[client] \in Side /\ chip \in [Slots -> Side] /\ client \in Slots
      /\ peer \in [accepted : BOOLEAN, ended : BOOLEAN, broken : BOOLEAN, sent : Seq(Bytes)]
  BY <1>1 DEF Types
<1>3. chip[client].conn = conns /\ ~peer.accepted /\ ~peer.ended /\ peer.sent = <<>> /\ taken = <<>>
      /\ ~chip[client].ended /\ chip[client].queue = <<>>
  BY <1>1 DEF StreamInv
<1>4. PICK ok \in BOOLEAN :
           /\ chip' = [chip EXCEPT ![client].phase = IF ok THEN "open" ELSE "off"]
           /\ peer' = [peer EXCEPT !.accepted = ok]
  BY <1>1, <1>3 DEF Answer, Mine
<1>5. UNCHANGED <<pc, client, info, conns, taken>> /\ ~lost' /\ pc # "idle" /\ ~Open /\ ~Open'
  BY <1>1 DEF Answer, hostVars, Stages, InUse, Open
<1>6. chip'[client].phase = (IF ok THEN "open" ELSE "off") /\ chip'[client].conn = conns
      /\ chip'[client].ended = chip[client].ended /\ chip'[client].queue = <<>>
  BY <1>2, <1>3, <1>4 DEF Side
<1>7. peer'.accepted = ok /\ peer'.ended = peer.ended /\ peer'.broken = peer.broken /\ peer'.sent = peer.sent
  BY <1>2, <1>4
<1>8. Unread' = <<>>
  BY <1>1, <1>5, <1>6, NothingBufferedNext DEF NothingRead
<1>9. StreamInv'
  <2>1. <<>> \o <<>> = <<>>
    OBVIOUS
  <2>2. peer'.sent = taken' \o Unread'
    BY <1>3, <1>5, <1>7, <1>8, <2>1
  <2>3. CASE ok
    <3>1. chip'[client'].phase = "open" /\ peer'.accepted
      BY <1>5, <1>6, <1>7, <2>3
    <3>2. peer.ended = FALSE /\ chip[client].ended = FALSE
      BY <1>2, <1>3 DEF Side
    <3> QED BY <1>5, <1>6, <1>7, <2>2, <3>1, <3>2 DEF StreamInv
  <2>4. CASE ~ok
    <3>1. chip'[client'].phase = "off"
      BY <1>5, <1>6, <2>4
    <3> QED BY <1>5, <1>6, <3>1 DEF StreamInv
  <2> QED BY <2>3, <2>4
<1>10. Seen' = Seen
  BY <1>5, SeenCases, SeenCasesNext DEF SeenIs
<1>11. CASE ok
  BY <1>3, <1>5, <1>7, <1>9, <1>10, <1>11 DEF Streams, Stream!Next, Stream!Accept
<1>12. CASE ~ok
  <2>1. peer' = peer
    BY <1>2, <1>3, <1>4, <1>12
  <2> QED BY <1>5, <1>9, <1>10, <2>1 DEF Streams
<1> QED BY <1>11, <1>12

Grown(q, r, e) == Append(q \o r, e) = q \o Append(r, e)

LEMMA Growth ==
  ASSUME NEW q \in Seq(Bytes), NEW r \in Seq(Bytes), NEW e \in Bytes
  PROVE  Grown(q, r, e) /\ Append(r, e) \in Seq(Bytes)
<1>1. <<e>> \in Seq(Bytes)
  OBVIOUS
<1>2. q \o r \in Seq(Bytes)
  BY Joined
<1>3. Append(q \o r, e) = (q \o r) \o <<e>>
  BY <1>2, AppendIsConcat
<1>4. Append(r, e) = r \o <<e>>
  BY AppendIsConcat
<1>5. Regroup(q, r, <<e>>)
  BY <1>1, Regrouped
<1> QED BY <1>1, <1>3, <1>4, <1>5, Joined DEF Grown, Regroup

\* What a peer sends comes last.
LEMMA SendStreams ==
  ASSUME SocketInv, SocketInv', StreamInv, NEW s \in Slots, PeerSends(s) PROVE Streams
<1> USE DEF SocketInv
<1> DEFINE b == <<conns, Len(peer.sent) + 1>>
           queue == chip[client].queue
           buf == info[client].buf
           rest == info[client].rest
<1>1. s = client /\ client # None /\ chip[client] # Off /\ chip[client].phase = "open"
  BY ChipSlot DEF PeerSends
<1>2. chip[client] \in Side /\ chip \in [Slots -> Side] /\ client \in Slots /\ b \in Bytes
      /\ peer \in [accepted : BOOLEAN, ended : BOOLEAN, broken : BOOLEAN, sent : Seq(Bytes)]
  BY <1>1 DEF Types, Bytes
<1>3. chip[client].conn = conns /\ peer.accepted /\ peer.ended = chip[client].ended
      /\ peer.sent = taken \o Unread
      /\ (Open /\ hif # <<>> /\ hif[1].data = <<>> => peer.broken \/ (chip[client].ended))
      /\ (lost => peer.broken)
  BY <1>1 DEF StreamInv
<1>4. ~chip[client].ended /\ chip' = [chip EXCEPT ![client].queue = Append(queue, b)]
      /\ peer' = [peer EXCEPT !.sent = Append(peer.sent, b)]
      /\ UNCHANGED <<pc, client, info, hif, lost, conns, taken>>
  BY <1>1 DEF PeerSends, hostVars
<1>5. chip'[client].phase = "open" /\ chip'[client].conn = conns /\ ~chip'[client].ended
      /\ chip'[client].queue = Append(queue, b)
  <2> HIDE DEF b
  <2> QED BY <1>1, <1>2, <1>3, <1>4 DEF Side
<1>6. peer'.sent = Append(peer.sent, b) /\ peer'.accepted = peer.accepted /\ peer'.ended = peer.ended
      /\ peer'.broken = peer.broken
  <2> HIDE DEF b
  <2> QED BY <1>2, <1>4
<1>7. Open' = Open /\ Incoming' = Incoming /\ Seen' = Seen
  BY <1>4, SeenCases, SeenCasesNext DEF Open, Incoming, SeenIs
<1>8. taken \in Seq(Bytes) /\ buf \in Seq(Bytes) /\ rest \in Seq(Bytes) /\ Incoming \in Seq(Bytes)
      /\ queue \in Seq(Bytes) /\ Unread \in Seq(Bytes) /\ peer.sent \in Seq(Bytes)
  BY <1>1, PartsTyped
<1>9. Unread = buf \o (rest \o (Incoming \o queue))
      /\ Unread' = buf \o (rest \o (Incoming \o Append(queue, b)))
  BY <1>4, <1>5, <1>7 DEF Unread
<1> HIDE DEF b, queue, buf, rest
<1>10. Append(peer.sent, b) = taken \o Unread'
  <2>1. Incoming \o queue \in Seq(Bytes)
    BY <1>8, Joined
  <2>2. rest \o (Incoming \o queue) \in Seq(Bytes)
    BY <1>8, <2>1, Joined
  <2>3. Grown(Incoming, queue, b) /\ Grown(rest, Incoming \o queue, b)
    BY <1>2, <1>8, <2>1, Growth
  <2>4. Grown(buf, rest \o (Incoming \o queue), b) /\ Grown(taken, Unread, b)
    BY <1>2, <1>8, <2>2, Growth
  <2> QED BY <1>3, <1>9, <2>3, <2>4 DEF Grown
<1>11. StreamInv'
  BY <1>3, <1>4, <1>5, <1>6, <1>7, <1>10 DEF StreamInv
<1>12. IsPrefix(peer.sent, peer'.sent)
  <2>1. <<b>> \in Seq(Bytes) /\ Append(peer.sent, b) = peer.sent \o <<b>>
    BY <1>2, <1>8, AppendIsConcat
  <2> QED BY <1>6, <1>8, <2>1, PrefixOf
<1>13. Stream!Send
  BY <1>3, <1>4, <1>6, <1>7, <1>12 DEF Stream!Send, Stream!IsPrefix, IsPrefix
<1> QED BY <1>11, <1>13 DEF Streams, Stream!Next

LEMMA EndingStreams ==
  ASSUME SocketInv, SocketInv', StreamInv, NEW s \in Slots, PeerEnds(s) PROVE Streams
<1> USE DEF SocketInv
<1>1. s = client /\ client # None /\ chip[client] # Off /\ chip[client].phase = "open"
  BY ChipSlot DEF PeerEnds
<1>2. chip[client] \in Side /\ chip \in [Slots -> Side] /\ client \in Slots
      /\ peer \in [accepted : BOOLEAN, ended : BOOLEAN, broken : BOOLEAN, sent : Seq(Bytes)]
  BY <1>1 DEF Types
<1>3. chip[client].conn = conns /\ peer.accepted /\ peer.sent = taken \o Unread
      /\ (Open /\ hif # <<>> /\ hif[1].data = <<>> => peer.broken \/ chip[client].queue = <<>>)
      /\ (lost => peer.broken)
  BY <1>1 DEF StreamInv
<1>4. chip' = [chip EXCEPT ![client].ended = TRUE] /\ peer' = [peer EXCEPT !.ended = TRUE]
      /\ UNCHANGED <<pc, client, info, hif, lost, conns, taken>>
  BY <1>1, <1>3 DEF PeerEnds, hostVars, Mine
<1>5. chip'[client].phase = "open" /\ chip'[client].conn = conns /\ chip'[client].ended
      /\ chip'[client].queue = chip[client].queue
  BY <1>1, <1>2, <1>3, <1>4 DEF Side
<1>6. peer'.sent = peer.sent /\ peer'.accepted = peer.accepted /\ peer'.ended
      /\ peer'.broken = peer.broken
  BY <1>2, <1>4
<1>7. Open' = Open /\ Incoming' = Incoming /\ Seen' = Seen
  BY <1>4, SeenCases, SeenCasesNext DEF Open, Incoming, SeenIs
<1>8. Unread' = Unread
  BY <1>4, <1>5, <1>7 DEF Unread
<1>9. StreamInv'
  BY <1>3, <1>4, <1>5, <1>6, <1>7, <1>8 DEF StreamInv
<1>10. Stream!End
  BY <1>3, <1>4, <1>6, <1>7 DEF Stream!End
<1> QED BY <1>9, <1>10 DEF Streams, Stream!Next

\* What the chip reports goes from its queue to an event.
LEMMA ReportStreams ==
  ASSUME SocketInv, SocketInv', StreamInv, NEW s \in Slots, Report(s) \/ Abort(s) PROVE Streams
<1> USE DEF SocketInv
<1> DEFINE queue == chip[client].queue
           buf == info[client].buf
           rest == info[client].rest
<1>1. s = client /\ client # None /\ chip[client] # Off /\ chip[client].armed /\ pc = "idle"
      /\ sock[client].used
  BY ChipSlot DEF Report, Abort, Books
<1>2. Open /\ hif = <<>> /\ chip[client].phase = "open"
  BY <1>1 DEF Stages, InUse, Open
<1>3. chip[client] \in Side /\ chip \in [Slots -> Side] /\ client \in Slots
  BY <1>1 DEF Types
<1>4. queue \in Seq(Bytes) /\ buf \in Seq(Bytes) /\ rest \in Seq(Bytes)
  BY <1>1, PartsTyped
<1>5. PICK n \in 0..Len(queue) :
           /\ hif' = Append(hif, [cmd |-> "recv", slot |-> client, sid |-> chip[client].sid,
                                  data |-> SubSeq(queue, 1, n)])
           /\ chip' = [chip EXCEPT ![client] = Told(chip[client], n)]
           /\ n = 0 => Abort(client) \/ (queue = <<>> /\ chip[client].ended)
  BY <1>1, ChipTells
<1>16. chip[client].conn = conns /\ peer.accepted /\ peer.ended = chip[client].ended
       /\ peer.sent = taken \o Unread
  BY <1>1, <1>2 DEF StreamInv
<1>6. ~lost /\ UNCHANGED <<pc, client, info, lost, conns, taken>>
      /\ (Abort(client) => peer' = [peer EXCEPT !.broken = TRUE])
      /\ (peer' = peer \/ peer' = [peer EXCEPT !.broken = TRUE])
  <2>1. ASSUME Report(client)
        PROVE  ~lost /\ UNCHANGED <<pc, client, info, lost, conns, taken, peer>>
    BY <2>1 DEF Report, hostVars
  <2>2. ASSUME Abort(client)
        PROVE  ~lost /\ UNCHANGED <<pc, client, info, lost, conns, taken>>
               /\ peer' = [peer EXCEPT !.broken = TRUE]
    BY <1>16, <2>2 DEF Abort, Mine, hostVars
  <2> QED BY <1>1, <2>1, <2>2
<1>19. /\ UNCHANGED <<peer.accepted, peer.ended, peer.sent>> /\ (Abort(client) => peer'.broken)
       /\ peer' = peer \/ peer'.broken
  BY <1>6 DEF Types
<1> DEFINE data == SubSeq(queue, 1, n)
           left == SubSeq(queue, n + 1, Len(queue))
           e == [cmd |-> "recv", slot |-> client, sid |-> chip[client].sid, data |-> data]
<1>7. hif' = Append(hif, e)
  BY <1>5
<1>8. e.data = data
  OBVIOUS
<1>9. chip' = [chip EXCEPT ![client] = [chip[client] EXCEPT !.queue = left, !.armed = FALSE]]
  BY <1>5 DEF Told
<1>10. n \in 0..Len(queue) /\ (n = 0 => peer'.broken \/ (queue = <<>> /\ chip[client].ended))
  BY <1>4, <1>5, <1>19
<1> HIDE DEF queue, e
<1>11. data \in Seq(Bytes) /\ left \in Seq(Bytes) /\ data \o left = queue
       /\ (data = <<>> => peer'.broken \/ (left = <<>> /\ chip[client].ended))
  <2>1. data \in Seq(Bytes) /\ left \in Seq(Bytes) /\ data \o left = queue
    BY <1>4, <1>10, CutInTwo
  <2>2. Len(data) = n
    BY <1>4, <1>10
  <2>3. data = <<>> => peer'.broken \/ (queue = <<>> /\ chip[client].ended)
    BY <1>10, <2>1, <2>2, Emptiness
  <2>4. queue = <<>> => left = <<>>
    BY <1>4, <1>10
  <2> QED BY <2>1, <2>3, <2>4
<1>12. hif' # <<>> /\ hif'[1].data = data
  <2>1. hif' = <<e>>
    BY <1>2, <1>7
  <2> QED BY <1>8, <2>1
<1> HIDE DEF data, left
<1>13. chip'[client].phase = "open" /\ chip'[client].conn = chip[client].conn
       /\ chip'[client].ended = chip[client].ended /\ chip'[client].queue = left
  BY <1>2, <1>3, <1>9 DEF Side
<1>14. Open' = Open /\ Incoming = <<>> /\ Incoming' = data /\ Seen' = Seen
  BY <1>2, <1>6, <1>12, SeenCases, SeenCasesNext DEF Open, Incoming, SeenIs
<1>15. Unread' = Unread
  <2>1. Unread = buf \o (rest \o (<<>> \o queue))
    BY <1>14 DEF Unread, queue
  <2>2. Unread' = buf \o (rest \o (data \o left))
    BY <1>6, <1>13, <1>14 DEF Unread
  <2>3. <<>> \o queue = queue
    BY <1>4, Joined
  <2> QED BY <1>11, <2>1, <2>2, <2>3
<1>18. StreamInv'
  BY <1>6, <1>11, <1>12, <1>13, <1>15, <1>16, <1>19 DEF StreamInv
<1>20. CASE peer' = peer
  BY <1>6, <1>14, <1>18, <1>20 DEF Streams
<1>21. CASE peer'.broken
  <2>1. Stream!Break
    BY <1>6, <1>14, <1>19, <1>21 DEF Stream!Break
  <2> QED BY <1>18, <2>1 DEF Streams, Stream!Next
<1> QED BY <1>19, <1>20, <1>21

LEMMA LoseStreams == ASSUME SocketInv, SocketInv', StreamInv, Lose PROVE Streams
<1>1. UNCHANGED <<hif, chip, hostVars>> /\ lost' = TRUE /\ peer' = [peer EXCEPT !.broken = TRUE]
  BY DEF Lose
<1>2. UNCHANGED <<pc, client, sock, info, conns, taken>>
  BY <1>1 DEF hostVars
<1>3. UNCHANGED <<peer.accepted, peer.ended, peer.sent>> /\ peer'.broken
  BY <1>1 DEF SocketInv, Types
<1>4. Open' = Open /\ Incoming' = Incoming /\ Seen' = Seen
  BY <1>1, <1>2, SeenCases, SeenCasesNext DEF Open, Incoming, SeenIs
<1>5. Unread' = Unread
  BY <1>1, <1>2, <1>4 DEF Unread
<1>6. StreamInv'
  BY <1>1, <1>2, <1>3, <1>5 DEF StreamInv
<1>7. Stream!Break
  BY <1>2, <1>3, <1>4 DEF Stream!Break
<1> QED BY <1>6, <1>7 DEF Streams, Stream!Next

-----------------------------------------------------------------------------
LEMMA StreamStep == SocketInv /\ SocketInv' /\ StreamInv /\ [Next]_vars => Streams
<1> SUFFICES ASSUME SocketInv, SocketInv', StreamInv, [Next]_vars PROVE Streams
  OBVIOUS
<1>1. CASE Handle
  BY <1>1, HandleStreams
<1>2. CASE Calls
  <2>1. \A n \in 1..MaxBytes : n \in Nat
    BY SocketAssumption DEF SocketAssumption
  <2> QED BY <1>2, <2>1, DialStreams, DialledStreams, GiveUpStreams, LeaveStreams, ReadStreams DEF Calls
<1>3. CASE Chip
  BY <1>3, AnswerStreams, SendStreams, EndingStreams, ReportStreams, LoseStreams DEF Chip
<1>4. CASE UNCHANGED vars
  BY <1>4 DEF vars, Streams, StreamInv, Unread, Incoming, Open, Seen
<1> QED BY <1>1, <1>2, <1>3, <1>4 DEF Next

\* Whatever answers come late, a client is a stream of its own peer's bytes
\* (WiFiClient::connect, read and stop, m2m_ip_cb and handleEvent).
THEOREM ClientAlwaysStream == Spec => ClientIsStream
<1>1. Init => StreamInv /\ Stream!Init
  <2>1. Init => client = None /\ pc = "idle" /\ peer = NoPeer /\ taken = <<>>
    BY DEF Init
  <2>2. client = None /\ pc = "idle" => Seen = "left"
    BY SeenCases DEF SeenIs
  <2> QED BY <2>1, <2>2 DEF StreamInv, Stream!Init, NoPeer
<1>2. Streams => StreamInv' /\ [Stream!Next]_(Stream!vars)
  BY DEF Streams, Stream!vars
<1> QED BY <1>1, <1>2, SocketInvInit, SocketInvStep, StreamStep, PTL DEF Spec, ClientIsStream, Stream!Spec
=============================================================================
