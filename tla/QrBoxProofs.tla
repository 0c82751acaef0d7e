----------------------------- MODULE QrBoxProofs -----------------------------
(***************************************************************************)
(* Proofs about QrBox: for every set of replies that the assumption allows, *)
(* every generation of the sketch, and every behaviour of the server, the   *)
(* network, the phone and the door.                                         *)
(***************************************************************************)
EXTENDS QrBox, GetValueProofs, TLAPS

\* A generation either releases the solenoid after an opening or on command 0,
\* and asks the server in at most one way.
LEMMA GenerationFacts ==
  ASSUME NEW g \in Generations
  PROVE  /\ "drops" \notin g => "closesOnZero" \in g
         /\ ~("polls" \in g /\ "calls" \in g)
  BY DEF Generations, hanna0810, qr_0827, qr_0829, qr_yun, qr_ble, qr_1004, qr_1114, qr_1121

-----------------------------------------------------------------------------
(***************************************************************************)
(* The solenoid.  An opening of a box that does not drop was commanded by a *)
(* 1, which is what remains to be said once open() has returned.            *)
(***************************************************************************)
SolenoidInv ==
  /\ gen \in Generations
  /\ SolenoidObeys
  /\ pc = "opening" /\ ~Has("drops") => word = "1"

LEMMA SolenoidInit == Init => SolenoidInv
  BY DEF Init, SolenoidInv, SolenoidObeys

LEMMA SolenoidStep == SolenoidInv /\ [Next]_vars => SolenoidInv'
<1> SUFFICES ASSUME SolenoidInv, [Next]_vars PROVE SolenoidInv'
  OBVIOUS
<1> USE DEF SolenoidInv, SolenoidObeys, Has
<1>1. CASE Sense
  BY <1>1 DEF Sense, AfterPhone, Asks, net, env
<1>2. CASE PhoneShut
  BY <1>2 DEF PhoneShut, AfterPhone, Asks
<1>3. CASE Read
  BY <1>3 DEF Read
<1>4. CASE Call
  BY <1>4 DEF Call
<1>5. CASE Open
  BY <1>5 DEF Open
<1>6. CASE Shut
  BY <1>6 DEF Shut
<1>7. CASE Act
  <2>1. "drops" \notin gen => "closesOnZero" \in gen
    BY GenerationFacts
  <2> QED BY <1>7, <2>1 DEF Act, Forget
<1>8. CASE Poll
  BY <1>8 DEF Poll
<1>9. CASE LateSense
  BY <1>9 DEF LateSense
<1>10. CASE Bite \/ PowerFail
  BY <1>10 DEF Bite, PowerFail, Boot
<1>11. CASE Expire \/ Serve \/ Arrive \/ Bark \/ Decide \/ Door
  BY <1>11 DEF Expire, Serve, Arrive, Bark, Decide, Door, box
<1>12. CASE UNCHANGED vars
  BY <1>12 DEF vars
<1> QED
  BY <1>1, <1>2, <1>3, <1>4, <1>5, <1>6, <1>7, <1>8, <1>9, <1>10, <1>11, <1>12
  DEF Next, Loop

\* The solenoid is never left pulled behind the commands' back, whichever path
\* loop() takes and wherever the board is reset.
THEOREM SolenoidAlwaysObeys == Spec => []SolenoidObeys
<1>1. SolenoidInv => SolenoidObeys
  BY DEF SolenoidInv
<1> QED
  BY <1>1, SolenoidInit, SolenoidStep, PTL DEF Spec

-----------------------------------------------------------------------------
(***************************************************************************)
(* The latches.                                                            *)
(***************************************************************************)
LatchInv == (doorOpen => opened) /\ SeenMeansOpened

LEMMA LatchStep == LatchInv /\ [Next]_vars => LatchInv'
<1> SUFFICES ASSUME LatchInv, [Next]_vars PROVE LatchInv'
  OBVIOUS
<1> USE DEF LatchInv, SeenMeansOpened, env
<1>1. CASE Sense
  BY <1>1 DEF Sense, DoorStat
<1>2. CASE PhoneShut \/ Read \/ Call \/ Open \/ Shut \/ Poll \/ LateSense
  <2>1. UNCHANGED <<doorOpen, opened, isDone, okChar>>
    BY <1>2 DEF PhoneShut, Read, Call, Open, Shut, Poll, LateSense
  <2> QED BY <2>1
<1>3. CASE Act
  BY <1>3 DEF Act, Forget
<1>4. CASE Bite \/ PowerFail
  BY <1>4 DEF Bite, PowerFail, Boot
<1>5. CASE Expire \/ Serve \/ Arrive \/ Bark \/ Decide \/ Door
  BY <1>5 DEF Expire, Serve, Arrive, Bark, Decide, Door, box
<1>6. CASE UNCHANGED vars
  BY <1>6 DEF vars
<1> QED
  BY <1>1, <1>2, <1>3, <1>4, <1>5, <1>6 DEF Next, Loop

\* What a box remembers of its door was true since the last 0.
THEOREM SeenAlwaysMeansOpened == Spec => []SeenMeansOpened
<1>1. Init => LatchInv
  BY DEF Init, LatchInv, SeenMeansOpened
<1>2. LatchInv => SeenMeansOpened
  BY DEF LatchInv
<1> QED
  BY <1>1, <1>2, LatchStep, PTL DEF Spec

-----------------------------------------------------------------------------
(***************************************************************************)
(* Openings.  The lines not read yet carry at most one 1, and only while    *)
(* the last request's 1 has not been used; a 1 in hand is the only one; and *)
(* while a request is on its way there is none anywhere.                    *)
(***************************************************************************)
IsOne(field) == trim(field) = <<"1">>

NetTyped ==
  /\ gen \in Generations /\ cmd \in Commands
  /\ wire \in Seq(Seq(Chars)) /\ here \in 0..Len(wire)

OneOnWire ==
  \A k \in DOMAIN wire : IsOne(Result(wire[k])) =>
    allow /\ \A l \in DOMAIN wire : IsOne(Result(wire[l])) => l = k

OneInHand ==
  pc = "act" /\ Has("polls") /\ IsOne(res) =>
    allow /\ ~asked /\ \A k \in DOMAIN wire : ~IsOne(Result(wire[k]))

GrantInv ==
  /\ NetTyped /\ OneOnWire /\ OneInHand
  /\ asked => wire = <<>> /\ Has("polls")
  /\ wire # <<>> => Has("polls")

LEMMA NothingIsNotOne == ~IsOne(<<>>)
<1>1. {k \in DOMAIN <<>> : <<>>[k] # "s"} = {}
  OBVIOUS
<1>2. trim(<<>>) = <<>>
  BY <1>1 DEF trim
<1>3. <<>> # <<"1">>
  OBVIOUS
<1> QED
  BY <1>2, <1>3 DEF IsOne

LEMMA GrantInit == Init => GrantInv
<1> SUFFICES ASSUME Init PROVE GrantInv
  OBVIOUS
<1>1. wire = <<>> /\ here = 0 /\ Len(wire) = 0 /\ DOMAIN wire = {}
  BY DEF Init
<1>2. cmd \in Commands
  BY DEF Init, Known, Commands
<1>3. pc # "act"
  BY DEF Init
<1> QED
  BY <1>1, <1>2, <1>3 DEF Init, GrantInv, NetTyped, OneOnWire, OneInHand

\* Nothing on the wire and no request is what every reset leaves.
LEMMA EmptyWire ==
  ASSUME GrantInv, wire' = <<>>, here' = 0, gen' = gen, cmd' \in Commands,
         pc' # "act", asked' => Has("polls")
  PROVE  GrantInv'
<1>1. wire' \in Seq(Seq(Chars)) /\ Len(wire') = 0 /\ DOMAIN wire' = {}
  OBVIOUS
<1> QED
  BY <1>1 DEF GrantInv, NetTyped, OneOnWire, OneInHand, Has

\* A step that touches neither the connection nor the line in hand.
LEMMA SameWire ==
  ASSUME GrantInv, UNCHANGED <<gen, asked, wire, allow>>, here' \in 0..Len(wire),
         cmd' \in Commands, pc' = "act" => pc = "act" /\ res' = res
  PROVE  GrantInv'
  BY DEF GrantInv, NetTyped, OneOnWire, OneInHand, Has

\* What is left of a sequence once its first n elements are read.
LEMMA DropFirst ==
  ASSUME NEW S, NEW s \in Seq(S), NEW n \in 1..Len(s),
         NEW rest, rest = SubSeq(s, n + 1, Len(s))
  PROVE  /\ rest \in Seq(S) /\ Len(rest) = Len(s) - n
         /\ \A k \in DOMAIN rest : /\ k \in Nat \ {0} /\ k + n \in DOMAIN s
                                   /\ rest[k] = s[k + n]
  OBVIOUS

LEMMA DropLines ==
  \A s \in Seq(Seq(Chars)) : \A n \in 1..Len(s) : \A rest :
    rest = SubSeq(s, n + 1, Len(s)) =>
      /\ rest \in Seq(Seq(Chars)) /\ Len(rest) = Len(s) - n
      /\ \A k \in DOMAIN rest : /\ k \in Nat \ {0} /\ k + n \in DOMAIN s
                                /\ rest[k] = s[k + n]
<1> DEFINE S == Seq(Chars)
<1> SUFFICES ASSUME NEW s \in Seq(S), NEW n \in 1..Len(s),
                    NEW rest, rest = SubSeq(s, n + 1, Len(s))
             PROVE  /\ rest \in Seq(S) /\ Len(rest) = Len(s) - n
                    /\ \A k \in DOMAIN rest : /\ k \in Nat \ {0} /\ k + n \in DOMAIN s
                                              /\ rest[k] = s[k + n]
  OBVIOUS
<1> HIDE DEF S
<1> QED
  BY DropFirst

\* Reading takes lines off the front; only the one in hand may be a 1.
LEMMA ReadGrant == ASSUME GrantInv, Read PROVE GrantInv'
<1> USE DEF GrantInv, NetTyped, Has
<1>1. UNCHANGED <<gen, cmd, asked, allow>> /\ pc' = "act"
  BY DEF Read, env
<1>2. CASE here = 0
  <2>1. res' = <<>> /\ UNCHANGED <<wire, here>>
    BY <1>2 DEF Read, TakeLine
  <2> QED
    BY <1>1, <2>1, NothingIsNotOne DEF OneOnWire, OneInHand
<1>3. ASSUME NEW STATE n, n \in 1..Len(wire),
             wire' = SubSeq(wire, n + 1, Len(wire)), here' \in 0..Len(wire'),
             res' = Result(wire[n])
      PROVE  GrantInv'
  <2>1. /\ wire' \in Seq(Seq(Chars)) /\ Len(wire') = Len(wire) - n
        /\ \A k \in DOMAIN wire' : /\ k \in Nat \ {0} /\ k + n \in DOMAIN wire
                                   /\ wire'[k] = wire[k + n]
    <3>1. wire \in Seq(Seq(Chars))
      OBVIOUS
    <3> HIDE DEF GrantInv, NetTyped
    <3>2. n \in 1..Len(wire) /\ wire' = SubSeq(wire, n + 1, Len(wire))
      BY <1>3
    <3> HIDE <1>3
    <3> QED BY <3>1, <3>2, DropLines
  <2>2. \A k \in DOMAIN wire' : k + n # n
    BY <1>3, <2>1
  <2>3. wire # <<>> /\ ~asked
    BY <1>3
  <2>4. n \in DOMAIN wire
    BY <1>3
  <2>5. OneOnWire'
    <3> SUFFICES ASSUME NEW k \in DOMAIN wire', IsOne(Result(wire'[k])),
                        NEW l \in DOMAIN wire', IsOne(Result(wire'[l]))
                 PROVE  allow' /\ l = k
      BY DEF OneOnWire
    <3>1. k \in Int /\ l \in Int
      BY <2>1
    <3> QED
      BY <1>1, <1>3, <2>1, <3>1 DEF OneOnWire
  <2>6. OneInHand'
    <3> SUFFICES ASSUME IsOne(res') 
                 PROVE  allow' /\ ~asked' /\ \A k \in DOMAIN wire' : ~IsOne(Result(wire'[k]))
      BY DEF OneInHand
    <3>1. IsOne(Result(wire[n]))
      BY <1>3
    <3>2. allow /\ \A l \in DOMAIN wire : IsOne(Result(wire[l])) => l = n
      BY <2>4, <3>1 DEF OneOnWire
    <3> QED
      BY <1>1, <2>1, <2>2, <2>3, <3>2
  <2> QED
    BY <1>1, <1>3, <2>1, <2>3, <2>5, <2>6
<1>4. CASE here # 0 /\ Has("drains")
  <2>1. res' = Result(wire[here]) /\ wire' = SubSeq(wire, here + 1, Len(wire)) /\ here' = 0
    BY <1>4 DEF Read, TakeLine
  <2>2. here \in 1..Len(wire) /\ 0 \in 0..Len(wire')
    BY <1>4, <2>1
  <2> QED
    BY <1>3, <2>1, <2>2
<1>5. CASE here # 0 /\ ~Has("drains")
  <2>1. res' = Result(Head(wire)) /\ wire' = Tail(wire) /\ here' = here - 1
    BY <1>5 DEF Read, TakeLine
  <2>2. 1 \in 1..Len(wire) /\ here - 1 \in 0..Len(Tail(wire))
    BY <1>5
  <2>3. Tail(wire) = SubSeq(wire, 1 + 1, Len(wire)) /\ Head(wire) = wire[1]
    BY <2>2
  <2> QED
    BY <1>3, <2>1, <2>2, <2>3
<1> QED
  BY <1>2, <1>4, <1>5

\* The server's answer is the only source of ones.
LEMMA ServeGrant == ASSUME GrantInv, Serve PROVE GrantInv'
<1> USE DEF GrantInv, NetTyped, Has
<1>1. /\ asked /\ asked' = FALSE /\ here' = 0 /\ allow' = (cmd = "1")
      /\ UNCHANGED <<gen, cmd, pc, res>>
  BY DEF Serve, env, box
<1>2. wire' \in Replies[cmd]
  BY ReplyAssumption DEF Serve
<1>3. /\ wire' \in Seq(Seq(Chars))
      /\ \A k \in DOMAIN wire' : IsOne(Result(wire'[k])) =>
           cmd = "1" /\ \A l \in DOMAIN wire' : IsOne(Result(wire'[l])) => l = k
  BY <1>2, ReplyAssumption DEF IsOne
<1>4. OneOnWire'
  BY <1>1, <1>3 DEF OneOnWire
<1>5. OneInHand'
  BY <1>1 DEF OneInHand, Has
<1> QED
  BY <1>1, <1>3, <1>4, <1>5

LEMMA GrantStep == GrantInv /\ [Next]_vars => GrantInv'
<1> SUFFICES ASSUME GrantInv, [Next]_vars PROVE GrantInv'
  OBVIOUS
<1>0. cmd \in Commands /\ here \in 0..Len(wire) /\ gen \in Generations
  BY DEF GrantInv, NetTyped
<1>1. CASE Sense \/ PhoneShut \/ LateSense
  <2>1. UNCHANGED <<gen, asked, wire, allow, here, cmd>> /\ pc' # "act"
    BY <1>1 DEF Sense, PhoneShut, LateSense, AfterPhone, env, net
  <2> QED BY <1>0, <2>1, SameWire
<1>2. CASE Read
  BY <1>2, ReadGrant
<1>3. CASE Call
  <2>1. UNCHANGED <<gen, asked, wire, allow, here, cmd>> /\ ~Has("polls")
    BY <1>0, <1>3, GenerationFacts DEF Call, env, net, Has
  <2> QED
    BY <2>1 DEF GrantInv, NetTyped, OneOnWire, OneInHand, Has
<1>4. CASE Open
  <2>1. UNCHANGED <<gen, cmd, asked, wire, here>> /\ allow' = FALSE /\ pc = "act" /\ pc' = "opening"
    BY <1>4 DEF Open, env
  <2>2. CASE Has("polls")
    <3>1. IsOne(res)
      BY <1>0, <1>4, <2>2, GenerationFacts DEF Open, Said, IsOne, Has
    <3>2. \A k \in DOMAIN wire : ~IsOne(Result(wire[k]))
      BY <2>1, <2>2, <3>1 DEF GrantInv, OneInHand
    <3> QED
      BY <2>1, <3>2 DEF GrantInv, NetTyped, OneOnWire, OneInHand, Has
  <2>3. CASE ~Has("polls")
    <3>1. wire = <<>> /\ DOMAIN wire = {}
      BY <2>3 DEF GrantInv
    <3> QED
      BY <2>1, <3>1 DEF GrantInv, NetTyped, OneOnWire, OneInHand, Has
  <2> QED BY <2>2, <2>3
<1>5. CASE Shut \/ Act
  <2>1. pc' # "act" /\ UNCHANGED <<gen, cmd, allow>>
    BY <1>5 DEF Shut, Act, env
  <2>2. \/ wire' = <<>> /\ here' = 0 /\ ~asked'
        \/ UNCHANGED <<asked, wire, here>>
    BY <1>5 DEF Shut, Act, StopAfter
  <2> QED BY <1>0, <2>1, <2>2, EmptyWire, SameWire
<1>6. CASE Poll
  <2>1. pc' # "act" /\ UNCHANGED <<gen, cmd>>
    BY <1>6 DEF Poll, env
  <2>2. \/ wire' = <<>> /\ here' = 0 /\ Has("polls")
        \/ UNCHANGED <<asked, wire, here, allow>>
    BY <1>6 DEF Poll, httpRequest, net
  <2> QED BY <1>0, <2>1, <2>2, EmptyWire, SameWire
<1>7. CASE Serve
  BY <1>7, ServeGrant
<1>8. CASE Bite \/ PowerFail
  <2>1. wire' = <<>> /\ here' = 0 /\ ~asked' /\ pc' # "act" /\ UNCHANGED <<gen, cmd>>
    BY <1>8 DEF Bite, PowerFail, Boot, env
  <2> QED BY <1>0, <2>1, EmptyWire
<1>9. CASE Arrive
  <2>1. UNCHANGED <<gen, asked, wire, allow, cmd, pc, res>> /\ here < Len(wire) /\ here' = here + 1
    BY <1>9 DEF Arrive, box, env
  <2>2. here' \in 0..Len(wire)
    BY <1>0, <2>1 DEF GrantInv, NetTyped
  <2> QED BY <1>0, <2>1, <2>2, SameWire
<1>10. CASE Expire \/ Bark \/ Decide \/ Door
  <2>1. UNCHANGED <<gen, asked, wire, here, allow, pc, res>> /\ cmd' \in Commands
    BY <1>0, <1>10 DEF Expire, Bark, Decide, Door, box, env, net, Known, Commands
  <2> QED BY <1>0, <2>1, SameWire
<1>11. CASE UNCHANGED vars
  BY <1>0, <1>11, SameWire DEF vars
<1> QED
  BY <1>1, <1>2, <1>3, <1>4, <1>5, <1>6, <1>7, <1>8, <1>9, <1>10, <1>11 DEF Next, Loop

\* No reply opens a polling box twice, and no overtaken reply opens it at all.
THEOREM OpensAlwaysGranted == Spec => OpensAreGranted
<1>1. GrantInv /\ [Next]_vars => [Has("polls") /\ Open => allow]_vars
  <2> SUFFICES ASSUME GrantInv, Has("polls"), Open PROVE allow
    OBVIOUS
  <2>1. pc = "act" /\ IsOne(res)
    BY GenerationFacts DEF GrantInv, NetTyped, Open, Said, IsOne, Has
  <2> QED
    BY <2>1 DEF GrantInv, OneInHand
<1> QED
  BY <1>1, GrantInit, GrantStep, PTL DEF Spec, OpensAreGranted

-----------------------------------------------------------------------------
(***************************************************************************)
(* Types.  GrantInv types the connection; the line in hand is a field that  *)
(* getValue cut from a line, and so text whatever the line was.             *)
(***************************************************************************)
BoxTypes ==
  /\ calm \in BOOLEAN /\ pc \in {"sense", "btopen", "read", "act", "opening", "poll"}
  /\ strDoorStat \in {"N", "Y"} /\ okChar \in {"N", "Y"} /\ told \in {"N", "Y"}
  /\ btChar \in PhoneChars \cup {"none"} /\ phone \in {"none", "1", "2", "3"}
  /\ dog \in {"off", "quiet", "barked"} /\ word \in {"none", "0", "1"}

FlagTypes ==
  /\ isDone \in BOOLEAN /\ solenoid \in BOOLEAN /\ due \in BOOLEAN
  /\ doorOpen \in BOOLEAN /\ asked \in BOOLEAN /\ allow \in BOOLEAN /\ opened \in BOOLEAN

TypeInv == GrantInv /\ BoxTypes /\ FlagTypes /\ res \in Seq(Chars)

LEMMA TypeInvIsTypeOK == TypeInv => TypeOK
  BY DEF TypeInv, GrantInv, NetTyped, BoxTypes, FlagTypes, TypeOK

LEMMA ResultTyped == ASSUME NEW text \in Seq(Chars) PROVE Result(text) \in Seq(Chars)
  BY GetValueTyped DEF Result

\* A command as curl returns it.
LEMMA CallTyped == ASSUME NEW c \in Commands PROVE <<"@", c>> \in Seq(Chars)
<1>1. "@" \in Chars /\ c \in Chars
  BY DEF Chars
<1> QED BY <1>1

LEMMA FirstTyped == ASSUME cmd \in Commands PROVE FirstResults \subseteq Seq(Chars)
<1>1. <<"@", cmd>> \in Seq(Chars) /\ <<>> \in Seq(Chars)
  BY CallTyped
<1> QED BY <1>1 DEF FirstResults

LEMMA TypeInvInit == Init => TypeInv
<1> SUFFICES ASSUME Init PROVE TypeInv
  OBVIOUS
<1>1. GrantInv /\ cmd \in Commands
  BY GrantInit DEF GrantInv, NetTyped
<1>2. res \in Seq(Chars)
  BY <1>1, FirstTyped DEF Init
<1>3. BoxTypes /\ FlagTypes
  BY DEF Init, BoxTypes, FlagTypes
<1> QED BY <1>1, <1>2, <1>3 DEF TypeInv

LEMMA ResStep == ASSUME TypeInv, [Next]_vars PROVE res' \in Seq(Chars)
<1>0. res \in Seq(Chars) /\ cmd \in Commands /\ wire \in Seq(Seq(Chars)) /\ here \in 0..Len(wire)
  BY DEF TypeInv, GrantInv, NetTyped
<1>1. CASE Read
  <2>1. CASE here = 0
    BY <1>1, <2>1 DEF Read, TakeLine
  <2>2. CASE here # 0
    <3>1. wire[here] \in Seq(Chars) /\ Head(wire) \in Seq(Chars)
      BY <1>0, <2>2
    <3>2. res' = Result(wire[here]) \/ res' = Result(Head(wire))
      BY <1>1, <2>2 DEF Read, TakeLine
    <3> QED BY <3>1, <3>2, ResultTyped
  <2> QED BY <2>1, <2>2
<1>2. CASE Call
  BY <1>0, <1>2, CallTyped DEF Call
<1>3. CASE Bite \/ PowerFail
  BY <1>0, <1>3, FirstTyped DEF Bite, PowerFail, Boot
<1>4. CASE Sense \/ PhoneShut \/ Open \/ Shut \/ Act \/ Poll \/ LateSense
  BY <1>0, <1>4 DEF Sense, PhoneShut, Open, Shut, Act, Poll, LateSense
<1>5. CASE Expire \/ Serve \/ Arrive \/ Bark \/ Decide \/ Door \/ UNCHANGED vars
  BY <1>0, <1>5 DEF Expire, Serve, Arrive, Bark, Decide, Door, box, vars
<1> QED BY <1>1, <1>2, <1>3, <1>4, <1>5 DEF Next, Loop

LEMMA BoxTypesStep == ASSUME BoxTypes, [Next]_vars PROVE BoxTypes'
<1> USE DEF BoxTypes
<1>1. CASE Sense
  <2>1. pc' \in {"btopen", "read", "sense"} /\ UNCHANGED <<calm, dog, told, word>>
    BY <1>1 DEF Sense, AfterPhone
  <2>2. strDoorStat' \in {"N", "Y"} /\ okChar' \in {"N", "Y"}
    BY <1>1 DEF Sense, DoorStat
  <2>3. btChar' \in PhoneChars \cup {"none"}
    BY <1>1 DEF Sense
  <2>4. phone' \in {"none", "1", "2", "3"}
    BY <1>1 DEF Sense
  <2> QED BY <2>1, <2>2, <2>3, <2>4
<1>2. CASE PhoneShut \/ Read \/ Call \/ Open
  BY <1>2 DEF PhoneShut, AfterPhone, Read, Call, Open
<1>3. CASE Shut \/ Act
  BY <1>3 DEF Shut, Act, Forget
<1>4. CASE Poll
  <2>1. told' \in {"N", "Y"} /\ dog' \in {"off", "quiet", "barked"}
    BY <1>4 DEF Poll, httpRequest, Feed
  <2> QED BY <1>4, <2>1 DEF Poll
<1>5. CASE LateSense
  BY <1>5 DEF LateSense, DoorStat
<1>6. CASE Bite \/ PowerFail
  BY <1>6 DEF Bite, PowerFail, Boot
<1>7. CASE Expire \/ Bark \/ Decide \/ Serve \/ Arrive \/ Door
  BY <1>7 DEF Expire, Bark, Decide, Serve, Arrive, Door, box
<1>8. CASE UNCHANGED vars
  BY <1>8 DEF vars
<1> QED BY <1>1, <1>2, <1>3, <1>4, <1>5, <1>6, <1>7, <1>8 DEF Next, Loop

LEMMA FlagTypesStep == ASSUME FlagTypes, [Next]_vars PROVE FlagTypes'
<1> USE DEF FlagTypes
<1>1. CASE Sense
  <2>1. UNCHANGED <<due, doorOpen, asked, allow, opened>>
    BY <1>1 DEF Sense, env, net
  <2>2. isDone' \in BOOLEAN
    BY <1>1 DEF Sense
  <2>3. solenoid' \in BOOLEAN
    BY <1>1 DEF Sense
  <2> QED BY <2>1, <2>2, <2>3
<1>2. CASE PhoneShut \/ Read \/ Call \/ LateSense
  <2>1. UNCHANGED <<isDone, due, doorOpen, asked, allow, opened>>
        /\ (solenoid' = solenoid \/ solenoid' = FALSE)
    BY <1>2 DEF PhoneShut, Read, Call, LateSense, env, net
  <2> QED BY <2>1
<1>3. CASE Open
  <2>1. UNCHANGED <<isDone, due, doorOpen, asked, opened>> /\ solenoid' = TRUE /\ allow' = FALSE
    BY <1>3 DEF Open, env
  <2> QED BY <2>1
<1>4. CASE Shut \/ Act
  <2>1. UNCHANGED <<due, doorOpen, allow>>
    BY <1>4 DEF Shut, Act, env
  <2>2. asked' = asked \/ asked' = FALSE
    BY <1>4 DEF Shut, Act, StopAfter
  <2>3. opened' = opened \/ opened' = doorOpen
    BY <1>4 DEF Shut, Act
  <2>4. solenoid' \in BOOLEAN /\ isDone' \in BOOLEAN
    BY <1>4 DEF Shut, Act, Forget
  <2> QED BY <2>1, <2>2, <2>3, <2>4
<1>5. CASE Poll
  <2>1. UNCHANGED <<isDone, solenoid, doorOpen, opened>>
    BY <1>5 DEF Poll, env
  <2>2. allow' = FALSE \/ allow' = allow
    BY <1>5 DEF Poll, httpRequest, net
  <2>3. asked' \in BOOLEAN
    BY <1>5 DEF Poll, httpRequest, net
  <2>4. due' \in BOOLEAN
    BY <1>5 DEF Poll, httpRequest
  <2> QED BY <2>1, <2>2, <2>3, <2>4
<1>6. CASE Bite \/ PowerFail
  <2>1. isDone' = FALSE /\ solenoid' = FALSE /\ due' = TRUE /\ asked' = FALSE /\ allow' = FALSE
        /\ opened' = doorOpen /\ doorOpen' = doorOpen
    BY <1>6 DEF Bite, PowerFail, Boot, env
  <2> QED BY <2>1
<1>7. CASE Expire \/ Bark \/ Decide \/ Arrive
  <2>1. UNCHANGED <<isDone, solenoid, doorOpen, asked, allow, opened>>
        /\ (due' = due \/ due' = TRUE)
    BY <1>7 DEF Expire, Bark, Decide, Arrive, box, env, net
  <2> QED BY <2>1
<1>8. CASE Serve
  <2>1. UNCHANGED <<isDone, solenoid, due, doorOpen, opened>> /\ asked' = FALSE /\ allow' = (cmd = "1")
    BY <1>8 DEF Serve, box, env
  <2> QED BY <2>1
<1>9. CASE Door
  <2>1. UNCHANGED <<isDone, solenoid, due, asked, allow>> /\ opened' = TRUE /\ doorOpen' = ~doorOpen
    BY <1>9 DEF Door, box, net
  <2> QED BY <2>1
<1>10. CASE UNCHANGED vars
  BY <1>10 DEF vars
<1> QED BY <1>1, <1>2, <1>3, <1>4, <1>5, <1>6, <1>7, <1>8, <1>9, <1>10 DEF Next, Loop

LEMMA TypeInvStep == TypeInv /\ [Next]_vars => TypeInv'
  BY GrantStep, ResStep, BoxTypesStep, FlagTypesStep DEF TypeInv

\* Every variable keeps its type; in particular no more lines have arrived than
\* the reply has (TakeLine, after a drain, a stop or a reset), and what the
\* sketch cut out of a line is text.
THEOREM AlwaysTyped == Spec => []TypeOK
  BY TypeInvInit, TypeInvStep, TypeInvIsTypeOK, PTL DEF Spec

-----------------------------------------------------------------------------
\* For every text that the run enumerates getValue cuts out the field asked
\* for; GetValueCuts says so of all texts, all alphabets and all fields.
THEOREM LinesAlwaysCut == Spec => []LinesAreCut
<1>1. ASSUME NEW data \in Texts PROVE data \in Seq({"@", "1", "s"})
  <2>1. PICK n \in 0..5 : data \in [1..n -> {"@", "1", "s"}]
    BY DEF Texts
  <2> QED BY <2>1
<1>2. \A index \in 0..3 : index \in Nat
  OBVIOUS
<1>3. GetValueIsField
  BY <1>1, <1>2, GetValueCuts DEF GetValueIsField
<1>4. LinesAreCut
  BY <1>3 DEF LinesAreCut
<1> QED BY <1>4, PTL
=============================================================================
