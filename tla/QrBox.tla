-------------------------------- MODULE QrBox --------------------------------
(***************************************************************************)
(* The QR box: a locker whose solenoid a web server releases.  The sketch   *)
(* polls the server over WiFi, finds the command between '@'s in the reply, *)
(* and pulls the solenoid for a while; a switch tells whether the door is   *)
(* open.  Some boxes take commands over Bluetooth as well, or instead.      *)
(*                                                                         *)
(* The repository holds eight working generations of the sketch.  A         *)
(* generation is the set of traits its loop() has; gen is chosen once.      *)
(*   polls        asks the server over WiFi          (calls: through curl)  *)
(*   drains       keeps the last line available (otherwise one line a pass) *)
(*   checksDoor   opens only while the door is closed                       *)
(*   latches      isDone: no further opening once the door was seen open    *)
(*   drops        releases the solenoid after each opening                  *)
(*   closesOnZero releases the solenoid when the server says 0              *)
(*   stops        closes the connection after a result                      *)
(*   acks         okChar: remembers that the door was seen open             *)
(*   bites        a watchdog that nobody feeds, from the start              *)
(*   dog          a watchdog that command 4 starts and each pass feeds      *)
(*   bluetooth    obeys characters from a phone                             *)
(* The server, the network, the phone and the customer are the environment. *)
(***************************************************************************)
EXTENDS GetValue

CONSTANTS Replies, \* command -> the replies (sequences of lines) that carry it
          Whole    \* command -> the replies of a network that delivers whole lines

hanna0810 == {"polls", "drains", "closesOnZero"}
qr_0827   == {"polls", "drains", "checksDoor", "latches", "drops", "bluetooth"}
qr_0829   == {"polls", "drains", "checksDoor", "latches", "drops"}
qr_yun    == {"calls", "checksDoor", "drops"}
qr_ble    == {"checksDoor", "drops", "bluetooth"}
qr_1004   == {"polls", "checksDoor", "closesOnZero", "stops", "bites"}
qr_1114   == {"polls", "checksDoor", "drops", "closesOnZero", "stops", "acks"}
qr_1121   == qr_1114 \cup {"dog"}

Generations ==
  {hanna0810, qr_0827, qr_0829, qr_yun, qr_ble, qr_1004, qr_1114, qr_1121}

Commands == {"0", "1", "4"}

Chars == Commands \cup {"@", "s", "h"}   \* h: any character of a header

\* The field of a line that the sketch looks at.
Result(text) == getValue(text, "@", 1)

\* Only a reply to 1 has a line that reads 1, and it has one such line at most.
ASSUME ReplyAssumption ==
  \A c \in Commands : Whole[c] \subseteq Replies[c] /\ \A reply \in Replies[c] :
    /\ reply \in Seq(Seq(Chars))
    /\ \A k \in DOMAIN reply : trim(Result(reply[k])) = <<"1">> =>
         /\ c = "1"
         /\ \A l \in DOMAIN reply : trim(Result(reply[l])) = <<"1">> => l = k

VARIABLES
  gen,          \* which sketch the board runs (never changes)
  calm,         \* no power failure, and replies come whole and in time
  pc,           \* where loop() is
  res,          \* field 1 of the line read in this pass (Yun: its whole line)
  strDoorStat,  \* "Y" once the door was read open in this pass
  okChar, isDone, btChar,
  solenoid,     \* the solenoid is pulled: the door can be opened
  due,          \* postingInterval has passed since the last request
  dog,          \* the watchdog of "4": off, quiet, barked (early warning)
  doorOpen,     \* the door itself
  cmd,          \* what the server would answer now
  asked,        \* a request is on its way
  wire,         \* lines of the reply not read yet
  here,         \* how many of them have arrived
  told,         \* the door state the last request reported (dstat)
  allow,        \* ghost: the last request was answered 1, not yet acted upon
  word,         \* ghost, where nothing drops: the last command acted upon
  phone,        \* ghost: the phone's last command (1, 2 or 3) acted upon
  opened        \* ghost: the door was open since the last 0 acted upon

env == <<doorOpen, cmd>>
net == <<asked, wire, here, allow>>
vars == <<gen, calm, pc, res, strDoorStat, okChar, isDone, btChar, solenoid, due,
          dog, doorOpen, cmd, asked, wire, here, told, allow, word, phone, opened>>

Has(trait) == trait \in gen

\* Only the last generations know command 4.
Known == IF Has("acks") THEN Commands ELSE {"0", "1"}

\* setup() of the Yun makes a call of its own, whose line stays.
FirstResults == IF Has("calls") THEN {<<>>, <<"@", cmd>>} ELSE {<<>>}

\* The RAM after a reset, and a socket that the module has forgotten.
Boot ==
  /\ pc' = (IF Has("calls") THEN "read" ELSE "sense")
  /\ res' \in FirstResults /\ strDoorStat' = "N" /\ okChar' = "N" /\ isDone' = FALSE
  /\ btChar' = "none" /\ solenoid' = FALSE /\ due' = TRUE /\ dog' = "off"
  /\ asked' = FALSE /\ wire' = <<>> /\ here' = 0
  /\ allow' = FALSE /\ word' = "none" /\ phone' = "none" /\ opened' = doorOpen

Init ==
  /\ gen \in Generations /\ calm \in BOOLEAN
  /\ doorOpen \in BOOLEAN /\ cmd \in Known
  /\ pc = (IF Has("calls") THEN "read" ELSE "sense")
  /\ res \in FirstResults /\ strDoorStat = "N" /\ okChar = "N" /\ isDone = FALSE
  /\ btChar = "none" /\ solenoid = FALSE /\ due = TRUE /\ dog = "off"
  /\ asked = FALSE /\ wire = <<>> /\ here = 0 /\ told = "N"
  /\ allow = FALSE /\ word = "none" /\ phone = "none" /\ opened = doorOpen
-----------------------------------------------------------------------------
(***************************************************************************)
(* loop()                                                                  *)
(***************************************************************************)
Asks == Has("polls") \/ Has("calls")

AfterPhone == IF Asks THEN "read" ELSE "sense"

\* Mutant: the switch read the other way round.
DoorSwapped == IF doorOpen THEN "N" ELSE "Y"

DoorStat == IF doorOpen THEN "Y" ELSE "N"

\* What a phone may send: three commands, and characters that mean nothing.
PhoneChars == {"1", "2", "3", "other"}

\* Read the door, then obey the phone's character: the last one received,
\* which is obeyed again in every pass.  The characters received before it,
\* commands or not, are lost.
Sense ==
  /\ pc = "sense"
  /\ IF Has("checksDoor")
     THEN /\ strDoorStat' = DoorStat
          /\ isDone' = (isDone \/ (Has("latches") /\ DoorStat = "Y"))
          /\ okChar' = IF Has("acks") /\ DoorStat = "Y" THEN "Y" ELSE okChar
     ELSE UNCHANGED <<strDoorStat, isDone, okChar>>
  /\ IF Has("bluetooth")
     THEN \E c \in {btChar} \cup PhoneChars :
            /\ btChar' = c
            /\ phone' = IF c \in {"1", "2", "3"} THEN c ELSE phone
            /\ solenoid' = CASE c = "1" -> strDoorStat' = "N"
                             [] c = "2" -> TRUE
                             [] c = "3" -> FALSE
                             [] OTHER -> solenoid
            /\ pc' = IF c = "1" /\ strDoorStat' = "N" THEN "btopen" ELSE AfterPhone
     ELSE pc' = AfterPhone /\ UNCHANGED <<btChar, solenoid, phone>>
  /\ UNCHANGED <<gen, calm, res, due, dog, env, net, told, word, opened>>

\* The end of an open() that the phone asked for.
PhoneShut ==
  /\ pc = "btopen" /\ pc' = AfterPhone
  /\ solenoid' = FALSE
  /\ UNCHANGED <<gen, calm, res, strDoorStat, okChar, isDone, btChar, due, dog,
                 env, net, told, word, phone, opened>>

\* Mutant: what has been drained still counts as available.
DrainOver ==
  IF here = 0 THEN res' = <<>> /\ UNCHANGED <<wire, here>>
  ELSE IF Has("drains")
  THEN res' = Result(wire[here]) /\ wire' = SubSeq(wire, here + 1, Len(wire)) /\ UNCHANGED here
  ELSE res' = Result(Head(wire)) /\ wire' = Tail(wire) /\ here' = here - 1

TakeLine ==
  IF here = 0 THEN res' = <<>> /\ UNCHANGED <<wire, here>>
  ELSE IF Has("drains")
  THEN res' = Result(wire[here]) /\ wire' = SubSeq(wire, here + 1, Len(wire)) /\ here' = 0
  ELSE res' = Result(Head(wire)) /\ wire' = Tail(wire) /\ here' = here - 1

\* Read what has arrived of the reply.
Read ==
  /\ pc = "read" /\ Has("polls")
  /\ TakeLine
  /\ pc' = "act"
  /\ UNCHANGED <<gen, calm, strDoorStat, okChar, isDone, btChar, solenoid, due, dog,
                 env, asked, told, allow, word, phone, opened>>

\* The Yun asks and waits in one call; a curl without output leaves the line
\* of an earlier call in place.
Call ==
  /\ pc = "read" /\ Has("calls")
  /\ res' \in {<<"@", cmd>>} \cup (IF calm THEN {} ELSE {res})
  /\ told' = strDoorStat
  /\ pc' = "act"
  /\ UNCHANGED <<gen, calm, strDoorStat, okChar, isDone, btChar, solenoid, due, dog,
                 env, net, word, phone, opened>>

\* client.stop() after a result.
StopAfter(result) ==
  IF Has("stops") /\ result
  THEN asked' = FALSE /\ wire' = <<>> /\ here' = 0
  ELSE UNCHANGED <<asked, wire, here>>

Said(c) == trim(res) = IF Has("calls") THEN <<"@", c>> ELSE <<c>>

\* Mutant: the door test is inverted.
MayOpenOpen ==
  /\ Has("checksDoor") => strDoorStat = "Y"
  /\ Has("latches") => ~isDone

MayOpen ==
  /\ Has("checksDoor") => strDoorStat = "N"
  /\ Has("latches") => ~isDone

\* The server says 1 and open() begins.
Open ==
  /\ pc = "act" /\ Said("1") /\ MayOpen
  /\ solenoid' = TRUE
  /\ allow' = FALSE /\ word' = IF Has("drops") THEN word ELSE "1"
  /\ pc' = "opening"
  /\ UNCHANGED <<gen, calm, res, strDoorStat, okChar, isDone, btChar, due, dog,
                 env, asked, wire, here, told, phone, opened>>

\* Mutant: the solenoid is not released after open().
StayOpen ==
  /\ pc = "opening" /\ pc' = "poll"
  /\ StopAfter(TRUE)
  /\ UNCHANGED <<gen, calm, res, strDoorStat, okChar, isDone, btChar, solenoid, due,
                 dog, env, told, allow, word, phone, opened>>

\* open() returns.
Shut ==
  /\ pc = "opening" /\ pc' = "poll"
  /\ solenoid' = (solenoid /\ ~Has("drops"))
  /\ StopAfter(TRUE)
  /\ UNCHANGED <<gen, calm, res, strDoorStat, okChar, isDone, btChar, due, dog,
                 env, told, allow, word, phone, opened>>

\* Mutant: okChar survives the 0.
ForgetDone ==
  /\ isDone' = (isDone /\ ~Said("0"))
  /\ UNCHANGED okChar

\* A 0 ends the session: isDone and okChar start over.
Forget ==
  /\ isDone' = (isDone /\ ~Said("0"))
  /\ okChar' = IF Said("0") THEN "N" ELSE okChar

\* Every other result, and no result at all.
Act ==
  /\ pc = "act" /\ pc' = "poll"
  /\ ~(Said("1") /\ MayOpen)
  /\ solenoid' = (/\ solenoid
                  /\ ~(Said("1") /\ Has("drops"))
                  /\ ~(Said("0") /\ Has("closesOnZero")))
  /\ Forget
  /\ dog' = IF Said("4") /\ Has("dog") THEN "quiet" ELSE dog
  /\ word' = IF Said("0") /\ ~Has("drops") THEN "0" ELSE word
  /\ opened' = IF Said("0") THEN doorOpen ELSE opened
  /\ StopAfter(res # <<>>)
  /\ UNCHANGED <<gen, calm, res, strDoorStat, btChar, due, env, told, allow, phone>>

\* Mutant: the old connection is not closed before the new request.
AskOver ==
  /\ asked' = TRUE /\ due' = FALSE /\ allow' = FALSE
  /\ told' = strDoorStat
  /\ UNCHANGED <<wire, here>>

\* httpRequest(): whatever was left of the old connection is gone; without a
\* connection nothing is sent and the next pass tries again.
httpRequest ==
  /\ asked' \in (IF calm THEN {TRUE} ELSE BOOLEAN)
  /\ due' = ~asked'
  /\ wire' = <<>> /\ here' = 0 /\ allow' = FALSE
  /\ told' = IF asked' THEN strDoorStat ELSE told

Feed == dog' = IF dog = "barked" THEN "quiet" ELSE dog

\* The end of the pass.
Poll ==
  /\ pc = "poll" /\ Has("polls") /\ pc' = "sense"
  /\ IF due THEN httpRequest ELSE UNCHANGED <<due, told, net>>
  /\ Feed
  /\ UNCHANGED <<gen, calm, res, strDoorStat, okChar, isDone, btChar, solenoid,
                 env, word, phone, opened>>

\* The Yun reads its door at the end of the pass and waits a second.
LateSense ==
  /\ pc = "poll" /\ Has("calls") /\ pc' = "read"
  /\ strDoorStat' = DoorStat
  /\ UNCHANGED <<gen, calm, res, okChar, isDone, btChar, solenoid, due, dog,
                 env, net, told, word, phone, opened>>

Loop == \/ Sense \/ PhoneShut \/ Read \/ Call \/ Open \/ Shut \/ Act \/ Poll \/ LateSense
-----------------------------------------------------------------------------
(***************************************************************************)
(* Time and the environment                                                *)
(***************************************************************************)
box == <<gen, calm, pc, res, strDoorStat, okChar, isDone, btChar, solenoid,
         told, word, phone>>

\* postingInterval passes; on a calm network not before the reply is read.
Expire ==
  /\ ~due /\ due' = TRUE
  /\ calm => ~asked /\ wire = <<>>
  /\ UNCHANGED <<box, dog, env, net, opened>>

Serve ==
  /\ asked /\ asked' = FALSE
  /\ wire' \in (IF calm THEN Whole[cmd] ELSE Replies[cmd])
  /\ here' = 0
  /\ allow' = (cmd = "1")
  /\ UNCHANGED <<box, due, dog, env, opened>>

Arrive ==
  /\ here < Len(wire) /\ here' = here + 1
  /\ UNCHANGED <<box, due, dog, env, asked, wire, allow, opened>>

\* The early warning of the watchdog that "4" started.
Bark ==
  /\ dog = "quiet" /\ dog' = "barked"
  /\ UNCHANGED <<box, due, env, net, opened>>

\* A watchdog resets the board: the unfed one at any time, the other when a
\* pass takes long after the warning (on a calm network none does).
Bite ==
  /\ Has("bites") \/ (dog = "barked" /\ ~calm)
  /\ Boot
  /\ UNCHANGED <<gen, calm, env, told>>

PowerFail ==
  /\ ~calm
  /\ Boot
  /\ UNCHANGED <<gen, calm, env, told>>

\* The server changes its mind: a customer scanned the code, or is done.
Decide ==
  /\ cmd' \in Known \ {cmd}
  /\ UNCHANGED <<box, due, dog, doorOpen, net, opened>>

\* The door opens only while the solenoid is pulled; it may close at any time.
Door ==
  /\ doorOpen' = ~doorOpen
  /\ ~doorOpen => solenoid
  /\ opened' = TRUE
  /\ UNCHANGED <<box, due, dog, cmd, net>>

Next == Loop \/ Expire \/ Serve \/ Arrive \/ Bark \/ Bite \/ PowerFail \/ Decide \/ Door

\* loop() never stops; an interval ends; a calm network delivers; a watchdog
\* that nobody feeds resets the board.
Fairness ==
  /\ WF_vars(Loop)
  /\ WF_vars(Expire)
  /\ WF_vars(calm /\ Serve)
  /\ WF_vars(calm /\ Arrive)
  /\ WF_vars(Has("bites") /\ Bite)

Spec == Init /\ [][Next]_vars
FairSpec == Spec /\ Fairness
-----------------------------------------------------------------------------
(***************************************************************************)
(* Properties                                                              *)
(***************************************************************************)
\* Every variable holds a value of its type.
TypeOK ==
  /\ gen \in Generations /\ calm \in BOOLEAN
  /\ pc \in {"sense", "btopen", "read", "act", "opening", "poll"}
  /\ res \in Seq(Chars) /\ wire \in Seq(Seq(Chars)) /\ here \in 0..Len(wire)
  /\ strDoorStat \in {"N", "Y"} /\ okChar \in {"N", "Y"} /\ told \in {"N", "Y"}
  /\ btChar \in PhoneChars \cup {"none"} /\ phone \in {"none", "1", "2", "3"} /\ cmd \in Commands
  /\ dog \in {"off", "quiet", "barked"} /\ word \in {"none", "0", "1"}
  /\ <<isDone, solenoid, due, doorOpen>> \in BOOLEAN \X BOOLEAN \X BOOLEAN \X BOOLEAN
  /\ <<asked, allow, opened>> \in BOOLEAN \X BOOLEAN \X BOOLEAN

\* A box that polls opens for the server only while the answer to its last
\* request was 1 and has not been acted upon: no reply opens twice, whichever
\* lines it is cut into, and none that a later request overtook opens at all.
\* (On the Yun a call that fails leaves the old res, and opens again.)
OpensAreGranted == [][Has("polls") /\ Open => allow]_vars

\* The solenoid is pulled only during an opening, while the phone's last
\* command was 2, whatever else it sent after it, or, in the generations that
\* leave it pulled, while the last command acted upon was 1: no path through
\* loop() leaves it behind.  (A command that is lost counts for nothing here.)
SolenoidObeys ==
  solenoid => \/ pc \in {"opening", "btopen"}
              \/ Has("bluetooth") /\ phone = "2"
              \/ ~Has("drops") /\ word = "1"

\* isDone and okChar say that the door was open since the last 0: neither
\* survives it, and neither is set by anything but an open door.
SeenMeansOpened == isDone \/ okChar = "Y" => opened

\* On a calm network a box that the server keeps telling 1 opens, unless it is
\* open or its latch holds: the poll never wedges on a lost or late state of
\* the connection.  (The unfed watchdog may always reset the board first.)
GrantedOpens ==
  (calm /\ Asks /\ ~Has("bites") /\ cmd = "1") ~>
    (solenoid \/ doorOpen \/ isDone \/ cmd # "1")

\* While the door stays open the server is told so in the end (dstat=Y),
\* although the request may be built long after the door was read.
DoorReported ==
  (calm /\ Asks /\ Has("checksDoor") /\ ~Has("bites") /\ doorOpen) ~>
    (told = "Y" \/ ~doorOpen)

\* The comment "split result from server" at each use of getValue(): for every
\* text that loop() may read and that does not end in the separator (a last
\* separator ends up inside the last field) it cuts out the field asked for.
LinesAreCut == pc = "read" => GetValueIsField
=============================================================================
