------------------------------- MODULE KeyScan -------------------------------
(***************************************************************************)
(* KeyScan() of src/MEGA0809.ino, the branch of one switch: every ten        *)
(* milliseconds the timer interrupt counts how long the contact has been    *)
(* closed, in a byte, and reports a press at the fifth count and, for the    *)
(* third switch, a long press at the two-hundredth.  The four branches share *)
(* no state but the port they read.                                         *)
(***************************************************************************)
EXTENDS Naturals

CONSTANTS PressAt, LongAt, Cap,  \* 5, 200, 250
          Byte                   \* 256: keyCnt is an unsigned char

ASSUME KeyAssumption ==
  /\ PressAt \in Nat /\ LongAt \in Nat /\ Cap \in Nat /\ Byte \in Nat
  /\ 0 < PressAt /\ PressAt < LongAt /\ LongAt < Cap /\ Cap + 1 < Byte

VARIABLES third,   \* this is the branch of the third switch (never changes)
          closed,  \* the contact; it bounces
          keyCnt, keyIn

keyVars == <<third, closed, keyCnt, keyIn>>

KeyInit == third \in BOOLEAN /\ closed = FALSE /\ keyCnt = 0 /\ keyIn = 0

Contact == closed' = ~closed /\ UNCHANGED <<third, keyCnt, keyIn>>

\* Mutant: the count is not held at the cap.
CountOn == (keyCnt + 1) % Byte

\* if(++keyCnt>250) keyCnt=250
Count == LET up == (keyCnt + 1) % Byte IN IF up > Cap THEN Cap ELSE up

ScanSwitch ==
  /\ keyCnt' = IF closed THEN Count ELSE 0
  /\ keyIn' = CASE closed /\ keyCnt' = PressAt -> 1
                [] closed /\ keyCnt' = LongAt /\ third -> 3
                [] OTHER -> keyIn
  /\ UNCHANGED <<third, closed>>

\* loop() takes the event.
Take == keyIn' = 0 /\ UNCHANGED <<third, closed, keyCnt>>

KeyNext == Contact \/ ScanSwitch \/ Take

KeySpec == KeyInit /\ [][KeyNext]_keyVars
-----------------------------------------------------------------------------
KeyTypeOK == third \in BOOLEAN /\ closed \in BOOLEAN /\ keyCnt \in 0..Cap /\ keyIn \in {0, 1, 3}

Stage == IF keyCnt < PressAt THEN "nothing"
         ELSE IF third /\ keyCnt >= LongAt THEN "long" ELSE "press"

Events == INSTANCE SwitchEvents WITH long <- third, event <- keyIn, stage <- Stage

\* However long a switch is held, and however it bounces, loop() is told of
\* one press and at most one long press: the byte that counts never comes
\* round to the fifth count again, and never skips it.
SwitchesAreEvents == Events!Spec
=============================================================================
