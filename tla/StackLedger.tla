----------------------------- MODULE StackLedger -----------------------------
(***************************************************************************)
(* What the collector's reports amount to for whoever reads them in order:  *)
(* a stack of weights with its balance.  An insertion pushes a weight, a    *)
(* removal pops the newest one whichever bottle was taken, and a power      *)
(* failure forgets them all.                                                *)
(***************************************************************************)
EXTENDS Integers, Sequences

CONSTANT Capacity   \* the number of slots

VARIABLES stack, balance

ledger == <<stack, balance>>

LedgerInit == stack = <<>> /\ balance = 0

Deposit ==
  /\ Len(stack) < Capacity
  /\ balance' \in Int
  /\ stack' = Append(stack, balance' - balance)

Withdraw ==
  /\ stack # <<>>
  /\ stack' = SubSeq(stack, 1, Len(stack) - 1)
  /\ balance' = balance - stack[Len(stack)]

Forget == stack' = <<>> /\ balance' = 0

LedgerNext == Deposit \/ Withdraw \/ Forget

LedgerSpec == LedgerInit /\ [][LedgerNext]_ledger
=============================================================================
