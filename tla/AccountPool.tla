---------------------------- MODULE AccountPool ----------------------------
(***************************************************************************)
(* What the nonce table of the load generator promises (spec 4.1): a      *)
(* per-account counter, seeded once, from which reservations take         *)
(* contiguous ranges that never overlap one another.  A dispatch reserves *)
(* ranges for several distinct accounts at once, so the reservation step  *)
(* takes a set of accounts.                                               *)
(*                                                                         *)
(*   nonce     the next unreserved nonce of each account                  *)
(*   reserved  every <<account, nonce>> handed out so far                 *)
(*   seeded    has seed() run                                             *)
(***************************************************************************)
EXTENDS Naturals

CONSTANTS
  Accounts,     \* the accounts of the pool
  MaxReserve    \* bound: the largest range one reservation takes

VARIABLES nonce, reserved, seeded

poolVars == <<nonce, reserved, seeded>>

NonceRange(a, from, k) == {<<a, n>> : n \in from..(from + k - 1)}

Init ==
  /\ nonce = [a \in Accounts |-> 0]
  /\ reserved = {}
  /\ seeded = FALSE

Seed ==
  /\ ~seeded
  /\ seeded' = TRUE
  /\ nonce' \in [Accounts -> Nat]
  /\ UNCHANGED reserved

(* Every account of S takes the k nonces that follow its counter; none of *)
(* them was handed out before.                                            *)
Reserve(S, k) ==
  /\ seeded
  /\ \A a \in S : NonceRange(a, nonce[a], k) \cap reserved = {}
  /\ reserved' = reserved \cup UNION {NonceRange(a, nonce[a], k) : a \in S}
  /\ nonce' = [a \in Accounts |-> IF a \in S THEN nonce[a] + k ELSE nonce[a]]
  /\ UNCHANGED seeded

Next == Seed \/ \E S \in SUBSET Accounts, k \in 0..MaxReserve : Reserve(S, k)

Spec == Init /\ [][Next]_poolVars
=============================================================================
