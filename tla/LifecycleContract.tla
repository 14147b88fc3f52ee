-------------------------- MODULE LifecycleContract --------------------------
(***************************************************************************)
(* What a position promises to its owner, whoever manages it: the shared   *)
(* paper/live lifecycle contract, without prices, orders or storage.       *)
(*                                                                         *)
(* A trade of a symbol opens with Size units and a stop on the losing      *)
(* side.  While it is open the stop only moves towards profit, and units   *)
(* only leave it level by level: level 1 before level 2, each a fraction   *)
(* of the initial size.  Everything that remains leaves at once when the   *)
(* trade closes.                                                           *)
(***************************************************************************)
EXTENDS Integers

CONSTANTS
  Symbols,
  Size,        \* units of a new trade
  Fraction1,   \* units that leave at the first level
  Fraction2    \* units that leave at the second level

VARIABLES
  remaining,   \* units of each symbol still open, 0 when the symbol is flat
  levels,      \* the partial levels taken
  stop         \* gain at which the rest is closed; 0 when flat

contractVars == <<remaining, levels, stop>>

UnitsOf(taken) == (IF 1 \in taken THEN Fraction1 ELSE 0)
                + (IF 2 \in taken THEN Fraction2 ELSE 0)

InOrder(taken) == taken \in {{}, {1}, {1, 2}}

Flat(s) == remaining[s] = 0

Init ==
  /\ remaining = [s \in Symbols |-> 0]
  /\ levels = [s \in Symbols |-> {}]
  /\ stop = [s \in Symbols |-> 0]

Open(s) ==
  /\ Flat(s)
  /\ remaining' = [remaining EXCEPT ![s] = Size]
  /\ stop'[s] \in Int /\ stop'[s] < 0
  /\ stop' = [stop EXCEPT ![s] = stop'[s]]
  /\ UNCHANGED levels

\* The manager tightens the stop and takes levels that were not taken yet.
Manage(s) ==
  /\ ~Flat(s)
  /\ \E taken \in {{}, {1}, {1, 2}} :
       /\ levels[s] \subseteq taken
       /\ levels' = [levels EXCEPT ![s] = taken]
       /\ remaining' = [remaining EXCEPT ![s] = Size - UnitsOf(taken)]
  /\ stop'[s] \in Int /\ stop'[s] >= stop[s]
  /\ stop' = [stop EXCEPT ![s] = stop'[s]]

Close(s) ==
  /\ ~Flat(s)
  /\ remaining' = [remaining EXCEPT ![s] = 0]
  /\ levels' = [levels EXCEPT ![s] = {}]
  /\ stop' = [stop EXCEPT ![s] = 0]

Next == \E s \in Symbols : Open(s) \/ Manage(s) \/ Close(s)

Spec == Init /\ [][Next]_contractVars

=============================================================================
