---------------------------- MODULE PaperAccount ----------------------------
(* What the paper ledger promises the services that share it: a long-only  *)
(* stock account.  Each order changes the holding of one symbol at most    *)
(* once, by the quantity it filled, and nothing is sold that is not held.  *)
EXTENDS Integers

CONSTANTS Symbols, OrderIds, Quantities

VARIABLES
  holding,   \* shares held of each symbol
  filled     \* the orders that have been filled

accountVars == <<holding, filled>>

AccountInit ==
  /\ holding = [s \in Symbols |-> 0]
  /\ filled = {}

(* An order is filled once.                                                *)
Fills(o) == o \notin filled /\ filled' = filled \cup {o}

Buys(s, q) == holding' = [holding EXCEPT ![s] = holding[s] + q]

Sells(s, q) ==
  /\ q <= holding[s]
  /\ holding' = [holding EXCEPT ![s] = holding[s] - q]

AccountNext ==
  \E o \in OrderIds :
    /\ Fills(o)
    /\ \E s \in Symbols, q \in Quantities : Buys(s, q) \/ Sells(s, q)

AccountSpec == AccountInit /\ [][AccountNext]_accountVars
=============================================================================
