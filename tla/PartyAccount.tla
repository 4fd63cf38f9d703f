---------------------------- MODULE PartyAccount ----------------------------
(***************************************************************************)
(* The account of a party as settlements should appear on it: an item is   *)
(* opened once with its amount; a settlement takes from several items at   *)
(* once, never more than is open, and is taken back at once or not at all; *)
(* and an item that no settlement holds may be closed for good.            *)
(***************************************************************************)
EXTENDS Integers

CONSTANTS Items, Settlements

VARIABLES
  original,   \* amount of an item, 0 before it is opened
  open,       \* what is open of it
  closed,     \* items closed for good
  claims,     \* claims[s]: what the settlement s holds of each of its items
  spent       \* settlements that were made, taken back or not

accountVars == <<original, open, closed, claims, spent>>

Nothing == [i \in {} |-> 0]
Held(s, i) == IF i \in DOMAIN claims[s] THEN claims[s][i] ELSE 0

AccountInit ==
  /\ original = [i \in Items |-> 0] /\ open = [i \in Items |-> 0]
  /\ closed = {}
  /\ claims = [s \in Settlements |-> Nothing] /\ spent = {}

Open(i) ==
  /\ original[i] = 0 /\ original'[i] \in Nat \ {0}
  /\ original' = [original EXCEPT ![i] = original'[i]]
  /\ open' = [open EXCEPT ![i] = original'[i]]
  /\ UNCHANGED <<closed, claims, spent>>

Settle(s, takes) ==
  /\ s \notin spent
  /\ \A i \in DOMAIN takes : i \notin closed /\ takes[i] \in 1..open[i]
  /\ open' = [i \in Items |->
                open[i] - (IF i \in DOMAIN takes THEN takes[i] ELSE 0)]
  /\ claims' = [claims EXCEPT ![s] = takes]
  /\ spent' = spent \cup {s}
  /\ UNCHANGED <<original, closed>>

TakeBack(s) ==
  /\ claims[s] # Nothing
  /\ open' = [i \in Items |-> open[i] + Held(s, i)]
  /\ claims' = [claims EXCEPT ![s] = Nothing]
  /\ UNCHANGED <<original, closed, spent>>

Close(i) ==
  /\ original[i] # 0 /\ open[i] = original[i]
  /\ \A s \in Settlements : i \notin DOMAIN claims[s]
  /\ closed' = closed \cup {i}
  /\ UNCHANGED <<original, open, claims, spent>>

AccountNext ==
  \/ \E i \in Items : Open(i)
  \/ \E s \in Settlements, D \in (SUBSET Items) \ {{}} :
       \E takes \in [D -> UNION {1..open[i] : i \in D}] : Settle(s, takes)
  \/ \E s \in Settlements : TakeBack(s)
  \/ \E i \in Items : Close(i)

Spec == AccountInit /\ [][AccountNext]_accountVars
=============================================================================
