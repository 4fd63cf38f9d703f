---------------------------- MODULE StatementBook ----------------------------
(***************************************************************************)
(* Reconciliation as it should look to those who do it together: each      *)
(* command takes effect at one moment, on the books of that moment.  A     *)
(* match is made where there is room for it, a session advances while its  *)
(* matches explain its statement, and between these what the bank tells is *)
(* written down and the ledger goes on.                                    *)
(***************************************************************************)
EXTENDS Functions, Integers, Sequences

CONSTANTS
  Sessions,
  From,          \* the status a session advances from, by the one it gets
  Observations, AccountOf,
  Lines, LinePeriod, LineAmount, CashLines,
  Keys, Amounts

VARIABLES
  record,        \* record[o]: what the bank told of o, one after another
  posted,        \* lines in the books
  status,        \* of each session
  matched        \* matches that stand

bookVars == <<record, posted, status, matched>>

Newest(o) == record[o][Len(record[o])]
Due(s) ==
  {o \in Observations :
     /\ AccountOf[o] = s.account /\ record[o] # <<>>
     /\ Newest(o).period = s.period /\ Newest(o).status = "POSTED"}

Of(s) == {a \in matched : a.session = s}
Counted == {a \in matched : status[a.session] # "VOIDED"}
OnVersion(S, o, n) == {a \in S : a.observation = o /\ a.number = n}
OnLine(S, l) == {a \in S : a.line = l}
Total(S) == SumFunction([a \in S |-> a.amount])
Size(i) == IF i < 0 THEN -i ELSE i

BookInit ==
  /\ record = [o \in Observations |-> <<>>]
  /\ posted = {}
  /\ status = [s \in Sessions |-> "NONE"]
  /\ matched = {}

(* What was written down stays.                                            *)
Grows ==
  \A o \in Observations : \A n \in DOMAIN record[o] :
    n \in DOMAIN record'[o] /\ record'[o][n] = record[o][n]

Learn == Grows /\ UNCHANGED <<posted, status, matched>>

(* The ledger keeps the lines that are matched.                            *)
Books ==
  /\ \A a \in matched : a.line \in posted => a.line \in posted'
  /\ UNCHANGED <<record, status, matched>>

(* The first session of an account, or the one after the last.             *)
Started == {s \in Sessions : status[s] \notin {"NONE", "VOIDED"}}
Chain(s) == {p \in Started : p.account = s.account}
Open(s) ==
  /\ status[s] = "NONE"
  /\ \A p \in Chain(s) : p.period < s.period
  /\ Chain(s) # {} =>
       \E p \in Chain(s) : /\ status[p] = "FINALIZED"
                         /\ p.period + 1 = s.period /\ p.closing = s.opening
  /\ status' = [status EXCEPT ![s] = "DRAFT"]
  /\ Grows
  /\ UNCHANGED <<posted, matched>>

Match(s, k, o, l, i) ==
  LET n == Len(record[o])
  IN /\ status[s] = "DRAFT"
     /\ \A a \in matched : a.key # k
     /\ o \in Due(s) /\ l \in CashLines[s.account] /\ LinePeriod[l] = s.period
     /\ 0 < i
     /\ i + Total(OnVersion(Counted, o, n)) <= Size(Newest(o).amount)
     /\ i + Total(OnLine(Counted, l)) <= Size(LineAmount[l])
     /\ matched' = matched \cup
          {[key |-> k, session |-> s, observation |-> o, number |-> n,
            line |-> l, amount |-> i]}
     /\ UNCHANGED <<record, posted, status>>

Unmatch(a) ==
  /\ status[a.session] = "DRAFT"
  /\ matched' = matched \ {a}
  /\ UNCHANGED <<record, posted, status>>

(* The matches of a session are posted lines and newest versions, which    *)
(* they match in full and which make up the movement of the statement.     *)
Explained(s) ==
  /\ \A a \in Of(s) : /\ a.line \in posted /\ a.observation \in Due(s)
                      /\ a.number = Len(record[a.observation])
  /\ \A o \in Due(s) :
       Total(OnVersion(Of(s), o, Len(record[o]))) = Size(Newest(o).amount)
  /\ s.closing - s.opening = SumFunction([o \in Due(s) |-> Newest(o).amount])

Advance(s, t) ==
  /\ status[s] = From[t]
  /\ Explained(s)
  /\ status' = [status EXCEPT ![s] = t]
  /\ UNCHANGED <<record, posted, matched>>

GiveUp(s) ==
  /\ status[s] \in {From[t] : t \in DOMAIN From}
  /\ status' = [status EXCEPT ![s] = "VOIDED"]
  /\ UNCHANGED <<record, posted, matched>>

BookNext ==
  \/ Learn \/ Books
  \/ \E s \in Sessions : Open(s) \/ GiveUp(s)
  \/ \E s \in Sessions, k \in Keys, o \in Observations, l \in Lines, i \in Amounts :
       Match(s, k, o, l, i)
  \/ \E a \in matched : Unmatch(a)
  \/ \E s \in Sessions, t \in DOMAIN From : Advance(s, t)

Spec == BookInit /\ [][BookNext]_bookVars
=============================================================================
