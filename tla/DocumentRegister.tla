-------------------------- MODULE DocumentRegister --------------------------
(***************************************************************************)
(* The inbox as those who keep it see it: a register with one entry for    *)
(* each document.  Somebody is shown a document and enters it as it was    *)
(* shown, unless the same original is in the register; the entry is        *)
(* never changed, and at some point the document is put away for good.     *)
(***************************************************************************)
CONSTANTS Documents, Readers, Contents, Actions, Invoices, Nothing

VARIABLES
  entry,   \* entry[d], for d in the register: action, content, key
  away,    \* documents that are put away
  shown    \* shown[r][d]: the content of d that r was shown last

registerVars == <<entry, away, shown>>

Entered == DOMAIN entry

(* Records of one original: made of the same content, or new ones under    *)
(* the same business key.                                                  *)
Recording == {"CREATE", "LINK_POSTED"}
Twins(e, g) ==
  /\ e.action \in Recording /\ g.action \in Recording
  /\ e.content = g.content \/ (e.action = "CREATE" /\ g.action = "CREATE" /\ e.key = g.key)

(* Only a new record has a business key.                                   *)
KeysFor(action) == IF action = "CREATE" THEN Invoices ELSE {Nothing}
Fresh(r, d, action, key) == [action |-> action, content |-> shown[r][d], key |-> key]

RegisterInit ==
  /\ entry = [d \in {} |-> Nothing] /\ away = {}
  /\ shown = [r \in Readers |-> [d \in Documents |-> Nothing]]

Show(r, d, content) ==
  /\ d \notin Entered
  /\ shown' = [shown EXCEPT ![r][d] = content]
  /\ UNCHANGED <<entry, away>>

(* What was shown of a document that is entered has served its purpose.    *)
Enter(r, d, action, key) ==
  /\ d \notin Entered /\ shown[r][d] # Nothing
  /\ \A e \in Entered : ~Twins(entry[e], Fresh(r, d, action, key))
  /\ entry' = [e \in Entered \cup {d} |->
                 IF e = d THEN Fresh(r, d, action, key) ELSE entry[e]]
  /\ shown' = [s \in Readers |-> [shown[s] EXCEPT ![d] = Nothing]]
  /\ UNCHANGED away

PutAway(d) ==
  /\ d \in Entered \ away
  /\ away' = away \cup {d}
  /\ UNCHANGED <<entry, shown>>

RegisterNext ==
  \E d \in Documents :
    \/ PutAway(d)
    \/ \E r \in Readers, content \in Contents : Show(r, d, content)
    \/ \E r \in Readers, action \in Actions : \E key \in KeysFor(action) :
         Enter(r, d, action, key)

Spec == RegisterInit /\ [][RegisterNext]_registerVars
=============================================================================
