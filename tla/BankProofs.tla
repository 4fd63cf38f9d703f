---------------------------- MODULE BankProofs ----------------------------
(***************************************************************************)
(* What holds of BankReconciliation for any number of accounts, sessions,  *)
(* observations, lines, runs and clients.  EInv is inductive for the       *)
(* evidence: a running run has the newest reply.  SInv is inductive for    *)
(* the sessions: what a transition has proved (Proved) stays true until it *)
(* commits, because the locks keep its session and evidence (OnePerAccount *)
(* and IngestionAlone).  AInv is inductive on top of these for the amounts:*)
(* there is room for a planned match until it commits (Room), and what     *)
(* explains a session's statement does so from its proof on.  RInv is what *)
(* open transactions have read, for the refinement of StatementBook.       *)
(***************************************************************************)
EXTENDS BankReconciliation, FiniteSums

EvidenceTyped ==
  /\ shown \in [Feed -> Nat] /\ \A o \in Feed : shown[o] <= Len(Shown[o])
  /\ run \in [Runs -> {"NONE", "RUNNING", "SUCCEEDED", "FAILED"}]
  /\ reply \in [Runs -> [Feed -> Nat] \cup {Null}]
  /\ ingesting \subseteq Runs
  /\ versions \in [Observations -> Seq(Nat)]

(* Runs and their replies.                                                 *)
Fetched ==
  \A r \in Runs :
    /\ r \in ingesting => reply[r] # Null
    /\ run[r] = "NONE" => reply[r] = Null
    /\ reply[r] # Null => \A o \in Feed : reply[r][o] <= shown[o]
OneRunning == \A q, r \in Runs : run[q] = "RUNNING" /\ run[r] = "RUNNING" => q = r
OneIngesting == Feed # {} => \A q, r \in ingesting : q = r

(* A run that may still ingest has a reply at least as new as every        *)
(* version, and no newer than the reply of the run that replaced it.       *)
Ahead ==
  /\ \A o \in Feed : \A n \in 1..Latest(o) : versions[o][n] <= shown[o]
  /\ \A r \in Runs : reply[r] # Null /\ (run[r] = "RUNNING" \/ r \in ingesting) =>
       \A o \in Feed : \A n \in 1..Latest(o) : versions[o][n] <= reply[r][o]
Succession ==
  \A q, r \in Runs : q # r /\ q \in ingesting /\ run[r] = "RUNNING" /\ reply[r] # Null =>
    \A o \in Feed : reply[q][o] <= reply[r][o]
ImportedOnce == \A o \in Imported : \A n \in 1..Latest(o) : n = 1 /\ versions[o][n] = 1

EInv ==
  /\ EvidenceTyped /\ Fetched /\ OneRunning /\ OneIngesting
  /\ Ahead /\ Succession /\ ImportedOnce /\ InBankOrder

SessionTyped ==
  /\ posted \subseteq Lines
  /\ status \in [Sessions -> {"NONE", "DRAFT", "SUBMITTED", "REVIEWED",
                              "FINALIZED", "VOIDED"}]
  /\ allocations \subseteq Allocation /\ voided \subseteq Keys
  /\ holds \in [Clients -> Sessions \cup {Null}]
  /\ target \in [Clients -> DOMAIN From \cup {Null}]
  /\ plan \in [Clients -> Allocation \cup {Null}]

OnePerAccount ==
  \A c, d \in Clients : c # d /\ holds[c] # Null /\ holds[d] # Null =>
    holds[c].account # holds[d].account
IngestionAlone ==
  \A c \in Clients : holds[c] # Null /\ holds[c].account \in Fed => ingesting = {}

(* What the open transaction of a client is about to do.                   *)
Prepared ==
  \A c \in Clients :
    /\ plan[c] # Null => /\ holds[c] \in Sessions /\ plan[c].session = holds[c]
                         /\ status[holds[c]] = "DRAFT" /\ target[c] = Null
    /\ target[c] # Null => holds[c] \in Sessions /\ status[holds[c]] = From[target[c]]
KeysUnique ==
  /\ \A a, b \in allocations : a.key = b.key => a = b
  /\ \A c \in Clients : plan[c] # Null =>
       /\ \A a \in allocations : a.key # plan[c].key
       /\ \A d \in Clients \ {c} : plan[d] # Null => plan[d].key # plan[c].key

(* What a transition has proved of its session.                            *)
OnNewest(s) ==
  \A a \in Live(s) :
    AccountOf[a.observation] = s.account /\ a.number = Latest(a.observation)
OnPosted(s) == \A a \in Live(s) : a.line \in posted /\ a.line \in CashLines[s.account]
Proved ==
  \A c \in Clients : target[c] # Null =>
    ObservationsMatched(holds[c]) /\ OnNewest(holds[c]) /\ OnPosted(holds[c])

SInv ==
  /\ SessionTyped /\ OnePerAccount /\ IngestionAlone /\ Prepared /\ KeysUnique
  /\ Proved /\ FinalizedLinesPosted /\ Chained
IInv == EInv /\ SInv

-----------------------------------------------------------------------------
(* Helpers about the evidence.                                             *)

(* Evidence nothing has touched.                                           *)
LEMMA EvidenceStays ==
  ASSUME EInv, UNCHANGED evidence
  PROVE  EInv'
  BY DEF EInv, evidence, EvidenceTyped, Fetched, OneRunning, OneIngesting, Ahead,
     Succession, ImportedOnce, InBankOrder, Latest, Known, Facts

(* Versions stay, and the rest of what the order rests on.                 *)
LEMMA VersionsStay ==
  ASSUME ImportedOnce, InBankOrder, versions' = versions
  PROVE  ImportedOnce' /\ InBankOrder'
  BY DEF ImportedOnce, InBankOrder, Latest

(* An extended sequence of versions: the old ones, and perhaps a last one. *)
LEMMA Extension ==
  ASSUME EvidenceTyped, NEW o \in Observations, NEW i \in Nat,
         \A n \in 1..Latest(o) : versions[o][n] <= i,
         \A m, n \in 1..Latest(o) : m < n => versions[o][m] < versions[o][n]
  PROVE  /\ Extended(o, i) \in Seq(Nat)
         /\ \A n \in 1..Len(Extended(o, i)) : Extended(o, i)[n] <= i
         /\ \A m, n \in 1..Len(Extended(o, i)) :
              m < n => Extended(o, i)[m] < Extended(o, i)[n]
<1> DEFINE v == versions[o]
<1>1. v \in Seq(Nat)
  BY DEF EvidenceTyped
<1>2. CASE i = 0 \/ Known(o, i)
  BY <1>1, <1>2 DEF Extended, Latest
<1>3. CASE ~(i = 0 \/ Known(o, i))
  <2>1. Extended(o, i) = Append(v, i)
    BY <1>3 DEF Extended
  <2>2. \A n \in 1..Len(v) : v[n] # i
    BY <1>1, <1>3 DEF Known, Facts
  <2>3. \A n \in 1..Len(v) : v[n] \in Nat /\ v[n] < i
    <3> TAKE n \in 1..Len(v)
    <3>1. v[n] \in Nat /\ v[n] <= i /\ v[n] # i
      BY <1>1, <2>2 DEF Latest
    <3> QED BY <3>1
  <2>4. /\ Append(v, i) \in Seq(Nat) /\ Len(Append(v, i)) = Len(v) + 1
        /\ Append(v, i)[Len(v) + 1] = i
        /\ \A n \in 1..Len(v) : Append(v, i)[n] = v[n]
    BY <1>1
  <2>5. \A m, n \in 1..Len(v) : m < n => v[m] < v[n]
    BY DEF Latest
  <2> HIDE DEF v
  <2> QED
    BY <1>1, <2>1, <2>3, <2>4, <2>5
<1> QED
  BY <1>2, <1>3

(* Rows of a file have one version.                                        *)
LEMMA ImportExtension ==
  ASSUME EvidenceTyped, ImportedOnce, NEW o \in Imported
  PROVE  /\ Extended(o, 1) \in Seq(Nat)
         /\ \A n \in 1..Len(Extended(o, 1)) : n = 1 /\ Extended(o, 1)[n] = 1
<1> DEFINE v == versions[o]
<1>0. o \in Observations
  BY AccountAssumption
<1>1. v \in Seq(Nat) /\ \A n \in 1..Len(v) : n = 1 /\ v[n] = 1
  BY <1>0 DEF EvidenceTyped, ImportedOnce, Latest
<1>2. CASE Known(o, 1)
  BY <1>1, <1>2 DEF Extended
<1>3. CASE ~Known(o, 1)
  <2>1. Len(v) = 0
    <3>1. SUFFICES ASSUME Len(v) # 0 PROVE FALSE
      OBVIOUS
    <3>2. 1 \in DOMAIN v /\ v[1] = 1
      BY <1>1, <3>1
    <3> QED BY <1>3, <3>2 DEF Known, Facts
  <2>2. Extended(o, 1) = Append(v, 1)
    BY <1>3 DEF Extended
  <2>3. /\ Append(v, 1) \in Seq(Nat) /\ Len(Append(v, 1)) = Len(v) + 1
        /\ Append(v, 1)[Len(v) + 1] = 1
    BY <1>1
  <2> HIDE DEF v
  <2> QED
    BY <2>1, <2>2, <2>3
<1> QED
  BY <1>2, <1>3

-----------------------------------------------------------------------------
(* The steps that change the evidence.                                     *)

LEMMA ShowEvidence ==
  ASSUME EInv, NEW o \in Feed, Show(o)
  PROVE  EInv'
<1>0. /\ EvidenceTyped /\ Fetched /\ Ahead /\ Show(o)
      /\ UNCHANGED <<run, reply, ingesting, versions>>
  BY DEF EInv, Show
<1>1. /\ shown' \in [Feed -> Nat] /\ \A p \in Feed : shown[p] <= shown'[p]
      /\ \A p \in Feed : shown'[p] <= Len(Shown[p])
  <2>1. Shown[o] \in Seq(Content)
    BY ShownAssumption DEF Feed
  <2> QED
    BY <1>0, <2>1 DEF EvidenceTyped, Show
<1>2. EvidenceTyped'
  BY <1>0, <1>1 DEF EvidenceTyped
<1>3. Fetched'
  <2> SUFFICES ASSUME NEW r \in Runs, reply[r] # Null, NEW p \in Feed
               PROVE  reply[r][p] <= shown'[p]
    BY <1>0 DEF Fetched
  <2>1. reply[r][p] \in Nat /\ shown[p] \in Nat /\ shown'[p] \in Nat
    BY <1>0, <1>1 DEF EvidenceTyped
  <2>2. reply[r][p] <= shown[p] /\ shown[p] <= shown'[p]
    BY <1>0, <1>1 DEF Fetched
  <2> QED BY <2>1, <2>2
<1>4. Ahead'
  <2> SUFFICES ASSUME NEW p \in Feed, NEW n \in 1..Latest(p)
               PROVE  versions[p][n] <= shown'[p]
    BY <1>0 DEF Ahead, Latest
  <2>1. versions[p][n] \in Nat /\ shown[p] \in Nat /\ shown'[p] \in Nat
    BY <1>0, <1>1 DEF EvidenceTyped, Latest, Feed
  <2>2. versions[p][n] <= shown[p] /\ shown[p] <= shown'[p]
    BY <1>0, <1>1 DEF Ahead
  <2> QED BY <2>1, <2>2
<1>5. OneRunning' /\ OneIngesting' /\ Succession' /\ ImportedOnce' /\ InBankOrder'
  BY <1>0, VersionsStay DEF EInv, OneRunning, OneIngesting, Succession
<1> QED
  BY <1>2, <1>3, <1>4, <1>5 DEF EInv

LEMMA BeginSyncEvidence ==
  ASSUME EInv, NEW r \in Runs, BeginSync(r)
  PROVE  EInv'
<1>0. /\ EvidenceTyped /\ Fetched /\ Ahead /\ Succession
      /\ run[r] = "NONE" /\ UNCHANGED <<shown, reply, ingesting, versions>>
  BY DEF EInv, BeginSync
<1>1. /\ run' \in [Runs -> {"NONE", "RUNNING", "SUCCEEDED", "FAILED"}]
      /\ \A q \in Runs : run'[q] = "RUNNING" => q = r
      /\ \A q \in Runs : run'[q] = "NONE" => run[q] = "NONE"
  BY <1>0 DEF EvidenceTyped, BeginSync
<1>2. EvidenceTyped' /\ OneRunning'
  BY <1>0, <1>1 DEF EvidenceTyped, OneRunning
<1>3. Fetched'
  BY <1>0, <1>1 DEF Fetched
<1>4. Ahead' /\ Succession'
  <2>1. reply[r] = Null
    BY <1>0 DEF Fetched
  <2> QED
    BY <1>0, <1>1, <2>1 DEF Ahead, Succession, Latest
<1>5. OneIngesting' /\ ImportedOnce' /\ InBankOrder'
  BY <1>0, VersionsStay DEF EInv, OneIngesting
<1> QED
  BY <1>2, <1>3, <1>4, <1>5 DEF EInv

LEMMA FetchEvidence ==
  ASSUME EInv, NEW r \in Runs, Fetch(r)
  PROVE  EInv'
<1>0. /\ EvidenceTyped /\ Fetched /\ Ahead /\ OneRunning /\ Succession
      /\ run[r] = "RUNNING" /\ reply' = [reply EXCEPT ![r] = shown]
      /\ UNCHANGED <<shown, run, ingesting, versions>>
  BY DEF EInv, Fetch
<1>1. /\ reply'[r] = shown /\ \A q \in Runs \ {r} : reply'[q] = reply[q]
      /\ shown \in [Feed -> Nat] /\ shown # Null
      /\ \A o \in Feed : shown[o] <= shown[o]
  BY <1>0, NullAssumption DEF EvidenceTyped, Feed
<1>2. EvidenceTyped' /\ OneRunning'
  BY <1>0 DEF EvidenceTyped, OneRunning
<1>3. Fetched'
  BY <1>0, <1>1 DEF Fetched
<1>4. Ahead'
  BY <1>0, <1>1 DEF Ahead, Latest
<1>5. Succession'
  <2> SUFFICES ASSUME NEW q \in Runs, NEW p \in Runs, q # p, q \in ingesting,
                      run[p] = "RUNNING", NEW o \in Feed
               PROVE  reply'[q][o] <= reply'[p][o]
    BY <1>0 DEF Succession
  <2>1. p = r
    BY <1>0 DEF OneRunning
  <2>2. reply[q] # Null /\ reply[q][o] <= shown[o]
    BY <1>0 DEF Fetched
  <2> QED BY <1>1, <2>1, <2>2
<1>6. OneIngesting' /\ ImportedOnce' /\ InBankOrder'
  BY <1>0, VersionsStay DEF EInv, OneIngesting
<1> QED
  BY <1>2, <1>3, <1>4, <1>5, <1>6 DEF EInv

LEMMA IngestEvidence ==
  ASSUME EInv, NEW r \in Runs, Ingest(r)
  PROVE  EInv'
<1>0. /\ EvidenceTyped /\ Fetched /\ Ahead /\ OneRunning /\ OneIngesting
      /\ reply[r] # Null /\ run[r] = "RUNNING" /\ ingesting' = ingesting \cup {r}
      /\ UNCHANGED <<shown, run, reply, versions>>
  BY DEF EInv, Ingest, Lineage
<1>1. EvidenceTyped' /\ OneRunning'
  BY <1>0 DEF EvidenceTyped, OneRunning
<1>2. Fetched'
  BY <1>0 DEF Fetched
<1>3. OneIngesting'
  <2>1. Feed # {} => ingesting = {}
    BY AccountAssumption DEF Ingest, EvidenceFree, Feed
  <2> QED BY <1>0, <2>1 DEF OneIngesting
<1>4. Ahead'
  BY <1>0 DEF Ahead, Latest
<1>5. Succession'
  <2>1. Feed # {} => ingesting = {}
    BY AccountAssumption DEF Ingest, EvidenceFree, Feed
  <2> QED
    BY <1>0, <2>1 DEF Succession, OneRunning
<1>6. ImportedOnce' /\ InBankOrder'
  BY <1>0, VersionsStay DEF EInv
<1> QED
  BY <1>1, <1>2, <1>3, <1>4, <1>5, <1>6 DEF EInv

LEMMA FailSyncEvidence ==
  ASSUME EInv, NEW r \in Runs, FailSync(r)
  PROVE  EInv'
<1>0. /\ EvidenceTyped /\ Fetched /\ Ahead /\ OneRunning /\ OneIngesting /\ Succession
      /\ ingesting' = ingesting \ {r} /\ UNCHANGED <<shown, versions>>
  BY DEF EInv, FailSync
<1>1. /\ run' \in [Runs -> {"NONE", "RUNNING", "SUCCEEDED", "FAILED"}]
      /\ \A q \in Runs \ {r} : run'[q] = run[q] /\ reply'[q] = reply[q]
      /\ run'[r] # "RUNNING" /\ reply'[r] = Null
      /\ run'[r] = "NONE" => run[r] = "NONE"
      /\ reply' \in [Runs -> [Feed -> Nat] \cup {Null}]
  BY <1>0 DEF EvidenceTyped, FailSync
<1>2. EvidenceTyped' /\ OneRunning' /\ OneIngesting'
  BY <1>0, <1>1 DEF EvidenceTyped, OneRunning, OneIngesting
<1>3. Fetched'
  BY <1>0, <1>1 DEF Fetched
<1>4. Ahead' /\ Succession'
  BY <1>0, <1>1 DEF Ahead, Succession, Latest
<1>5. ImportedOnce' /\ InBankOrder'
  BY <1>0, VersionsStay DEF EInv
<1> QED
  BY <1>2, <1>3, <1>4, <1>5 DEF EInv

LEMMA CommitIngestEvidence ==
  ASSUME EInv, NEW r \in Runs, CommitIngest(r)
  PROVE  EInv'
<1>0. /\ EvidenceTyped /\ Fetched /\ Ahead /\ OneRunning /\ OneIngesting /\ Succession
      /\ ImportedOnce /\ InBankOrder
      /\ r \in ingesting /\ reply[r] # Null /\ reply[r] \in [Feed -> Nat]
      /\ ingesting' = ingesting \ {r} /\ UNCHANGED shown
  BY DEF EInv, CommitIngest, Fetched, EvidenceTyped
<1>1. /\ run' \in [Runs -> {"NONE", "RUNNING", "SUCCEEDED", "FAILED"}]
      /\ \A q \in Runs \ {r} : run'[q] = run[q] /\ reply'[q] = reply[q]
      /\ run'[r] # "RUNNING" /\ reply'[r] = Null
      /\ run'[r] = "NONE" => run[r] = "NONE"
      /\ reply' \in [Runs -> [Feed -> Nat] \cup {Null}]
  BY <1>0 DEF EvidenceTyped, CommitIngest
<1>2. /\ \A o \in Feed : versions'[o] = Extended(o, reply[r][o])
      /\ \A o \in Imported : versions'[o] = versions[o]
      /\ versions' = [o \in Observations |->
           IF o \in Feed THEN Extended(o, reply[r][o]) ELSE versions[o]]
  BY AccountAssumption DEF CommitIngest, Feed
<1>3. \A o \in Feed :
        /\ versions'[o] \in Seq(Nat)
        /\ \A n \in 1..Latest(o)' : versions'[o][n] <= reply[r][o]
        /\ \A m, n \in 1..Latest(o)' : m < n => versions'[o][m] < versions'[o][n]
  <2> TAKE o \in Feed
  <2>1. o \in Observations /\ reply[r][o] \in Nat
    BY <1>0 DEF Feed
  <2>2. \A n \in 1..Latest(o) : versions[o][n] <= reply[r][o]
    BY <1>0 DEF Ahead
  <2>3. \A m, n \in 1..Latest(o) : m < n => versions[o][m] < versions[o][n]
    BY <1>0, <2>1 DEF InBankOrder
  <2>4. versions'[o] = Extended(o, reply[r][o])
    BY <1>2
  <2> QED
    BY <1>0, <2>1, <2>2, <2>3, <2>4, Extension DEF Latest
<1>4. EvidenceTyped'
  <2>1. \A o \in Observations : versions'[o] \in Seq(Nat)
    BY <1>0, <1>2, <1>3 DEF EvidenceTyped, Feed
  <2>2. versions' \in [Observations -> Seq(Nat)]
    BY <1>2, <2>1
  <2> QED
    BY <1>0, <1>1, <2>2 DEF EvidenceTyped
<1>5. Fetched' /\ OneRunning' /\ OneIngesting' /\ Succession'
  BY <1>0, <1>1 DEF Fetched, OneRunning, OneIngesting, Succession
<1>6. Ahead'
  <2>1. \A o \in Feed : \A n \in 1..Latest(o)' : versions'[o][n] <= shown[o]
    <3> TAKE o \in Feed
    <3> TAKE n \in 1..Latest(o)'
    <3>1. /\ versions'[o][n] \in Nat /\ reply[r][o] \in Nat /\ shown[o] \in Nat
          /\ reply[r][o] <= shown[o] /\ versions'[o][n] <= reply[r][o]
      BY <1>0, <1>3 DEF EvidenceTyped, Fetched, Latest
    <3> QED BY <3>1
  <2>2. ASSUME NEW q \in Runs, reply'[q] # Null, run'[q] = "RUNNING" \/ q \in ingesting',
               NEW o \in Feed, NEW n \in 1..Latest(o)'
        PROVE  versions'[o][n] <= reply'[q][o]
    <3>1. q # r /\ reply'[q] = reply[q] /\ run[q] = "RUNNING" /\ reply[q] # Null
      BY <1>0, <1>1, <2>2 DEF OneIngesting
    <3>2. reply[r][o] <= reply[q][o]
      BY <1>0, <3>1 DEF Succession
    <3>3. /\ versions'[o][n] \in Nat /\ reply[r][o] \in Nat /\ reply[q][o] \in Nat
          /\ versions'[o][n] <= reply[r][o]
      BY <1>0, <1>3, <3>1 DEF EvidenceTyped, Latest
    <3> QED BY <3>1, <3>2, <3>3
  <2> QED
    BY <1>0, <2>1, <2>2 DEF Ahead
<1>7. ImportedOnce' /\ InBankOrder'
  <2>1. ImportedOnce'
    <3>1. \A o \in Imported : versions'[o] = versions[o]
      BY <1>2
    <3> QED
      BY <1>0, <3>1 DEF ImportedOnce, Latest
  <2>2. ASSUME NEW o \in Observations, NEW m \in 1..Latest(o)', NEW n \in 1..Latest(o)',
               m < n
        PROVE  versions'[o][m] < versions'[o][n]
    BY <1>2, <1>3, <1>0, <2>2 DEF InBankOrder, Feed, Latest
  <2> QED
    BY <2>1, <2>2 DEF InBankOrder
<1> QED
  BY <1>4, <1>5, <1>6, <1>7 DEF EInv

(* Both imports append the rows of an account and period.                  *)
LEMMA AppendRowsEvidence ==
  ASSUME EInv, NEW a, NEW p, AppendRows(a, p), UNCHANGED <<shown, run, reply, ingesting>>
  PROVE  EInv'
<1>0. EvidenceTyped /\ Fetched /\ Ahead /\ ImportedOnce /\ InBankOrder
  BY DEF EInv
<1>1. \A o \in Rows(a, p) : o \in Imported /\ versions'[o] = Extended(o, 1)
  BY AccountAssumption DEF Rows, AppendRows
<1>2. \A o \in Observations \ Rows(a, p) : versions'[o] = versions[o]
  BY DEF AppendRows
<1>3. \A o \in Feed : o \in Observations \ Rows(a, p)
  BY DEF Feed, Rows
<1>4. \A o \in Observations : versions'[o] \in Seq(Nat)
  BY <1>0, <1>1, <1>2, ImportExtension DEF EvidenceTyped
<1>5. EvidenceTyped'
  <2>1. versions' \in [Observations -> Seq(Nat)]
    BY <1>4 DEF AppendRows
  <2> QED
    BY <1>0, <2>1 DEF EvidenceTyped
<1>6. Fetched' /\ OneRunning' /\ OneIngesting' /\ Succession'
  BY <1>0 DEF EInv, Fetched, OneRunning, OneIngesting, Succession
<1>7. Ahead'
  BY <1>0, <1>2, <1>3 DEF Ahead, Latest
<1>8. ASSUME NEW o \in Imported, NEW n \in 1..Latest(o)'
      PROVE  n = 1 /\ versions'[o][n] = 1
  <2>1. CASE o \in Rows(a, p)
    BY <1>0, <1>1, <1>8, <2>1, ImportExtension DEF Latest
  <2>2. CASE o \notin Rows(a, p)
    BY <1>0, <1>2, <1>8, <2>2, AccountAssumption DEF ImportedOnce, Latest
  <2> QED BY <2>1, <2>2
<1>9. ASSUME NEW o \in Observations, NEW m \in 1..Latest(o)', NEW n \in 1..Latest(o)', m < n
      PROVE  versions'[o][m] < versions'[o][n]
  <2>1. CASE o \in Imported
    <3>1. m = 1 /\ n = 1
      BY <1>8, <2>1
    <3> QED BY <1>9, <3>1
  <2>2. CASE o \notin Imported
    BY <1>0, <1>2, <1>3, <1>9, <2>2 DEF InBankOrder, Latest, Feed
  <2> QED BY <2>1, <2>2
<1>10. ImportedOnce' /\ InBankOrder'
  BY <1>8, <1>9 DEF ImportedOnce, InBankOrder
<1> QED
  BY <1>5, <1>6, <1>7, <1>10 DEF EInv

LEMMA EvidenceInit ==
  ASSUME Init
  PROVE  EInv
<1>1. EvidenceTyped
  BY ShownAssumption, AccountAssumption DEF Init, EvidenceTyped, Feed
<1>2. \A o \in Observations : Latest(o) = 0
  BY DEF Init, Latest
<1>3. Ahead /\ ImportedOnce /\ InBankOrder
  BY <1>2, AccountAssumption DEF Init, Ahead, ImportedOnce, InBankOrder, Feed
<1> QED
  BY <1>1, <1>3 DEF EInv, Init, Fetched, OneRunning, OneIngesting, Succession

LEMMA EvidenceNext ==
  ASSUME EInv, [Next]_vars
  PROVE  EInv'
<1>1. ASSUME NEW o \in Feed, Show(o)
      PROVE  EInv'
  BY <1>1, ShowEvidence
<1>2. ASSUME NEW r \in Runs,
             BeginSync(r) \/ Fetch(r) \/ Ingest(r) \/ CommitIngest(r) \/ FailSync(r)
      PROVE  EInv'
  BY <1>2, BeginSyncEvidence, FetchEvidence, IngestEvidence, CommitIngestEvidence,
     FailSyncEvidence
<1>3. ASSUME NEW s \in Sessions, ImportStatement(s)
      PROVE  EInv'
  BY <1>3, AppendRowsEvidence DEF ImportStatement
<1>4. ASSUME NEW a \in Accounts, NEW p \in Periods, ImportTransactions(a, p)
      PROVE  EInv'
  BY <1>4, AppendRowsEvidence DEF ImportTransactions
<1>5. CASE UNCHANGED evidence
  BY <1>5, EvidenceStays
<1>6. ASSUME NEW l \in Lines, Post(l) \/ Unpost(l)
      PROVE  UNCHANGED evidence
  BY <1>6 DEF Post, Unpost
<1>7. ASSUME NEW s \in Sessions, Create(s) \/ Void(s)
      PROVE  UNCHANGED evidence
  BY <1>7 DEF Create, Void
<1>8. ASSUME NEW c \in Clients, NEW s \in Sessions, NEW k \in Keys,
             NEW o \in Observations, NEW l \in Lines, NEW i \in Amounts,
             BeginMatch(c, s, k, o, l, i)
      PROVE  UNCHANGED evidence
  BY <1>8 DEF BeginMatch
<1>9. ASSUME NEW c \in Clients, NEW s \in Sessions, NEW t \in DOMAIN From,
             BeginAdvance(c, s, t)
      PROVE  UNCHANGED evidence
  BY <1>9 DEF BeginAdvance
<1>10. ASSUME NEW c \in Clients, CommitMatch(c) \/ CommitAdvance(c) \/ Abort(c)
       PROVE  UNCHANGED evidence
  BY <1>10 DEF CommitMatch, CommitAdvance, Abort
<1>11. ASSUME NEW a \in allocations, VoidMatch(a)
       PROVE  UNCHANGED evidence
  BY <1>11 DEF VoidMatch
<1>12. CASE UNCHANGED vars
  BY <1>5, <1>12 DEF vars
<1> QED
  BY <1>1, <1>2, <1>3, <1>4, <1>5, <1>6, <1>7, <1>8, <1>9, <1>10, <1>11, <1>12 DEF Next

-----------------------------------------------------------------------------
(* What a step may change.                                                 *)

MatchesFrame ==
  \/ UNCHANGED matches
  \/ \E c \in Clients : CommitMatch(c)
  \/ \E a \in allocations : VoidMatch(a)
TransactionsFrame ==
  \/ UNCHANGED transactions
  \/ \E c \in Clients, s \in Sessions, k \in Keys, o \in Observations, l \in Lines,
        i \in Amounts : BeginMatch(c, s, k, o, l, i)
  \/ \E c \in Clients, s \in Sessions, t \in DOMAIN From : BeginAdvance(c, s, t)
  \/ \E c \in Clients : CommitMatch(c) \/ CommitAdvance(c) \/ Abort(c)
StatusFrame ==
  \/ UNCHANGED status
  \/ \E s \in Sessions : Create(s) \/ ImportStatement(s) \/ Void(s)
  \/ \E c \in Clients : CommitAdvance(c)
VersionsFrame ==
  \/ UNCHANGED versions
  \/ \E r \in Runs : CommitIngest(r)
  \/ \E s \in Sessions : ImportStatement(s)
  \/ \E a \in Accounts, p \in Periods : ImportTransactions(a, p)
IngestingFrame == ingesting' \subseteq ingesting \/ \E r \in Runs : Ingest(r)
PostedFrame == UNCHANGED posted \/ \E l \in Lines : Post(l) \/ Unpost(l)
Frame ==
  /\ MatchesFrame /\ TransactionsFrame /\ StatusFrame
  /\ VersionsFrame /\ IngestingFrame /\ PostedFrame

LEMMA Frames ==
  ASSUME [Next]_vars
  PROVE  Frame
<1> USE DEF Frame, MatchesFrame, TransactionsFrame, StatusFrame, VersionsFrame,
            IngestingFrame, PostedFrame, matches, transactions
<1>1. ASSUME NEW o \in Feed, Show(o)
      PROVE  Frame
  BY <1>1 DEF Show
<1>2. ASSUME NEW l \in Lines, Post(l) \/ Unpost(l)
      PROVE  Frame
  <2>1. UNCHANGED <<evidence, status, matches, transactions>>
    BY <1>2 DEF Post, Unpost
  <2> QED
    BY <1>2, <2>1 DEF evidence
<1>3. ASSUME NEW r \in Runs, BeginSync(r) \/ Fetch(r) \/ Ingest(r) \/ FailSync(r)
      PROVE  Frame
  <2>1. UNCHANGED <<versions, posted, status, matches, transactions>>
    BY <1>3 DEF BeginSync, Fetch, Ingest, FailSync
  <2>2. ingesting' \subseteq ingesting \/ Ingest(r)
    BY <1>3 DEF BeginSync, Fetch, FailSync
  <2> QED
    BY <2>1, <2>2
<1>4. ASSUME NEW r \in Runs, CommitIngest(r)
      PROVE  Frame
  <2>1. UNCHANGED <<posted, status, matches, transactions>> /\ ingesting' \subseteq ingesting
    BY <1>4 DEF CommitIngest
  <2> QED
    BY <1>4, <2>1
<1>5. ASSUME NEW s \in Sessions, Create(s) \/ Void(s)
      PROVE  Frame
  <2>1. UNCHANGED <<evidence, posted, matches, transactions>>
    BY <1>5 DEF Create, Void
  <2> QED
    BY <1>5, <2>1 DEF evidence
<1>6. ASSUME NEW s \in Sessions, ImportStatement(s)
      PROVE  Frame
  <2>1. UNCHANGED <<ingesting, posted, matches, transactions>>
    BY <1>6 DEF ImportStatement
  <2> QED
    BY <1>6, <2>1
<1>7. ASSUME NEW a \in Accounts, NEW p \in Periods, ImportTransactions(a, p)
      PROVE  Frame
  <2>1. UNCHANGED <<ingesting, posted, status, matches, transactions>>
    BY <1>7 DEF ImportTransactions
  <2> QED
    BY <1>7, <2>1
<1>8. ASSUME NEW c \in Clients, NEW s \in Sessions, NEW k \in Keys,
             NEW o \in Observations, NEW l \in Lines, NEW i \in Amounts,
             BeginMatch(c, s, k, o, l, i)
      PROVE  Frame
  <2>1. UNCHANGED <<evidence, posted, status, matches>>
    BY <1>8 DEF BeginMatch
  <2> QED
    BY <1>8, <2>1 DEF evidence
<1>9. ASSUME NEW c \in Clients, NEW s \in Sessions, NEW t \in DOMAIN From,
             BeginAdvance(c, s, t)
      PROVE  Frame
  <2>1. UNCHANGED <<evidence, posted, status, matches>>
    BY <1>9 DEF BeginAdvance
  <2> QED
    BY <1>9, <2>1 DEF evidence
<1>10. ASSUME NEW c \in Clients, CommitMatch(c)
       PROVE  Frame
  <2>1. UNCHANGED <<evidence, posted, status>>
    BY <1>10 DEF CommitMatch
  <2> QED
    BY <1>10, <2>1 DEF evidence
<1>11. ASSUME NEW c \in Clients, CommitAdvance(c)
       PROVE  Frame
  <2>1. UNCHANGED <<evidence, posted, matches>>
    BY <1>11 DEF CommitAdvance
  <2> QED
    BY <1>11, <2>1 DEF evidence
<1>12. ASSUME NEW c \in Clients, Abort(c)
       PROVE  Frame
  <2>1. UNCHANGED <<evidence, posted, status, matches>>
    BY <1>12 DEF Abort
  <2> QED
    BY <1>12, <2>1 DEF evidence
<1>13. ASSUME NEW a \in allocations, VoidMatch(a)
       PROVE  Frame
  <2>1. UNCHANGED <<evidence, posted, status, transactions>>
    BY <1>13 DEF VoidMatch
  <2> QED
    BY <1>13, <2>1 DEF evidence
<1>14. CASE UNCHANGED vars
  BY <1>14 DEF vars, evidence
<1> HIDE DEF Frame
<1> QED
  BY <1>1, <1>2, <1>3, <1>4, <1>5, <1>6, <1>7, <1>8, <1>9, <1>10, <1>11, <1>12, <1>13,
     <1>14 DEF Next

LEMMA MatchesStep ==
  ASSUME [Next]_vars
  PROVE  MatchesFrame
  BY Frames DEF Frame

LEMMA TransactionsStep ==
  ASSUME [Next]_vars
  PROVE  TransactionsFrame
  BY Frames DEF Frame

LEMMA StatusStep ==
  ASSUME [Next]_vars
  PROVE  StatusFrame
  BY Frames DEF Frame

LEMMA VersionsStep ==
  ASSUME [Next]_vars
  PROVE  VersionsFrame
  BY Frames DEF Frame

LEMMA IngestingStep ==
  ASSUME [Next]_vars
  PROVE  IngestingFrame
  BY Frames DEF Frame

LEMMA PostedStep ==
  ASSUME [Next]_vars
  PROVE  PostedFrame
  BY Frames DEF Frame

(* Fields of a session.                                                    *)
LEMMA SessionFields ==
  ASSUME NEW s \in Sessions
  PROVE  /\ s # Null /\ s.account \in Accounts
         /\ s.period \in Nat /\ s.opening \in Int /\ s.closing \in Int
  BY SessionAssumption, NumberAssumption, NullAssumption

-----------------------------------------------------------------------------
(* Locks and what open transactions hold.                                  *)

LInv == SessionTyped /\ OnePerAccount /\ IngestionAlone /\ Prepared /\ KeysUnique

(* The allocation a client plans.                                          *)
LEMMA PlanTyped ==
  ASSUME EvidenceTyped, NEW c \in Clients, NEW s \in Sessions, NEW k \in Keys,
         NEW o \in Observations, NEW l \in Lines, NEW i \in Amounts, SessionTyped,
         BeginMatch(c, s, k, o, l, i)
  PROVE  \E a \in Allocation :
           /\ a.key = k /\ a.session = s
           /\ Idle(c) /\ SessionFree(s) /\ EvidenceFree(s.account)
           /\ status[s] = "DRAFT"
           /\ \A b \in allocations : b.key # k
           /\ \A d \in Clients : plan[d] # Null => plan[d].key # k
           /\ Begin(c, s, Null, a)
           /\ UNCHANGED <<evidence, posted, status, matches>>
<1> DEFINE a == [key |-> k, session |-> s, observation |-> o, number |-> Latest(o),
                 line |-> l, amount |-> i]
<1>1. Latest(o) \in Nat
  BY DEF EvidenceTyped, Latest
<1>2. a \in Allocation
  BY <1>1, NumberAssumption DEF Allocation
<1>3. a.key = k /\ a.session = s
  OBVIOUS
<1>4. Matchable(s, a) /\ Begin(c, s, Null, a)
  BY DEF BeginMatch
<1> HIDE DEF a
<1>5. status[s] = "DRAFT" /\ \A b \in allocations : b.key # k
  BY <1>3, <1>4 DEF Matchable
<1> QED
  BY <1>2, <1>3, <1>4, <1>5 DEF BeginMatch

(* The three variables of a client after Begin.                            *)
LEMMA Begun ==
  ASSUME SessionTyped, NEW c \in Clients, NEW s, NEW t, NEW a, Begin(c, s, t, a)
  PROVE  /\ holds'[c] = s /\ target'[c] = t /\ plan'[c] = a
         /\ \A d \in Clients \ {c} :
              holds'[d] = holds[d] /\ target'[d] = target[d] /\ plan'[d] = plan[d]
  BY DEF Begin, SessionTyped

LEMMA TypesNext ==
  ASSUME EvidenceTyped, LInv, [Next]_vars
  PROVE  SessionTyped'
<1>0. SessionTyped /\ Prepared
  BY DEF LInv
<1>1. posted' \subseteq Lines
  BY <1>0, PostedStep DEF PostedFrame, SessionTyped, Post, Unpost
<1>2. status' \in [Sessions -> {"NONE", "DRAFT", "SUBMITTED", "REVIEWED",
                                "FINALIZED", "VOIDED"}]
  <2>1. ASSUME NEW s \in Sessions, Create(s) \/ ImportStatement(s) \/ Void(s)
        PROVE  status' \in [Sessions -> {"NONE", "DRAFT", "SUBMITTED", "REVIEWED",
                                         "FINALIZED", "VOIDED"}]
    BY <1>0, <2>1 DEF SessionTyped, Create, ImportStatement, Void
  <2>2. ASSUME NEW c \in Clients, CommitAdvance(c)
        PROVE  status' \in [Sessions -> {"NONE", "DRAFT", "SUBMITTED", "REVIEWED",
                                         "FINALIZED", "VOIDED"}]
    <3>1. target[c] \in {"SUBMITTED", "REVIEWED", "FINALIZED"} /\ holds[c] \in Sessions
      BY <1>0, <2>2 DEF SessionTyped, Prepared, CommitAdvance, From
    <3> QED
      BY <1>0, <2>2, <3>1 DEF SessionTyped, CommitAdvance
  <2> QED
    BY <1>0, <2>1, <2>2, StatusStep DEF StatusFrame, SessionTyped
<1>3. allocations' \subseteq Allocation /\ voided' \subseteq Keys
  <2>1. ASSUME NEW c \in Clients, CommitMatch(c)
        PROVE  allocations' \subseteq Allocation /\ voided' \subseteq Keys
    BY <1>0, <2>1 DEF SessionTyped, CommitMatch
  <2>2. ASSUME NEW a \in allocations, VoidMatch(a)
        PROVE  allocations' \subseteq Allocation /\ voided' \subseteq Keys
    BY <1>0, <2>2 DEF SessionTyped, VoidMatch, Allocation
  <2> QED
    BY <1>0, <2>1, <2>2, MatchesStep DEF MatchesFrame, SessionTyped, matches
<1>4. /\ holds' \in [Clients -> Sessions \cup {Null}]
      /\ target' \in [Clients -> DOMAIN From \cup {Null}]
      /\ plan' \in [Clients -> Allocation \cup {Null}]
  <2>1. ASSUME NEW c \in Clients, NEW s \in Sessions \cup {Null},
               NEW t \in DOMAIN From \cup {Null}, NEW a \in Allocation \cup {Null},
               Begin(c, s, t, a)
        PROVE  /\ holds' \in [Clients -> Sessions \cup {Null}]
               /\ target' \in [Clients -> DOMAIN From \cup {Null}]
               /\ plan' \in [Clients -> Allocation \cup {Null}]
    BY <1>0, <2>1 DEF SessionTyped, Begin
  <2>2. ASSUME NEW c \in Clients, NEW s \in Sessions, NEW k \in Keys,
               NEW o \in Observations, NEW l \in Lines, NEW i \in Amounts,
               BeginMatch(c, s, k, o, l, i)
        PROVE  /\ holds' \in [Clients -> Sessions \cup {Null}]
               /\ target' \in [Clients -> DOMAIN From \cup {Null}]
               /\ plan' \in [Clients -> Allocation \cup {Null}]
    BY <1>0, <2>1, <2>2, PlanTyped
  <2>3. ASSUME NEW c \in Clients, NEW s \in Sessions, NEW t \in DOMAIN From,
               BeginAdvance(c, s, t)
        PROVE  /\ holds' \in [Clients -> Sessions \cup {Null}]
               /\ target' \in [Clients -> DOMAIN From \cup {Null}]
               /\ plan' \in [Clients -> Allocation \cup {Null}]
    BY <2>1, <2>3 DEF BeginAdvance
  <2>4. ASSUME NEW c \in Clients, CommitMatch(c) \/ CommitAdvance(c) \/ Abort(c)
        PROVE  /\ holds' \in [Clients -> Sessions \cup {Null}]
               /\ target' \in [Clients -> DOMAIN From \cup {Null}]
               /\ plan' \in [Clients -> Allocation \cup {Null}]
    BY <2>1, <2>4 DEF CommitMatch, CommitAdvance, Abort, End
  <2> QED
    BY <1>0, <2>2, <2>3, <2>4, TransactionsStep DEF TransactionsFrame, SessionTyped, transactions
<1> QED
  BY <1>1, <1>2, <1>3, <1>4 DEF SessionTyped

(* A session is locked by one client, and so is the evidence of an account.*)
LEMMA LocksNext ==
  ASSUME EvidenceTyped, LInv, [Next]_vars
  PROVE  OnePerAccount' /\ IngestionAlone'
<1>0. SessionTyped /\ OnePerAccount /\ IngestionAlone
  BY DEF LInv
<1>1. ASSUME NEW c \in Clients, NEW s \in Sessions, NEW t, NEW a, Begin(c, s, t, a),
             EvidenceFree(s.account), UNCHANGED ingesting
      PROVE  OnePerAccount' /\ IngestionAlone'
  BY <1>0, <1>1, Begun, SessionFields DEF OnePerAccount, IngestionAlone, EvidenceFree
<1>2. ASSUME NEW c \in Clients, End(c), UNCHANGED ingesting
      PROVE  OnePerAccount' /\ IngestionAlone'
  BY <1>0, <1>2, Begun DEF OnePerAccount, IngestionAlone, End
<1>3. ASSUME NEW c \in Clients, NEW s \in Sessions, NEW k \in Keys,
             NEW o \in Observations, NEW l \in Lines, NEW i \in Amounts,
             BeginMatch(c, s, k, o, l, i)
      PROVE  OnePerAccount' /\ IngestionAlone'
  BY <1>0, <1>1, <1>3, PlanTyped DEF evidence
<1>4. ASSUME NEW c \in Clients, NEW s \in Sessions, NEW t \in DOMAIN From,
             BeginAdvance(c, s, t)
      PROVE  OnePerAccount' /\ IngestionAlone'
  BY <1>1, <1>4 DEF BeginAdvance, evidence
<1>5. ASSUME NEW c \in Clients, CommitMatch(c) \/ CommitAdvance(c) \/ Abort(c)
      PROVE  OnePerAccount' /\ IngestionAlone'
  BY <1>2, <1>5 DEF CommitMatch, CommitAdvance, Abort, evidence
<1>6. CASE UNCHANGED transactions
  <2>1. OnePerAccount'
    BY <1>0, <1>6 DEF OnePerAccount, transactions
  <2>2. ASSUME NEW r \in Runs, Ingest(r)
        PROVE  IngestionAlone'
    BY <1>6, <2>2, AccountAssumption DEF IngestionAlone, Ingest, EvidenceFree, transactions
  <2>3. CASE ingesting' \subseteq ingesting
    <3>1. ingesting = {} => ingesting' = {}
      BY <2>3
    <3>2. holds' = holds
      BY <1>6 DEF transactions
    <3> SUFFICES ASSUME NEW c \in Clients, holds[c] # Null, holds[c].account \in Fed
                 PROVE  ingesting' = {}
      BY <2>1, <3>2 DEF IngestionAlone
    <3> QED
      BY <1>0, <3>1 DEF IngestionAlone
  <2> QED
    BY <2>1, <2>2, <2>3, IngestingStep DEF IngestingFrame
<1> QED
  BY <1>3, <1>4, <1>5, <1>6, TransactionsStep DEF TransactionsFrame

(* Until it commits, a transaction finds its session as it has locked it.  *)
LEMMA PreparedNext ==
  ASSUME EvidenceTyped, LInv, [Next]_vars
  PROVE  Prepared'
<1>0. SessionTyped /\ OnePerAccount /\ Prepared
  BY DEF LInv
<1>1. ASSUME NEW c \in Clients, End(c), UNCHANGED status
      PROVE  Prepared'
  BY <1>0, <1>1, Begun DEF Prepared, End
<1>2. ASSUME NEW c \in Clients, CommitMatch(c) \/ Abort(c)
      PROVE  Prepared'
  BY <1>1, <1>2 DEF CommitMatch, Abort
<1>3. ASSUME NEW c \in Clients, CommitAdvance(c)
      PROVE  Prepared'
  <2>1. End(c) /\ status' = [status EXCEPT ![holds[c]] = target[c]] /\ holds[c] \in Sessions
    BY <1>0, <1>3 DEF CommitAdvance, Prepared
  <2>2. /\ target'[c] = Null /\ plan'[c] = Null
        /\ \A d \in Clients \ {c} :
             holds'[d] = holds[d] /\ target'[d] = target[d] /\ plan'[d] = plan[d]
    BY <1>0, <2>1, Begun DEF End
  <2>3. ASSUME NEW d \in Clients \ {c}, holds[d] \in Sessions
        PROVE  status'[holds[d]] = status[holds[d]]
    <3>1. holds[d] # holds[c]
      BY <1>0, <2>1, <2>3, SessionFields DEF OnePerAccount
    <3> QED BY <1>0, <2>1, <2>3, <3>1 DEF SessionTyped
  <2> QED
    BY <1>0, <2>2, <2>3 DEF Prepared
<1>4. ASSUME NEW c \in Clients, NEW s \in Sessions, NEW k \in Keys,
             NEW o \in Observations, NEW l \in Lines, NEW i \in Amounts,
             BeginMatch(c, s, k, o, l, i)
      PROVE  Prepared'
  <2>1. PICK a \in Allocation :
           /\ a.session = s /\ status[s] = "DRAFT"
           /\ Begin(c, s, Null, a) /\ UNCHANGED status
    BY <1>0, <1>4, PlanTyped
  <2> QED
    BY <1>0, <2>1, Begun DEF Prepared
<1>5. ASSUME NEW c \in Clients, NEW s \in Sessions, NEW t \in DOMAIN From,
             BeginAdvance(c, s, t)
      PROVE  Prepared'
  <2>1. status[s] = From[t] /\ Begin(c, s, t, Null) /\ UNCHANGED status
    BY <1>5 DEF BeginAdvance
  <2> QED
    BY <1>0, <2>1, Begun DEF Prepared
<1>6. CASE UNCHANGED transactions
  <2>1. ASSUME NEW c \in Clients, plan[c] # Null \/ target[c] # Null
        PROVE  status'[holds[c]] = status[holds[c]]
    <3>0. /\ holds[c] \in Sessions
          /\ status[holds[c]] \in {"DRAFT", "SUBMITTED", "REVIEWED"}
      BY <1>0, <2>1 DEF Prepared, SessionTyped, From
    <3>1. ASSUME NEW s \in Sessions, Create(s) \/ ImportStatement(s) \/ Void(s)
          PROVE  status'[holds[c]] = status[holds[c]]
      BY <1>0, <3>0, <3>1 DEF SessionTyped, Create, ImportStatement, Void, SessionFree
    <3>2. ASSUME NEW d \in Clients, CommitAdvance(d)
          PROVE  status'[holds[c]] = status[holds[c]]
      <4>1. target'[d] = Null /\ target[d] # Null
        BY <1>0, <3>2, Begun DEF CommitAdvance, End
      <4> QED BY <1>6, <4>1 DEF transactions
    <3> QED
      BY <3>1, <3>2, StatusStep DEF StatusFrame
  <2> QED
    BY <1>0, <1>6, <2>1 DEF Prepared, transactions
<1> QED
  BY <1>2, <1>3, <1>4, <1>5, <1>6, TransactionsStep DEF TransactionsFrame

(* Allocations and plans are told apart by their keys.                     *)
LEMMA KeysNext ==
  ASSUME EvidenceTyped, LInv, [Next]_vars
  PROVE  KeysUnique'
<1>0. SessionTyped /\ KeysUnique
  BY DEF LInv
<1>1. ASSUME NEW c \in Clients, CommitMatch(c)
      PROVE  KeysUnique'
  BY <1>0, <1>1, Begun DEF KeysUnique, CommitMatch, End
<1>2. ASSUME NEW c \in Clients, CommitAdvance(c) \/ Abort(c)
      PROVE  KeysUnique'
  BY <1>0, <1>2, Begun DEF KeysUnique, CommitAdvance, Abort, End, matches
<1>3. ASSUME NEW c \in Clients, NEW s \in Sessions, NEW k \in Keys,
             NEW o \in Observations, NEW l \in Lines, NEW i \in Amounts,
             BeginMatch(c, s, k, o, l, i)
      PROVE  KeysUnique'
  <2>1. PICK a \in Allocation :
           /\ a.key = k
           /\ \A b \in allocations : b.key # k
           /\ \A d \in Clients : plan[d] # Null => plan[d].key # k
           /\ Begin(c, s, Null, a) /\ UNCHANGED allocations
    BY <1>0, <1>3, PlanTyped DEF matches
  <2> QED
    BY <1>0, <2>1, Begun DEF KeysUnique
<1>4. ASSUME NEW c \in Clients, NEW s \in Sessions, NEW t \in DOMAIN From,
             BeginAdvance(c, s, t)
      PROVE  KeysUnique'
  BY <1>0, <1>4, Begun DEF KeysUnique, BeginAdvance, matches
<1>5. CASE UNCHANGED transactions
  <2>1. ASSUME NEW c \in Clients, CommitMatch(c)
        PROVE  KeysUnique'
    BY <1>1, <2>1
  <2>2. CASE UNCHANGED allocations
    BY <1>0, <1>5, <2>2 DEF KeysUnique, transactions
  <2> QED
    BY <2>1, <2>2, MatchesStep DEF MatchesFrame, VoidMatch, matches
<1> QED
  BY <1>1, <1>2, <1>3, <1>4, <1>5, TransactionsStep DEF TransactionsFrame

LEMMA LocksInvariant ==
  /\ Init => LInv
  /\ EvidenceTyped /\ LInv /\ [Next]_vars => LInv'
<1>1. Init => LInv
  BY DEF Init, LInv, SessionTyped, OnePerAccount, IngestionAlone, Prepared, KeysUnique
<1>2. EvidenceTyped /\ LInv /\ [Next]_vars => LInv'
  BY TypesNext, LocksNext, PreparedNext, KeysNext DEF LInv
<1> QED
  BY <1>1, <1>2

-----------------------------------------------------------------------------
(* What the locks keep for an open transaction.                            *)

(* The matches of a session that is not a draft, or that a client has      *)
(* locked to advance it.                                                   *)
LEMMA LiveKept ==
  ASSUME LInv, [Next]_vars, NEW s \in Sessions,
         \/ status[s] # "DRAFT"
         \/ \E c \in Clients : holds[c] = s /\ plan[c] = Null
  PROVE  Live(s)' = Live(s)
<1>0. SessionTyped /\ OnePerAccount /\ Prepared /\ KeysUnique /\ s # Null
  BY SessionFields DEF LInv
<1>1. ASSUME NEW d \in Clients, CommitMatch(d)
      PROVE  Live(s)' = Live(s)
  <2>1. /\ plan[d].session = holds[d] /\ status[holds[d]] = "DRAFT"
        /\ plan[d] # Null /\ holds[d] \in Sessions
        /\ allocations' = allocations \cup {plan[d]} /\ UNCHANGED voided
    BY <1>0, <1>1 DEF Prepared, CommitMatch
  <2>2. holds[d] # s
    <3>1. CASE status[s] # "DRAFT"
      BY <2>1, <3>1
    <3>2. ASSUME NEW c \in Clients, holds[c] = s, plan[c] = Null
          PROVE  holds[d] # s
      BY <1>0, <2>1, <3>2, SessionFields DEF OnePerAccount
    <3> QED BY <3>1, <3>2
  <2> QED
    BY <2>1, <2>2 DEF Live
<1>2. ASSUME NEW a \in allocations, VoidMatch(a)
      PROVE  Live(s)' = Live(s)
  <2>1. /\ SessionFree(a.session) /\ status[a.session] = "DRAFT"
        /\ voided' = voided \cup {a.key} /\ UNCHANGED allocations
    BY <1>2 DEF VoidMatch
  <2>2. a.session # s
    BY <2>1 DEF SessionFree
  <2>3. \A b \in allocations : b.session = s => b.key # a.key
    BY <1>0, <2>2 DEF KeysUnique
  <2> QED
    BY <2>1, <2>3 DEF Live
<1>3. CASE UNCHANGED matches
  BY <1>3 DEF matches, Live
<1> QED
  BY <1>1, <1>2, <1>3, MatchesStep DEF MatchesFrame

(* The versions of an account whose evidence a client has locked.          *)
LEMMA VersionsKept ==
  ASSUME LInv, [Next]_vars, NEW c \in Clients, holds[c] # Null,
         NEW o \in Observations, AccountOf[o] = holds[c].account
  PROVE  versions'[o] = versions[o]
<1>1. ASSUME NEW r \in Runs, CommitIngest(r)
      PROVE  versions'[o] = versions[o]
  <2>1. o \notin Feed
    BY <1>1, AccountAssumption DEF LInv, IngestionAlone, CommitIngest, Feed
  <2> QED
    BY <1>1, <2>1 DEF CommitIngest
<1>2. ASSUME NEW a, NEW p, EvidenceFree(a), AppendRows(a, p)
      PROVE  versions'[o] = versions[o]
  <2>1. o \notin Rows(a, p)
    BY <1>2 DEF EvidenceFree, Rows
  <2> QED
    BY <1>2, <2>1 DEF AppendRows
<1>3. ASSUME NEW s \in Sessions, ImportStatement(s)
      PROVE  versions'[o] = versions[o]
  BY <1>2, <1>3 DEF ImportStatement, Importable
<1>4. ASSUME NEW a \in Accounts, NEW p \in Periods, ImportTransactions(a, p)
      PROVE  versions'[o] = versions[o]
  BY <1>2, <1>4 DEF ImportTransactions, Importable
<1> QED
  BY <1>1, <1>3, <1>4, VersionsStep DEF VersionsFrame

(* The journals of lines with an allocation.                               *)
LEMMA MatchedLinesKept ==
  ASSUME [Next]_vars, NEW a \in allocations, a.line \in posted
  PROVE  a.line \in posted'
<1>1. ASSUME NEW l \in Lines, Unpost(l)
      PROVE  a.line \in posted'
  <2>1. a.line # l
    BY <1>1 DEF Unpost, OnLine
  <2> QED
    BY <1>1, <2>1 DEF Unpost
<1> QED
  BY <1>1, PostedStep DEF PostedFrame, Post

(* A proof that every posted observation is matched reads matches and      *)
(* versions only.                                                          *)
LEMMA MatchedFrame ==
  ASSUME NEW s, Live(s)' = Live(s), ObservationsMatched(s),
         \A o \in Observations : AccountOf[o] = s.account => versions'[o] = versions[o]
  PROVE  ObservationsMatched(s)'
<1>1. ASSUME NEW o \in Observations, AccountOf[o] = s.account
      PROVE  Latest(o)' = Latest(o) /\ Newest(o)' = Newest(o)
  BY <1>1 DEF Latest, Newest, Facts
<1>2. PostedIn(s.account, s.period)' = PostedIn(s.account, s.period)
  BY <1>1 DEF PostedIn, InPeriod
<1>3. ASSUME NEW o \in PostedIn(s.account, s.period)'
      PROVE  Total(OnVersion(Live(s), o, Latest(o)))' = Abs(Newest(o).amount)'
  <2>1. o \in PostedIn(s.account, s.period) /\ o \in Observations /\ AccountOf[o] = s.account
    BY <1>2, <1>3 DEF PostedIn, InPeriod
  <2>2. Latest(o)' = Latest(o) /\ Newest(o)' = Newest(o)
    BY <1>1, <2>1
  <2>3. OnVersion(Live(s), o, Latest(o))' = OnVersion(Live(s), o, Latest(o))
    BY <2>2 DEF OnVersion
  <2>4. Total(OnVersion(Live(s), o, Latest(o))) = Abs(Newest(o).amount)
    BY <2>1 DEF ObservationsMatched
  <2>5. Total(OnVersion(Live(s), o, Latest(o)))' = Total(OnVersion(Live(s), o, Latest(o)))
    BY <2>3
  <2>6. Abs(Newest(o).amount)' = Abs(Newest(o).amount)
    BY <2>2 DEF Abs
  <2> QED BY <2>4, <2>5, <2>6
<1> QED
  BY <1>3 DEF ObservationsMatched

(* A transition is still the one that was begun, or begins now.            *)
LEMMA TargetKept ==
  ASSUME LInv, [Next]_vars, NEW c \in Clients, target'[c] # Null
  PROVE  \/ target'[c] = target[c] /\ holds'[c] = holds[c] /\ plan[c] = Null
         \/ \E s \in Sessions, t \in DOMAIN From : BeginAdvance(c, s, t)
<1>0. SessionTyped /\ Prepared
  BY DEF LInv
<1>1. ASSUME NEW d \in Clients, End(d)
      PROVE  target'[c] = target[c] /\ holds'[c] = holds[c]
  BY <1>0, <1>1, Begun DEF End
<1>2. ASSUME NEW d \in Clients, NEW s \in Sessions, NEW k \in Keys,
             NEW o \in Observations, NEW l \in Lines, NEW i \in Amounts,
             BeginMatch(d, s, k, o, l, i)
      PROVE  target'[c] = target[c] /\ holds'[c] = holds[c]
  <2>1. PICK a : Begin(d, s, Null, a)
    BY <1>2 DEF BeginMatch
  <2> QED
    BY <1>0, <2>1, Begun
<1>3. ASSUME NEW d \in Clients, NEW s \in Sessions, NEW t \in DOMAIN From,
             BeginAdvance(d, s, t), c # d
      PROVE  target'[c] = target[c] /\ holds'[c] = holds[c]
  BY <1>0, <1>3, Begun DEF BeginAdvance
<1>4. ASSUME NEW d \in Clients, CommitMatch(d) \/ CommitAdvance(d) \/ Abort(d)
      PROVE  target'[c] = target[c] /\ holds'[c] = holds[c]
  BY <1>1, <1>4 DEF CommitMatch, CommitAdvance, Abort
<1>5. UNCHANGED transactions => target'[c] = target[c] /\ holds'[c] = holds[c]
  BY DEF transactions
<1>6. target'[c] = target[c] /\ holds'[c] = holds[c] => plan[c] = Null
  BY <1>0 DEF Prepared
<1> QED
  BY <1>2, <1>3, <1>4, <1>5, <1>6, TransactionsStep DEF TransactionsFrame

-----------------------------------------------------------------------------
(* What a transition has proved holds until it commits.                    *)

LEMMA ProvedNow ==
  ASSUME NEW c \in Clients, NEW s \in Sessions, NEW t \in DOMAIN From,
         BeginAdvance(c, s, t)
  PROVE  ObservationsMatched(s) /\ OnNewest(s) /\ OnPosted(s)
<1>1. ObservationsMatched(s) /\ Valid(s)
  BY DEF BeginAdvance, Balanced
<1>2. OnNewest(s) /\ OnPosted(s)
  BY <1>1 DEF Valid, Matching, PostedIn, InPeriod, LinesIn, OnNewest, OnPosted
<1> QED
  BY <1>1, <1>2

LEMMA ProofKept ==
  ASSUME LInv, [Next]_vars, NEW c \in Clients, holds[c] \in Sessions, plan[c] = Null,
         ObservationsMatched(holds[c]), OnNewest(holds[c]), OnPosted(holds[c])
  PROVE  \A s : s = holds[c] =>
           /\ Live(s)' = Live(s)
           /\ ObservationsMatched(s)' /\ OnNewest(s)' /\ OnPosted(s)'
<1> SUFFICES ASSUME NEW s, s = holds[c]
             PROVE  /\ Live(s)' = Live(s)
                    /\ ObservationsMatched(s)' /\ OnNewest(s)' /\ OnPosted(s)'
  OBVIOUS
<1>0. s \in Sessions /\ s # Null
  BY SessionFields
<1>1. Live(s)' = Live(s)
  BY <1>0, LiveKept
<1>2. \A o \in Observations : AccountOf[o] = s.account => versions'[o] = versions[o]
  BY <1>0, VersionsKept
<1>3. ObservationsMatched(s)'
  BY <1>1, <1>2, MatchedFrame
<1>4. OnNewest(s)'
  <2> SUFFICES ASSUME NEW a \in Live(s)
               PROVE  AccountOf[a.observation] = s.account /\ a.number = Latest(a.observation)'
    BY <1>1 DEF OnNewest
  <2>1. a.observation \in Observations
    BY DEF LInv, SessionTyped, Allocation, Live
  <2>2. AccountOf[a.observation] = s.account /\ a.number = Latest(a.observation)
    BY DEF OnNewest
  <2> QED
    BY <1>2, <2>1, <2>2 DEF Latest
<1>5. OnPosted(s)'
  <2> SUFFICES ASSUME NEW a \in Live(s)
               PROVE  a.line \in posted' /\ a.line \in CashLines[s.account]
    BY <1>1 DEF OnPosted
  <2> QED
    BY MatchedLinesKept DEF OnPosted, Live
<1> QED
  BY <1>1, <1>3, <1>4, <1>5

LEMMA ProvedNext ==
  ASSUME LInv, Proved, [Next]_vars
  PROVE  Proved'
<1> SUFFICES ASSUME NEW c \in Clients, target'[c] # Null, NEW s, s = holds'[c]
             PROVE  ObservationsMatched(s)' /\ OnNewest(s)' /\ OnPosted(s)'
  BY DEF Proved
<1>0. SessionTyped /\ Prepared
  BY DEF LInv
<1>1. CASE target'[c] = target[c] /\ holds'[c] = holds[c] /\ plan[c] = Null
  BY <1>0, <1>1, ProofKept DEF Prepared, Proved
<1>2. ASSUME NEW q \in Sessions, NEW t \in DOMAIN From, BeginAdvance(c, q, t)
      PROVE  ObservationsMatched(s)' /\ OnNewest(s)' /\ OnPosted(s)'
  <2>1. s = q
    BY <1>0, <1>2, Begun DEF BeginAdvance
  <2>2. UNCHANGED <<versions, allocations, voided, posted>>
    BY <1>2 DEF BeginAdvance, evidence, matches
  <2>3. ObservationsMatched(s) /\ OnNewest(s) /\ OnPosted(s)
    BY <1>2, <2>1, ProvedNow
  <2>4. Live(s)' = Live(s)
    BY <2>2 DEF Live
  <2>5. ObservationsMatched(s)'
    BY <2>2, <2>3, <2>4, MatchedFrame
  <2> QED
    BY <2>2, <2>3, <2>4, <2>5 DEF OnNewest, OnPosted, Latest
<1> QED
  BY <1>1, <1>2, TargetKept

(* What a step finalizes.                                                  *)
LEMMA Finalization ==
  ASSUME LInv, Proved, [Next]_vars, NEW s \in Sessions,
         status[s] # "FINALIZED", status'[s] = "FINALIZED"
  PROVE  ObservationsMatched(s)' /\ OnNewest(s)' /\ OnPosted(s)'
<1>0. SessionTyped /\ Prepared
  BY DEF LInv
<1>1. ASSUME NEW q \in Sessions, Create(q) \/ ImportStatement(q) \/ Void(q)
      PROVE  FALSE
  BY <1>0, <1>1 DEF SessionTyped, Create, ImportStatement, Void
<1>2. ASSUME NEW c \in Clients, CommitAdvance(c)
      PROVE  ObservationsMatched(s)' /\ OnNewest(s)' /\ OnPosted(s)'
  <2>1. target[c] # Null /\ holds[c] = s /\ plan[c] = Null
    BY <1>0, <1>2 DEF CommitAdvance, SessionTyped, Prepared
  <2> QED
    BY <2>1, ProofKept DEF Proved
<1> QED
  BY <1>1, <1>2, StatusStep DEF StatusFrame

LEMMA FinalizedNext ==
  ASSUME LInv, Proved, FinalizedLinesPosted, [Next]_vars
  PROVE  FinalizedLinesPosted'
<1> SUFFICES ASSUME NEW s \in Sessions, status'[s] = "FINALIZED"
             PROVE  OnPosted(s)'
  BY DEF FinalizedLinesPosted, OnPosted
<1>1. CASE status[s] # "FINALIZED"
  BY <1>1, Finalization
<1>2. CASE status[s] = "FINALIZED"
  <2>1. Live(s)' = Live(s)
    BY <1>2, LiveKept
  <2>2. \A a \in Live(s) : a \in allocations /\ a.line \in posted
                           /\ a.line \in CashLines[s.account]
    BY <1>2 DEF FinalizedLinesPosted, Live
  <2> QED
    BY <2>1, <2>2, MatchedLinesKept DEF OnPosted
<1> QED
  BY <1>1, <1>2

-----------------------------------------------------------------------------
(* The chain of sessions.                                                  *)

(* Of some sessions before a period one is the last.                       *)
LEMMA LastSession ==
  ASSUME NEW B, B \subseteq Sessions, B # {}, NEW n \in Nat,
         \A p \in B : p.period < n
  PROVE  \E p \in B : \A q \in B : q.period <= p.period
<1> DEFINE T == {n - p.period : p \in B}
<1>1. \A p \in B : p.period \in Nat
  BY SessionFields
<1>2. \A p \in B : n - p.period \in Nat
  <2> TAKE p \in B
  <2>1. p.period \in Nat /\ p.period < n
    BY <1>1
  <2> QED BY <2>1
<1>3. T \subseteq Nat /\ T # {}
  BY <1>2
<1> HIDE DEF T
<1>4. PICK x \in T : \A y \in T : x <= y
  BY <1>3, LeastNat
<1> USE DEF T
<1>5. PICK p \in B : x = n - p.period
  BY <1>4
<1>6. ASSUME NEW q \in B
      PROVE  q.period <= p.period
  <2>1. n - p.period <= n - q.period
    BY <1>4, <1>5
  <2>2. p.period \in Nat /\ q.period \in Nat
    BY <1>1
  <2> QED BY <2>1, <2>2
<1> QED BY <1>6

(* Two sessions of one account in the chain.                               *)
Links(s, q) ==
  s # q /\ s.account = q.account =>
    /\ s.period # q.period
    /\ s.period < q.period => status[s] = "FINALIZED"
    /\ s.period + 1 = q.period => s.closing = q.opening
    /\ s.period + 1 < q.period =>
         \E p \in Open : p.account = s.account /\ p.period = s.period + 1

LEMMA ChainedLinks == Chained <=> \A s, q \in Open : Links(s, q)
  BY DEF Chained, Links

(* A session that is not the first follows the last one of its account.    *)
LEMMA Preceded ==
  ASSUME Chained, NEW s \in Sessions, Continues(s),
         NEW q \in Open, q.account = s.account
  PROVE  /\ q.period < s.period /\ status[q] = "FINALIZED"
         /\ q.period + 1 = s.period => q.closing = s.opening
         /\ q.period + 1 < s.period =>
              \E p \in Open : p.account = s.account /\ p.period = q.period + 1
<1>0. Before(s) \subseteq Sessions /\ \A p \in Before(s) : p.period < s.period
  BY DEF Before, Open
<1>1. q.period < s.period
  BY DEF Continues
<1>2. q \in Before(s)
  BY <1>1 DEF Before
<1>3. PICK p \in Before(s) : \A x \in Before(s) : x.period <= p.period
  BY <1>0, <1>2, LastSession, SessionFields
<1>4. /\ p \in Open /\ p.account = s.account
      /\ status[p] = "FINALIZED" /\ p.period + 1 = s.period /\ p.closing = s.opening
  BY <1>3 DEF Continues, Before
<1>5. q.period \in Nat /\ p.period \in Nat /\ s.period \in Nat /\ q.period <= p.period
  BY <1>0, <1>2, <1>3, SessionFields
<1>6. Links(q, p)
  BY <1>4, ChainedLinks
<1>7. CASE q = p
  BY <1>1, <1>4, <1>5, <1>7
<1>8. CASE q # p
  <2>1. q.period < p.period /\ status[q] = "FINALIZED"
    BY <1>4, <1>5, <1>6, <1>8 DEF Links
  <2>2. q.period + 1 # s.period
    BY <1>4, <1>5, <2>1
  <2>3. CASE q.period + 1 = p.period
    BY <1>1, <1>4, <2>1, <2>2, <2>3
  <2>4. CASE q.period + 1 # p.period
    <3>1. q.period + 1 < p.period
      BY <1>5, <2>1, <2>4
    <3> QED
      BY <1>1, <1>4, <1>6, <1>8, <2>1, <2>2, <3>1 DEF Links
  <2> QED BY <2>3, <2>4
<1> QED BY <1>7, <1>8

LEMMA OpenGrows ==
  ASSUME SessionTyped, Chained, NEW s \in Sessions, status[s] = "NONE", Continues(s),
         status' = [status EXCEPT ![s] = "DRAFT"]
  PROVE  Chained'
<1>1. Open' = Open \cup {s} /\ s \notin Open
  BY DEF Open, SessionTyped
<1>2. \A q \in Open : status'[q] = status[q]
  BY <1>1 DEF Open, SessionTyped
<1>3. \A q \in Open' : q \in Sessions /\ q.period \in Nat
  BY SessionFields DEF Open
<1>4. ASSUME NEW x \in Open', NEW y \in Open', x # y, x.account = y.account
      PROVE  Links(x, y)'
  <2>1. CASE x \in Open /\ y \in Open
    <3>1. Links(x, y)
      BY <2>1, ChainedLinks
    <3> QED
      BY <1>1, <1>2, <1>4, <2>1, <3>1 DEF Links
  <2>2. CASE x = s
    <3>1. y \in Open /\ y.period < s.period
      BY <1>1, <1>4, <2>2, Preceded
    <3>2. y.period \in Nat /\ s.period \in Nat
      BY <1>1, <1>3
    <3>3. ~ (s.period < y.period) /\ s.period # y.period /\ s.period + 1 # y.period
          /\ ~ (s.period + 1 < y.period)
      BY <3>1, <3>2
    <3> QED
      BY <2>2, <3>3 DEF Links
  <2>3. CASE y = s /\ x \in Open
    <3>1. /\ x.period < s.period /\ status[x] = "FINALIZED"
          /\ x.period + 1 = s.period => x.closing = s.opening
          /\ x.period + 1 < s.period =>
               \E p \in Open : p.account = s.account /\ p.period = x.period + 1
      BY <1>4, <2>3, Preceded
    <3>2. x.period # s.period
      BY <1>1, <1>3, <3>1
    <3> QED
      BY <1>1, <1>2, <1>4, <2>3, <3>1, <3>2 DEF Links
  <2> QED BY <1>1, <2>1, <2>2, <2>3
<1>5. \A x, y \in Open' : Links(x, y)'
  BY <1>4 DEF Links
<1> QED
  BY <1>5 DEF Chained, Links

LEMMA ChainedNext ==
  ASSUME LInv, Chained, [Next]_vars
  PROVE  Chained'
<1>0. SessionTyped /\ Prepared
  BY DEF LInv
<1>1. ASSUME NEW s \in Sessions, Create(s)
      PROVE  Chained'
  BY <1>0, <1>1, OpenGrows DEF Create
<1>2. CASE Open' = Open /\ \A s \in Open : status[s] = "FINALIZED" => status'[s] = "FINALIZED"
  BY <1>2 DEF Chained
<1>3. ASSUME NEW s \in Sessions, ImportStatement(s)
      PROVE  Chained'
  <2>1. CASE status[s] = "NONE"
    BY <1>0, <1>3, <2>1, OpenGrows DEF ImportStatement
  <2>2. CASE status[s] = "DRAFT"
    <3>1. status' = status
      BY <1>0, <1>3, <2>2 DEF ImportStatement, SessionTyped
    <3> QED
      BY <1>2, <3>1 DEF Open
  <2> QED BY <1>3, <2>1, <2>2 DEF ImportStatement
<1>4. ASSUME NEW s \in Sessions, Void(s)
      PROVE  Chained'
  <2>1. s \in Open /\ status[s] # "FINALIZED" /\ status' = [status EXCEPT ![s] = "VOIDED"]
    BY <1>4 DEF Void, Voidable, Open
  <2>2. Open' = Open \ {s} /\ \A q \in Open' : status'[q] = status[q]
    BY <1>0, <2>1 DEF Open, SessionTyped
  <2>3. ASSUME NEW x \in Open', NEW y \in Open', x # y, x.account = y.account
        PROVE  Links(x, y)'
    <3>1. Links(x, y)
      BY <2>2, ChainedLinks
    <3>2. ASSUME x.period + 1 < y.period
          PROVE  \E p \in Open' : p.account = x.account /\ p.period = x.period + 1
      <4>1. PICK p \in Open : p.account = x.account /\ p.period = x.period + 1
        BY <2>3, <3>1, <3>2 DEF Links
      <4>2. p # s
        <5>1. Links(p, y)
          BY <2>2, ChainedLinks
        <5>2. p.period # y.period
          <6>1. x.period \in Nat /\ y.period \in Nat
            BY <2>2, SessionFields DEF Open
          <6> QED BY <3>2, <4>1, <6>1
        <5>3. p # y /\ p.account = y.account /\ p.period < y.period
          BY <2>3, <3>2, <4>1, <5>2
        <5> QED BY <2>1, <5>1, <5>3 DEF Links
      <4> QED BY <2>2, <4>1, <4>2
    <3> QED
      BY <2>2, <2>3, <3>1, <3>2 DEF Links
  <2>4. \A x, y \in Open' : Links(x, y)'
    BY <2>3 DEF Links
  <2> QED
    BY <2>4 DEF Chained, Links
<1>5. ASSUME NEW c \in Clients, CommitAdvance(c)
      PROVE  Chained'
  <2>1. /\ target[c] \in {"SUBMITTED", "REVIEWED", "FINALIZED"} /\ holds[c] \in Sessions
        /\ status[holds[c]] \in {"DRAFT", "SUBMITTED", "REVIEWED"}
        /\ status' = [status EXCEPT ![holds[c]] = target[c]]
    BY <1>0, <1>5 DEF SessionTyped, Prepared, CommitAdvance, From
  <2>2. Open' = Open /\ \A s \in Open : status[s] = "FINALIZED" => status'[s] = "FINALIZED"
    BY <1>0, <2>1 DEF Open, SessionTyped
  <2> QED BY <1>2, <2>2
<1>6. CASE UNCHANGED status
  BY <1>2, <1>6 DEF Open
<1> QED
  BY <1>1, <1>3, <1>4, <1>5, <1>6, StatusStep DEF StatusFrame

-----------------------------------------------------------------------------
(* Versions grow at their end, and each is something the bank has shown.   *)

Contents ==
  \A o \in Observations : \A n \in 1..Latest(o) : versions[o][n] \in 1..Len(Shown[o])

LEMMA Growth ==
  ASSUME EInv, [Next]_vars, NEW o \in Observations
  PROVE  \/ versions'[o] = versions[o]
         \/ \E i \in 1..Len(Shown[o]) : versions'[o] = Append(versions[o], i)
<1>0. EvidenceTyped /\ Fetched /\ Len(Shown[o]) \in Nat
  BY ShownAssumption DEF EInv
<1>1. ASSUME NEW i \in 0..Len(Shown[o]), versions'[o] = Extended(o, i)
      PROVE  \/ versions'[o] = versions[o]
             \/ \E j \in 1..Len(Shown[o]) : versions'[o] = Append(versions[o], j)
  BY <1>0, <1>1 DEF Extended
<1>2. ASSUME NEW r \in Runs, CommitIngest(r)
      PROVE  \/ versions'[o] = versions[o]
             \/ \E j \in 1..Len(Shown[o]) : versions'[o] = Append(versions[o], j)
  <2>1. CASE o \in Feed
    <3>1. /\ reply[r] \in [Feed -> Nat] /\ reply[r][o] <= shown[o]
          /\ shown[o] \in Nat /\ shown[o] <= Len(Shown[o])
      BY <1>0, <1>2, <2>1 DEF EvidenceTyped, Fetched, CommitIngest
    <3>2. reply[r][o] \in 0..Len(Shown[o])
      BY <1>0, <2>1, <3>1
    <3>3. versions'[o] = Extended(o, reply[r][o])
      BY <1>2, <2>1 DEF CommitIngest
    <3> QED
      BY <1>1, <3>2, <3>3
  <2>2. CASE o \notin Feed
    BY <1>2, <2>2 DEF CommitIngest
  <2> QED
    BY <2>1, <2>2
<1>3. ASSUME NEW a, NEW p, AppendRows(a, p)
      PROVE  \/ versions'[o] = versions[o]
             \/ \E j \in 1..Len(Shown[o]) : versions'[o] = Append(versions[o], j)
  <2>1. CASE o \in Rows(a, p)
    <3>1. Shown[o] # <<>> /\ Shown[o] \in Seq(Content)
      BY <2>1, ShownAssumption DEF Rows
    <3>2. 1 \in 0..Len(Shown[o])
      BY <3>1
    <3>3. versions'[o] = Extended(o, 1)
      BY <1>3, <2>1 DEF AppendRows
    <3> QED
      BY <1>1, <3>2, <3>3
  <2>2. CASE o \notin Rows(a, p)
    BY <1>3, <2>2 DEF AppendRows
  <2> QED
    BY <2>1, <2>2
<1> QED
  BY <1>2, <1>3, VersionsStep DEF VersionsFrame, ImportStatement, ImportTransactions

LEMMA VersionsGrow ==
  ASSUME EInv, [Next]_vars, NEW o \in Observations
  PROVE  /\ Latest(o) \in Nat /\ Latest(o)' \in Nat /\ Latest(o) <= Latest(o)'
         /\ \A n \in 1..Latest(o) : versions'[o][n] = versions[o][n]
         /\ \A n \in (1..Latest(o)') \ (1..Latest(o)) : versions'[o][n] \in 1..Len(Shown[o])
<1>1. versions[o] \in Seq(Nat)
  BY DEF EInv, EvidenceTyped
<1>2. CASE versions'[o] = versions[o]
  BY <1>1, <1>2 DEF Latest
<1>3. ASSUME NEW i \in 1..Len(Shown[o]), versions'[o] = Append(versions[o], i)
      PROVE  /\ Latest(o) \in Nat /\ Latest(o)' \in Nat /\ Latest(o) <= Latest(o)'
             /\ \A n \in 1..Latest(o) : versions'[o][n] = versions[o][n]
             /\ \A n \in (1..Latest(o)') \ (1..Latest(o)) : versions'[o][n] \in 1..Len(Shown[o])
  <2>1. i \in Nat
    BY ShownAssumption
  <2>2. /\ Len(versions'[o]) = Len(versions[o]) + 1 /\ Len(versions[o]) \in Nat
        /\ versions'[o][Len(versions[o]) + 1] = i
        /\ \A n \in 1..Len(versions[o]) : versions'[o][n] = versions[o][n]
    BY <1>1, <1>3, <2>1
  <2> QED
    BY <2>2 DEF Latest
<1> QED
  BY <1>2, <1>3, Growth

LEMMA ContentsNext ==
  ASSUME EInv, Contents, [Next]_vars
  PROVE  Contents'
<1> SUFFICES ASSUME NEW o \in Observations, NEW n \in 1..Latest(o)'
             PROVE  versions'[o][n] \in 1..Len(Shown[o])
  BY DEF Contents
<1>1. CASE n \in 1..Latest(o)
  BY <1>1, VersionsGrow DEF Contents
<1>2. CASE n \notin 1..Latest(o)
  BY <1>2, VersionsGrow
<1> QED
  BY <1>1, <1>2

LEMMA FactsTyped ==
  ASSUME Contents, NEW o \in Observations, NEW n \in 1..Latest(o)
  PROVE  Facts(o, n) \in Content /\ Facts(o, n).amount \in Int /\ Abs(Facts(o, n).amount) \in Nat
<1>1. Shown[o] \in Seq(Content) /\ versions[o][n] \in 1..Len(Shown[o])
  BY ShownAssumption DEF Contents
<1>2. Facts(o, n) \in Content
  BY <1>1 DEF Facts
<1>3. Facts(o, n).amount \in Int
  BY <1>2 DEF Content
<1> QED
  BY <1>2, <1>3 DEF Abs

-----------------------------------------------------------------------------
(* What is matched of a version or a line.                                 *)

LEMMA TotalOfPart ==
  ASSUME NEW S, IsFiniteSet(S), \A a \in S : a.amount \in Nat, NEW T, T \subseteq S
  PROVE  Total(S) \in Nat /\ Total(T) \in Nat /\ Total(T) <= Total(S)
<1> DEFINE f == [a \in S |-> a.amount]
           g == [a \in T |-> a.amount]
<1>1. /\ IsFiniteSet(DOMAIN f) /\ IsFiniteSet(DOMAIN g) /\ DOMAIN g \subseteq DOMAIN f
      /\ \A a \in DOMAIN f : f[a] \in Nat
      /\ \A a \in DOMAIN g : g[a] = f[a]
      /\ \A a \in DOMAIN g : g[a] \in Nat
  BY FS_Subset
<1> HIDE DEF f, g
<1>2. SumFunction(f) \in Nat /\ SumFunction(g) \in Nat
  BY <1>1, SumOfNats, Zenon
<1>3. SumFunction(g) <= SumFunction(f)
  BY <1>1, SumOfPart, Zenon
<1> QED
  BY <1>2, <1>3 DEF f, g, Total

LEMMA TotalWith ==
  ASSUME NEW S, IsFiniteSet(S), \A b \in S : b.amount \in Nat, NEW a, a.amount \in Nat,
         NEW T, T \subseteq S \cup {a}
  PROVE  Total(T) <= a.amount + Total(S)
<1>1. CASE a \in S
  <2>1. T \subseteq S
    BY <1>1
  <2> QED
    BY <2>1, TotalOfPart
<1>2. CASE a \notin S
  <2> DEFINE f == [b \in S \cup {a} |-> b.amount]
             g == [b \in S |-> b.amount]
  <2>1. /\ IsFiniteSet(DOMAIN g) /\ a \notin DOMAIN g /\ DOMAIN f = (DOMAIN g) \cup {a}
        /\ \A b \in DOMAIN f : f[b] \in Int
        /\ \A b \in DOMAIN g : g[b] = f[b]
        /\ f[a] = a.amount
    BY <1>2
  <2> HIDE DEF f, g
  <2>2. SumFunction(f) = f[a] + SumFunction(g)
    BY <2>1, SumGrows, Zenon
  <2>3. Total(S \cup {a}) = a.amount + Total(S)
    BY <2>1, <2>2 DEF f, g, Total
  <2>4. IsFiniteSet(S \cup {a}) /\ \A b \in S \cup {a} : b.amount \in Nat
    BY FS_AddElement
  <2>5. Total(T) <= Total(S \cup {a})
    BY <2>4, TotalOfPart
  <2> QED
    BY <2>3, <2>5
<1> QED
  BY <1>1, <1>2

LEMMA NothingMatched == Total({}) = 0
  BY SumOfNothing DEF Total

(* A session that is voided stays voided.                                  *)
LEMMA VoidedStays ==
  ASSUME LInv, [Next]_vars, NEW s \in Sessions, status'[s] # "VOIDED"
  PROVE  status[s] # "VOIDED"
<1>0. SessionTyped /\ Prepared
  BY DEF LInv
<1>1. ASSUME NEW q \in Sessions, Create(q) \/ ImportStatement(q) \/ Void(q)
      PROVE  status[s] # "VOIDED"
  BY <1>0, <1>1 DEF SessionTyped, Create, ImportStatement, Void
<1>2. ASSUME NEW c \in Clients, CommitAdvance(c)
      PROVE  status[s] # "VOIDED"
  <2>1. /\ status' = [status EXCEPT ![holds[c]] = target[c]]
        /\ status[holds[c]] \in {"DRAFT", "SUBMITTED", "REVIEWED"}
    BY <1>0, <1>2 DEF SessionTyped, Prepared, CommitAdvance, From
  <2> QED
    BY <1>0, <2>1 DEF SessionTyped
<1> QED
  BY <1>1, <1>2, StatusStep DEF StatusFrame

(* Matches count for less, or for one more that was planned.               *)
LEMMA CountedStep ==
  ASSUME LInv, [Next]_vars
  PROVE  \/ Counted' \subseteq Counted /\ allocations' = allocations
         \/ \E c \in Clients : /\ CommitMatch(c) /\ plan[c] # Null
                               /\ Counted' \subseteq Counted \cup {plan[c]}
<1>0. SessionTyped
  BY DEF LInv
<1>1. \A s \in Sessions : status'[s] # "VOIDED" => status[s] # "VOIDED"
  BY VoidedStays
<1>2. \A a \in allocations : a.session \in Sessions
  BY <1>0 DEF SessionTyped, Allocation
<1>3. ASSUME NEW c \in Clients, CommitMatch(c)
      PROVE  plan[c] # Null /\ Counted' \subseteq Counted \cup {plan[c]}
  <2>1. /\ allocations' = allocations \cup {plan[c]} /\ voided' = voided /\ status' = status
        /\ plan[c] # Null
    BY <1>3 DEF CommitMatch
  <2> QED
    BY <2>1 DEF Counted
<1>4. ASSUME allocations' = allocations, voided \subseteq voided'
      PROVE  Counted' \subseteq Counted
  BY <1>1, <1>2, <1>4 DEF Counted
<1> QED
  BY <1>3, <1>4, MatchesStep DEF MatchesFrame, VoidMatch, matches

-----------------------------------------------------------------------------
(* A planned match has room on its version and its line until it commits.  *)

Numbered(a) == a.number \in 1..Latest(a.observation)
Fits(a) ==
  /\ a.amount + Total(OnVersion(Counted, a.observation, a.number))
       <= Abs(Facts(a.observation, a.number).amount)
  /\ a.amount + Total(OnLine(Counted, a.line)) <= Abs(LineAmount[a.line])
Placed(c) ==
  /\ Numbered(plan[c]) /\ Fits(plan[c])
  /\ AccountOf[plan[c].observation] = holds[c].account
  /\ \A d \in Clients \ {c} : plan[d] # Null => plan[d].line # plan[c].line
Room ==
  /\ IsFiniteSet(allocations)
  /\ \A a \in allocations : Numbered(a)
  /\ \A c \in Clients : plan[c] # Null => Placed(c)

(* A plan is still the one that was begun, or begins now.                  *)
LEMMA PlanStep ==
  ASSUME LInv, [Next]_vars, NEW c \in Clients, plan'[c] # Null
  PROVE  \/ plan'[c] = plan[c] /\ holds'[c] = holds[c] /\ ~CommitMatch(c)
         \/ \E s \in Sessions, k \in Keys, o \in Observations, l \in Lines,
               i \in Amounts : BeginMatch(c, s, k, o, l, i)
<1>0. SessionTyped
  BY DEF LInv
<1>1. ASSUME NEW d \in Clients, NEW s, NEW t, NEW a, Begin(d, s, t, a), d # c \/ a = Null
      PROVE  plan'[c] = plan[c] /\ holds'[c] = holds[c]
  BY <1>0, <1>1, Begun
<1>2. ASSUME NEW d \in Clients, NEW s \in Sessions, NEW k \in Keys,
             NEW o \in Observations, NEW l \in Lines, NEW i \in Amounts,
             BeginMatch(d, s, k, o, l, i), d # c
      PROVE  plan'[c] = plan[c] /\ holds'[c] = holds[c]
  <2>1. PICK a : Begin(d, s, Null, a)
    BY <1>2 DEF BeginMatch
  <2> QED
    BY <1>1, <1>2, <2>1
<1>3. ASSUME NEW d \in Clients, NEW s \in Sessions, NEW t \in DOMAIN From,
             BeginAdvance(d, s, t)
      PROVE  plan'[c] = plan[c] /\ holds'[c] = holds[c]
  BY <1>1, <1>3 DEF BeginAdvance
<1>4. ASSUME NEW d \in Clients, CommitMatch(d) \/ CommitAdvance(d) \/ Abort(d)
      PROVE  plan'[c] = plan[c] /\ holds'[c] = holds[c]
  BY <1>1, <1>4 DEF CommitMatch, CommitAdvance, Abort, End
<1>5. UNCHANGED transactions => plan'[c] = plan[c] /\ holds'[c] = holds[c]
  BY DEF transactions
<1>6. ~CommitMatch(c)
  BY <1>0, Begun DEF CommitMatch, End
<1> QED
  BY <1>2, <1>3, <1>4, <1>5, <1>6, TransactionsStep DEF TransactionsFrame

(* What is counted is finite, and its amounts are natural numbers.         *)
LEMMA CountedTyped ==
  ASSUME SessionTyped, IsFiniteSet(allocations)
  PROVE  /\ IsFiniteSet(Counted) /\ \A a \in Counted : a.amount \in Nat
         /\ \A o, n : /\ IsFiniteSet(OnVersion(Counted, o, n))
                      /\ Total(OnVersion(Counted, o, n)) \in Nat
         /\ \A l : IsFiniteSet(OnLine(Counted, l)) /\ Total(OnLine(Counted, l)) \in Nat
<1>1. IsFiniteSet(Counted) /\ \A a \in Counted : a.amount \in Nat
  BY FS_Subset DEF Counted, SessionTyped, Allocation
<1>2. ASSUME NEW T, T \subseteq Counted
      PROVE  IsFiniteSet(T) /\ Total(T) \in Nat
  BY <1>1, <1>2, FS_Subset, TotalOfPart
<1>3. \A o, n : OnVersion(Counted, o, n) \subseteq Counted
  BY DEF OnVersion
<1>4. \A l : OnLine(Counted, l) \subseteq Counted
  BY DEF OnLine
<1> QED
  BY <1>1, <1>2, <1>3, <1>4

(* What remains of a newest version and of a line is what a match may take.*)
LEMMA RemainingFits ==
  ASSUME EInv, LInv, Contents, IsFiniteSet(allocations),
         NEW s \in Sessions, NEW a \in Allocation, Matchable(s, a)
  PROVE  Numbered(a) /\ Fits(a) /\ AccountOf[a.observation] = s.account
<1> DEFINE o == a.observation
           l == a.line
           p == Abs(Newest(o).amount)
           q == Abs(LineAmount[l])
           m == Total(OnVersion(Counted, o, Latest(o)))
           n == Total(OnLine(Counted, l))
<1>1. o \in Observations /\ l \in Lines /\ a.amount \in Nat
  BY DEF Allocation
<1>2. /\ AccountOf[o] = s.account /\ Latest(o) > 0 /\ a.number = Latest(o)
      /\ a.amount <= Remaining(o, l)
  BY DEF Matchable, Matching, PostedIn, InPeriod
<1>3. Latest(o) \in Nat /\ Latest(o) \in 1..Latest(o)
  BY <1>1, <1>2 DEF EInv, EvidenceTyped, Latest
<1>4. p \in Nat
  BY <1>1, <1>3, FactsTyped DEF Newest
<1>5. q \in Nat
  BY <1>1, LineAssumption DEF Abs
<1>6. m \in Nat /\ n \in Nat
  BY CountedTyped DEF LInv
<1>7. a.amount <= (IF p - m < q - n THEN p - m ELSE q - n)
  BY <1>2 DEF Remaining
<1>8. p = Abs(Facts(o, a.number).amount) /\ m = Total(OnVersion(Counted, o, a.number))
  BY <1>2 DEF Newest
<1> HIDE DEF p, q, m, n
<1>9. a.amount + m <= p /\ a.amount + n <= q
  BY <1>1, <1>4, <1>5, <1>6, <1>7
<1>10. Numbered(a)
  BY <1>2, <1>3 DEF Numbered
<1>11. Fits(a)
  BY <1>8, <1>9 DEF Fits, q, n
<1> QED
  BY <1>2, <1>10, <1>11

LEMMA BeginMatchPlaced ==
  ASSUME EInv, LInv, Contents, Room, NEW c \in Clients, NEW s \in Sessions,
         NEW k \in Keys, NEW o \in Observations, NEW l \in Lines, NEW i \in Amounts,
         BeginMatch(c, s, k, o, l, i)
  PROVE  Placed(c)'
<1> DEFINE a == [key |-> k, session |-> s, observation |-> o, number |-> Latest(o),
                 line |-> l, amount |-> i]
<1>1. Latest(o) \in Nat
  BY DEF EInv, EvidenceTyped, Latest
<1>2. a \in Allocation /\ a.line = l
  BY <1>1, NumberAssumption DEF Allocation
<1>3. /\ Matchable(s, a) /\ Begin(c, s, Null, a) /\ LineFree(l)
      /\ UNCHANGED <<evidence, posted, status, matches>>
  BY DEF BeginMatch
<1> HIDE DEF a
<1>4. plan'[c] = a /\ holds'[c] = s /\ \A d \in Clients \ {c} : plan'[d] = plan[d]
  BY <1>3, Begun DEF LInv
<1>5. Numbered(a) /\ Fits(a) /\ AccountOf[a.observation] = s.account
  BY <1>2, <1>3, RemainingFits DEF Room
<1>6. versions' = versions /\ Counted' = Counted
  BY <1>3 DEF evidence, matches, Counted
<1>7. Numbered(plan[c])'
  BY <1>4, <1>5, <1>6 DEF Numbered, Latest
<1>8. Fits(plan[c])'
  BY <1>4, <1>5, <1>6 DEF Fits, OnVersion, OnLine, Total, Facts
<1>9. \A d \in Clients \ {c} : plan'[d] # Null => plan'[d].line # plan'[c].line
  BY <1>2, <1>3, <1>4 DEF LineFree
<1> QED
  BY <1>4, <1>5, <1>7, <1>8, <1>9 DEF Placed

(* The numbers of allocations and plans stay those of versions there are.  *)
LEMMA NumberedStays ==
  ASSUME EInv, [Next]_vars, NEW a \in Allocation, Numbered(a)
  PROVE  Numbered(a)' /\ Facts(a.observation, a.number)' = Facts(a.observation, a.number)
<1>1. a.observation \in Observations
  BY DEF Allocation
<1>2. /\ Latest(a.observation) \in Nat /\ Latest(a.observation)' \in Nat
      /\ Latest(a.observation) <= Latest(a.observation)'
      /\ \A n \in 1..Latest(a.observation) :
           versions'[a.observation][n] = versions[a.observation][n]
  BY <1>1, VersionsGrow
<1> QED
  BY <1>2 DEF Numbered, Facts

(* Two plans are of different observations and lines.                      *)
LEMMA PlansApart ==
  ASSUME LInv, Room, NEW c \in Clients, NEW d \in Clients, c # d,
         plan[c] # Null, plan[d] # Null
  PROVE  plan[c].observation # plan[d].observation /\ plan[c].line # plan[d].line
<1>1. holds[c] \in Sessions /\ holds[d] \in Sessions
  BY DEF LInv, Prepared
<1>2. holds[c].account # holds[d].account
  BY <1>1, SessionFields DEF LInv, OnePerAccount
<1> QED
  BY <1>2 DEF Room, Placed

LEMMA PlacedKept ==
  ASSUME EInv, LInv, Contents, Room, [Next]_vars, NEW c \in Clients,
         plan[c] # Null, plan'[c] = plan[c], holds'[c] = holds[c], ~CommitMatch(c)
  PROVE  Placed(c)'
<1> SUFFICES ASSUME NEW a \in Allocation, a = plan[c]
             PROVE  Placed(c)'
  BY DEF LInv, SessionTyped
<1>0. Placed(c) /\ Numbered(a) /\ Fits(a)
  BY DEF Room, Placed
<1>1. /\ a.observation \in Observations /\ a.line \in Lines /\ a.amount \in Nat
  BY DEF Allocation
<1>2. /\ OnVersion(Counted', a.observation, a.number)
           \subseteq OnVersion(Counted, a.observation, a.number)
      /\ OnLine(Counted', a.line) \subseteq OnLine(Counted, a.line)
  <2>1. CASE Counted' \subseteq Counted
    BY <2>1 DEF OnVersion, OnLine
  <2>2. ASSUME NEW d \in Clients, CommitMatch(d), plan[d] # Null,
               Counted' \subseteq Counted \cup {plan[d]}
        PROVE  /\ OnVersion(Counted', a.observation, a.number)
                    \subseteq OnVersion(Counted, a.observation, a.number)
               /\ OnLine(Counted', a.line) \subseteq OnLine(Counted, a.line)
    <3>1. plan[d].observation # a.observation /\ plan[d].line # a.line
      BY <2>2, PlansApart
    <3> QED
      BY <2>2, <3>1 DEF OnVersion, OnLine
  <2> QED
    BY <2>1, <2>2, CountedStep
<1> DEFINE m == Total(OnVersion(Counted, a.observation, a.number))
           n == Total(OnLine(Counted, a.line))
           mm == Total(OnVersion(Counted', a.observation, a.number))
           nn == Total(OnLine(Counted', a.line))
           p == Abs(Facts(a.observation, a.number).amount)
           q == Abs(LineAmount[a.line])
<1>3. /\ IsFiniteSet(OnVersion(Counted, a.observation, a.number))
      /\ IsFiniteSet(OnLine(Counted, a.line))
      /\ \A b \in Counted : b.amount \in Nat
  BY CountedTyped DEF LInv, Room
<1>4. m \in Nat /\ mm \in Nat /\ mm <= m
  BY <1>2, <1>3, TotalOfPart DEF OnVersion
<1>5. n \in Nat /\ nn \in Nat /\ nn <= n
  BY <1>2, <1>3, TotalOfPart DEF OnLine
<1>6. p \in Nat /\ q \in Nat
  BY <1>0, <1>1, FactsTyped, LineAssumption DEF Numbered, Abs
<1>7. a.amount + m <= p /\ a.amount + n <= q
  BY <1>0 DEF Fits
<1> HIDE DEF m, n, mm, nn, p, q
<1>8. a.amount + mm <= p /\ a.amount + nn <= q
  BY <1>1, <1>4, <1>5, <1>6, <1>7
<1>9. Numbered(a)' /\ Facts(a.observation, a.number)' = Facts(a.observation, a.number)
  BY <1>0, NumberedStays
<1>10. Fits(a)'
  BY <1>8, <1>9 DEF Fits, OnVersion, OnLine, Total, mm, nn, p, q
<1>11. ASSUME NEW d \in Clients \ {c}, plan'[d] # Null
       PROVE  plan'[d].line # a.line
  <2>1. CASE plan'[d] = plan[d]
    BY <1>11, <2>1, PlansApart
  <2>2. ASSUME NEW s \in Sessions, NEW k \in Keys, NEW o \in Observations,
               NEW l \in Lines, NEW i \in Amounts, BeginMatch(d, s, k, o, l, i)
        PROVE  plan'[d].line # a.line
    <3>1. /\ LineFree(l)
          /\ Begin(d, s, Null, [key |-> k, session |-> s, observation |-> o,
                                number |-> Latest(o), line |-> l, amount |-> i])
      BY <2>2 DEF BeginMatch
    <3>2. plan'[d].line = l
      BY <3>1, Begun DEF LInv
    <3> QED
      BY <3>1, <3>2 DEF LineFree
  <2> QED
    BY <1>11, <2>1, <2>2, PlanStep
<1> QED
  BY <1>0, <1>9, <1>10, <1>11 DEF Placed, Numbered, Fits

LEMMA RoomNext ==
  ASSUME EInv, LInv, Contents, Room, [Next]_vars
  PROVE  Room'
<1>1. IsFiniteSet(allocations') /\ \A a \in allocations' : Numbered(a)'
  <2>1. CASE allocations' = allocations
    <3>1. \A a \in allocations : Numbered(a)'
      BY NumberedStays DEF Room, LInv, SessionTyped
    <3> QED
      BY <2>1, <3>1 DEF Room
  <2>2. ASSUME NEW c \in Clients, CommitMatch(c)
        PROVE  IsFiniteSet(allocations') /\ \A a \in allocations' : Numbered(a)'
    <3>1. allocations' = allocations \cup {plan[c]} /\ plan[c] # Null
      BY <2>2 DEF CommitMatch
    <3>2. \A a \in allocations' : Numbered(a) /\ a \in Allocation
      BY <3>1 DEF Room, Placed, LInv, SessionTyped
    <3>3. IsFiniteSet(allocations')
      BY <3>1, FS_AddElement DEF Room
    <3>4. \A a \in allocations' : Numbered(a)'
      BY <3>2, NumberedStays
    <3> QED
      BY <3>3, <3>4
  <2> QED
    BY <2>1, <2>2, CountedStep
<1>2. ASSUME NEW c \in Clients, plan'[c] # Null
      PROVE  Placed(c)'
  BY <1>2, PlanStep, PlacedKept, BeginMatchPlaced
<1> QED
  BY <1>1, <1>2 DEF Room

-----------------------------------------------------------------------------
(* Nothing is matched beyond its amount.                                   *)

LEMMA WithinNext ==
  ASSUME EInv, LInv, Contents, Room, WithinEvidence, [Next]_vars
  PROVE  WithinEvidence'
<1>1. /\ IsFiniteSet(Counted) /\ \A a \in Counted : a.amount \in Nat
      /\ \A o, n : /\ IsFiniteSet(OnVersion(Counted, o, n))
                   /\ Total(OnVersion(Counted, o, n)) \in Nat
      /\ \A l : IsFiniteSet(OnLine(Counted, l)) /\ Total(OnLine(Counted, l)) \in Nat
  BY CountedTyped DEF LInv, Room
<1>2. Contents'
  BY ContentsNext
<1>3. ASSUME NEW o \in Observations, NEW n \in 1..Latest(o)'
      PROVE  Total(OnVersion(Counted', o, n)) <= Abs(Facts(o, n)'.amount)
  <2> DEFINE S == OnVersion(Counted, o, n)
             T == OnVersion(Counted', o, n)
             p == Abs(Facts(o, n)'.amount)
  <2>1. IsFiniteSet(S) /\ Total(S) \in Nat /\ \A a \in S : a.amount \in Nat
    BY <1>1 DEF OnVersion
  <2>2. p \in Nat
    <3>1. versions'[o][n] \in 1..Len(Shown[o]) /\ Shown[o] \in Seq(Content)
      BY <1>2, ShownAssumption DEF Contents
    <3>2. Facts(o, n)' \in Content
      BY <3>1 DEF Facts
    <3>3. Facts(o, n)'.amount \in Int
      BY <3>2 DEF Content
    <3> QED
      BY <3>3 DEF Abs
  <2>3. Total(S) <= p
    <3>1. CASE n \in 1..Latest(o)
      <4>1. Facts(o, n)' = Facts(o, n)
        BY <3>1, VersionsGrow DEF Facts
      <4> QED
        BY <3>1, <4>1 DEF WithinEvidence
    <3>2. CASE n \notin 1..Latest(o)
      <4>1. \A a \in allocations : a.observation = o => a.number \in 1..Latest(o)
        BY DEF Room, Numbered
      <4>2. S = {}
        BY <3>2, <4>1 DEF OnVersion, Counted
      <4>3. Total(S) = 0
        BY <4>2, NothingMatched
      <4> QED
        BY <2>2, <4>3
    <3> QED
      BY <3>1, <3>2
  <2>4. CASE Counted' \subseteq Counted
    <3>1. T \subseteq S
      BY <2>4 DEF OnVersion
    <3>2. Total(T) \in Nat /\ Total(T) <= Total(S)
      BY <2>1, <3>1, TotalOfPart
    <3> QED
      BY <2>1, <2>2, <2>3, <3>2
  <2>5. ASSUME NEW c \in Clients, CommitMatch(c), plan[c] # Null,
               Counted' \subseteq Counted \cup {plan[c]}
        PROVE  Total(T) <= p
    <3>1. CASE plan[c].observation = o /\ plan[c].number = n
      <4>1. T \subseteq S \cup {plan[c]}
        BY <2>5 DEF OnVersion
      <4>2. plan[c].amount \in Nat /\ plan[c] \in Allocation
        BY <2>5 DEF LInv, SessionTyped, Allocation
      <4>3. Total(T) <= plan[c].amount + Total(S)
        BY <2>1, <4>1, <4>2, TotalWith
      <4>4. T \subseteq Counted' /\ IsFiniteSet(S \cup {plan[c]})
        BY <2>1, FS_AddElement DEF OnVersion
      <4>5. Total(T) \in Nat
        BY <2>1, <4>1, <4>2, <4>4, TotalOfPart
      <4>6. plan[c].amount + Total(S) <= Abs(Facts(o, n).amount)
        BY <2>5, <3>1 DEF Room, Placed, Fits
      <4>7. Facts(o, n)' = Facts(o, n)
        <5>1. Numbered(plan[c])
          BY <2>5 DEF Room, Placed
        <5> QED
          BY <3>1, <4>2, <5>1, NumberedStays
      <4>8. plan[c].amount + Total(S) <= p
        BY <4>6, <4>7
      <4> HIDE DEF S, T, p
      <4> QED
        BY <2>1, <2>2, <4>2, <4>3, <4>5, <4>8
    <3>2. CASE ~(plan[c].observation = o /\ plan[c].number = n)
      <4>1. T \subseteq S
        BY <2>5, <3>2 DEF OnVersion
      <4>2. Total(T) \in Nat /\ Total(T) <= Total(S)
        BY <2>1, <4>1, TotalOfPart
      <4> QED
        BY <2>1, <2>2, <2>3, <4>2
    <3> QED
      BY <3>1, <3>2
  <2> QED
    BY <2>4, <2>5, CountedStep
<1>4. ASSUME NEW l \in Lines
      PROVE  Total(OnLine(Counted', l)) <= Abs(LineAmount[l])
  <2> DEFINE S == OnLine(Counted, l)
             T == OnLine(Counted', l)
             p == Abs(LineAmount[l])
  <2>1. IsFiniteSet(S) /\ Total(S) \in Nat /\ \A a \in S : a.amount \in Nat
    BY <1>1 DEF OnLine
  <2>2. p \in Nat /\ Total(S) <= p
    BY LineAssumption DEF Abs, WithinEvidence
  <2>3. CASE Counted' \subseteq Counted
    <3>1. T \subseteq S
      BY <2>3 DEF OnLine
    <3>2. Total(T) \in Nat /\ Total(T) <= Total(S)
      BY <2>1, <3>1, TotalOfPart
    <3> QED
      BY <2>1, <2>2, <3>2
  <2>4. ASSUME NEW c \in Clients, CommitMatch(c), plan[c] # Null,
               Counted' \subseteq Counted \cup {plan[c]}
        PROVE  Total(T) <= p
    <3>1. CASE plan[c].line = l
      <4>1. T \subseteq S \cup {plan[c]}
        BY <2>4 DEF OnLine
      <4>2. plan[c].amount \in Nat
        BY <2>4 DEF LInv, SessionTyped, Allocation
      <4>3. Total(T) <= plan[c].amount + Total(S)
        BY <2>1, <4>1, <4>2, TotalWith
      <4>4. IsFiniteSet(S \cup {plan[c]})
        BY <2>1, FS_AddElement
      <4>5. Total(T) \in Nat
        BY <2>1, <4>1, <4>2, <4>4, TotalOfPart
      <4>6. plan[c].amount + Total(S) <= p
        BY <2>4, <3>1 DEF Room, Placed, Fits
      <4> HIDE DEF S, T, p
      <4> QED
        BY <2>1, <2>2, <4>2, <4>3, <4>5, <4>6
    <3>2. CASE plan[c].line # l
      <4>1. T \subseteq S
        BY <2>4, <3>2 DEF OnLine
      <4>2. Total(T) \in Nat /\ Total(T) <= Total(S)
        BY <2>1, <4>1, TotalOfPart
      <4> QED
        BY <2>1, <2>2, <4>2
    <3> QED
      BY <3>1, <3>2
  <2> QED
    BY <2>3, <2>4, CountedStep
<1> QED
  BY <1>3, <1>4 DEF WithinEvidence, Total, OnVersion, OnLine

-----------------------------------------------------------------------------
(* What a proof shows of a session, and that it keeps.                     *)

Explained(s) ==
  /\ \A v \in MatchedVersions(s) :
       Total(OnVersion(Live(s), v[1], v[2])) = Abs(Facts(v[1], v[2]).amount)
  /\ Movement(s) =
       SumFunction([v \in MatchedVersions(s) |-> Facts(v[1], v[2]).amount])
ProvedExplained == \A c \in Clients : target[c] # Null => Explained(holds[c])

LEMMA ExplainedWhenFinalized ==
  FinalizedExplained <=> \A s \in Sessions : status[s] = "FINALIZED" => Explained(s)
  BY DEF FinalizedExplained, Explained

(* A version nothing was matched of has no amount, so the matched ones add *)
(* up to what all of them do.                                              *)
LEMMA BalancedExplained ==
  ASSUME EInv, Contents, NEW s \in Sessions, Balanced(s)
  PROVE  Explained(s)
<1> DEFINE P == PostedIn(s.account, s.period)
           M == MatchedVersions(s)
           D == {o \in P : <<o, Latest(o)>> \in M}
           f == [o \in P |-> Newest(o).amount]
           e == [o \in D |-> Newest(o).amount]
           h == [o \in D |-> <<o, Latest(o)>>]
           g == [v \in M |-> Facts(v[1], v[2]).amount]
<1>1. IsFiniteSet(P) /\ P \subseteq Observations
  BY ShownAssumption, FS_Subset DEF PostedIn, InPeriod
<1>2. \A o \in P : Newest(o).amount \in Int
  <2> TAKE o \in P
  <2>1. o \in Observations /\ Latest(o) \in 1..Latest(o)
    BY DEF PostedIn, InPeriod, EInv, EvidenceTyped, Latest
  <2> QED
    BY <2>1, FactsTyped DEF Newest
<1>3. \A a \in Live(s) : a.observation \in P /\ a.number = Latest(a.observation)
  BY DEF Balanced, Valid, Matching
<1>4. \A v \in M : v[1] \in P /\ v = <<v[1], Latest(v[1])>>
  BY <1>3 DEF MatchedVersions
<1>5. \A o \in P : Total(OnVersion(Live(s), o, Latest(o))) = Abs(Newest(o).amount)
  BY DEF Balanced, ObservationsMatched
<1>6. \A o \in P \ D : Newest(o).amount = 0
  <2> TAKE o \in P \ D
  <2>1. OnVersion(Live(s), o, Latest(o)) = {}
    BY DEF OnVersion, MatchedVersions
  <2>2. Abs(Newest(o).amount) = 0
    BY <1>5, <2>1, NothingMatched
  <2> QED
    BY <1>2, <2>2 DEF Abs
<1>7. SumFunction(e) = SumFunction(f)
  <2>1. /\ IsFiniteSet(DOMAIN f) /\ \A x \in DOMAIN f : f[x] \in Int
        /\ DOMAIN e \subseteq DOMAIN f /\ \A x \in DOMAIN e : e[x] = f[x]
        /\ \A x \in DOMAIN f \ DOMAIN e : f[x] = 0
    BY <1>1, <1>2, <1>6
  <2> HIDE DEF f, e
  <2> QED
    BY <2>1, SumWithoutZeros, Zenon
<1>8. SumFunction(g) = SumFunction(e)
  <2>1. IsFiniteSet(DOMAIN e) /\ \A x \in DOMAIN e : e[x] \in Int
    BY <1>1, <1>2, FS_Subset
  <2>2. \A x, y \in DOMAIN e : h[x] = h[y] => x = y
    OBVIOUS
  <2>3. DOMAIN g = {h[x] : x \in DOMAIN e}
    <3>1. ASSUME NEW v \in M
          PROVE  v[1] \in D /\ v = h[v[1]]
      BY <1>4, <3>1
    <3>2. ASSUME NEW o \in D
          PROVE  h[o] \in M
      OBVIOUS
    <3> HIDE DEF M, D, h
    <3> QED
      BY <3>1, <3>2
  <2>4. \A x \in DOMAIN e : g[h[x]] = e[x]
    BY DEF Newest
  <2> HIDE DEF g, h, e
  <2> QED
    BY <2>1, <2>2, <2>3, <2>4, SumRenamed, Zenon
<1>9. Movement(s) = SumFunction(f)
  BY DEF Balanced, BankMovement
<1>10. ASSUME NEW v \in M
       PROVE  Total(OnVersion(Live(s), v[1], v[2])) = Abs(Facts(v[1], v[2]).amount)
  <2>1. v[1] \in P /\ v[2] = Latest(v[1])
    BY <1>4
  <2>2. Total(OnVersion(Live(s), v[1], Latest(v[1]))) = Abs(Newest(v[1]).amount)
    BY <1>5, <2>1
  <2> QED
    BY <2>1, <2>2 DEF Newest
<1>11. Movement(s) = SumFunction(g)
  BY <1>7, <1>8, <1>9
<1> QED
  BY <1>10, <1>11 DEF Explained

(* As long as its matches stay, what explained a session does.             *)
LEMMA ExplainedKept ==
  ASSUME EInv, LInv, Room, [Next]_vars, NEW s, Live(s)' = Live(s), Explained(s)
  PROVE  Explained(s)'
<1>1. ASSUME NEW v \in MatchedVersions(s)
      PROVE  Facts(v[1], v[2])' = Facts(v[1], v[2])
  <2>1. PICK a \in Live(s) : v = <<a.observation, a.number>>
    BY DEF MatchedVersions
  <2>2. a \in Allocation /\ Numbered(a)
    BY DEF Live, Room, LInv, SessionTyped
  <2>3. Facts(a.observation, a.number)' = Facts(a.observation, a.number)
    BY <2>2, NumberedStays
  <2> QED
    BY <2>1, <2>3
<1>2. MatchedVersions(s)' = MatchedVersions(s)
  BY DEF MatchedVersions
<1>3. [v \in MatchedVersions(s) |-> Facts(v[1], v[2])'.amount]
        = [v \in MatchedVersions(s) |-> Facts(v[1], v[2]).amount]
  BY <1>1
<1>4. \A v \in MatchedVersions(s) :
        Total(OnVersion(Live(s), v[1], v[2])') = Abs(Facts(v[1], v[2])'.amount)
  <2> TAKE v \in MatchedVersions(s)
  <2>1. OnVersion(Live(s), v[1], v[2])' = OnVersion(Live(s), v[1], v[2])
    BY DEF OnVersion
  <2>2. Total(OnVersion(Live(s), v[1], v[2])) = Abs(Facts(v[1], v[2]).amount)
    BY DEF Explained
  <2> QED
    BY <1>1, <2>1, <2>2
<1> QED
  BY <1>2, <1>3, <1>4 DEF Explained, Movement, Total

(* What a transition has proved, until it commits.                         *)
LEMMA ProvedExplainedNext ==
  ASSUME EInv, LInv, Contents, Room, ProvedExplained, [Next]_vars
  PROVE  ProvedExplained'
<1> SUFFICES ASSUME NEW c \in Clients, target'[c] # Null, NEW s, s = holds'[c]
             PROVE  Explained(s)'
  BY DEF ProvedExplained
<1>0. SessionTyped /\ Prepared
  BY DEF LInv
<1>1. CASE target'[c] = target[c] /\ holds'[c] = holds[c] /\ plan[c] = Null
  <2>1. s \in Sessions /\ s = holds[c]
    BY <1>0, <1>1 DEF Prepared
  <2>2. Explained(s)
    BY <1>1, <2>1 DEF ProvedExplained
  <2>3. Live(s)' = Live(s)
    BY <1>1, <2>1, LiveKept
  <2> QED
    BY <2>2, <2>3, ExplainedKept
<1>2. ASSUME NEW q \in Sessions, NEW t \in DOMAIN From, BeginAdvance(c, q, t)
      PROVE  Explained(s)'
  <2>1. s = q /\ Balanced(q) /\ Live(q)' = Live(q)
    BY <1>0, <1>2, Begun DEF BeginAdvance, matches, Live
  <2>2. Explained(q)
    BY <2>1, BalancedExplained
  <2> QED
    BY <2>1, <2>2, ExplainedKept
<1> QED
  BY <1>1, <1>2, TargetKept

LEMMA FinalizedExplainedNext ==
  ASSUME EInv, LInv, Room, ProvedExplained, FinalizedExplained, [Next]_vars
  PROVE  FinalizedExplained'
<1> SUFFICES ASSUME NEW s \in Sessions, status'[s] = "FINALIZED"
             PROVE  Explained(s)'
  BY DEF FinalizedExplained, Explained
<1>0. SessionTyped /\ Prepared
  BY DEF LInv
<1>1. CASE status[s] = "FINALIZED"
  <2>1. Explained(s)
    BY <1>1, ExplainedWhenFinalized
  <2>2. Live(s)' = Live(s)
    BY <1>1, LiveKept
  <2> QED
    BY <2>1, <2>2, ExplainedKept
<1>2. CASE status[s] # "FINALIZED"
  <2>1. ASSUME NEW q \in Sessions, Create(q) \/ ImportStatement(q) \/ Void(q)
        PROVE  FALSE
    BY <1>0, <1>2, <2>1 DEF SessionTyped, Create, ImportStatement, Void
  <2>2. ASSUME NEW c \in Clients, CommitAdvance(c)
        PROVE  Explained(s)'
    <3>1. target[c] # Null /\ holds[c] = s /\ Live(s)' = Live(s)
      BY <1>0, <1>2, <2>2 DEF CommitAdvance, SessionTyped, Prepared, matches, Live
    <3>2. Explained(s)
      BY <3>1 DEF ProvedExplained
    <3> QED
      BY <3>1, <3>2, ExplainedKept
  <2> QED
    BY <1>2, <2>1, <2>2, StatusStep DEF StatusFrame
<1> QED
  BY <1>1, <1>2

(* The invariant of the amounts.                                           *)
AInv == Contents /\ Room /\ WithinEvidence /\ ProvedExplained /\ FinalizedExplained

-----------------------------------------------------------------------------
(* What an open transaction has read is still so when it commits.          *)

LEMMA PostedInKept ==
  ASSUME EInv, LInv, [Next]_vars, NEW c \in Clients, NEW s \in Sessions, s = holds[c]
  PROVE  /\ PostedIn(s.account, s.period)' = PostedIn(s.account, s.period)
         /\ \A o \in PostedIn(s.account, s.period) :
              Newest(o)' = Newest(o) /\ Latest(o)' = Latest(o)
<1>1. \A o \in Observations : AccountOf[o] = s.account => versions'[o] = versions[o]
  BY SessionFields, VersionsKept
<1>2. \A o \in Observations : AccountOf[o] = s.account =>
        Latest(o)' = Latest(o) /\ Newest(o)' = Newest(o)
  BY <1>1 DEF Latest, Newest, Facts
<1> QED
  BY <1>2 DEF PostedIn, InPeriod

(* What a planned match is of.                                             *)
Planned(c) ==
  /\ plan[c].observation \in PostedIn(holds[c].account, holds[c].period)
  /\ plan[c].number = Latest(plan[c].observation)
  /\ plan[c].line \in CashLines[holds[c].account]
  /\ LinePeriod[plan[c].line] = holds[c].period
  /\ plan[c].amount \in Amounts /\ 0 < plan[c].amount

(* What the proof of a transition has found besides.                       *)
Found(s) ==
  /\ \A a \in Live(s) : a.observation \in PostedIn(s.account, s.period)
  /\ Movement(s) = BankMovement(s)

VoidsOfMatches == voided \subseteq {a.key : a \in allocations}
RInv ==
  /\ VoidsOfMatches
  /\ \A c \in Clients : plan[c] # Null => Planned(c)
  /\ \A c \in Clients : target[c] # Null => Found(holds[c])

LEMMA PlannedNext ==
  ASSUME EInv, LInv, RInv, [Next]_vars, NEW c \in Clients, plan'[c] # Null
  PROVE  Planned(c)'
<1>1. CASE plan'[c] = plan[c] /\ holds'[c] = holds[c]
  <2> SUFFICES ASSUME NEW a \in Allocation, a = plan[c], NEW s \in Sessions, s = holds[c]
               PROVE  Planned(c)'
    BY <1>1 DEF LInv, SessionTyped, Prepared
  <2>1. Planned(c)
    BY <1>1 DEF RInv
  <2>2. a.observation \in PostedIn(s.account, s.period)'
        /\ Latest(a.observation)' = Latest(a.observation)
    BY <2>1, PostedInKept DEF Planned
  <2> QED
    BY <1>1, <2>1, <2>2 DEF Planned
<1>2. ASSUME NEW s \in Sessions, NEW k \in Keys, NEW o \in Observations,
             NEW l \in Lines, NEW i \in Amounts, BeginMatch(c, s, k, o, l, i)
      PROVE  Planned(c)'
  <2> DEFINE a == [key |-> k, session |-> s, observation |-> o, number |-> Latest(o),
                   line |-> l, amount |-> i]
  <2>1. Matchable(s, a) /\ Begin(c, s, Null, a) /\ versions' = versions
    BY <1>2 DEF BeginMatch, evidence
  <2>2. plan'[c] = a /\ holds'[c] = s
    BY <2>1, Begun DEF LInv
  <2>3. /\ o \in PostedIn(s.account, s.period) /\ l \in CashLines[s.account]
        /\ LinePeriod[l] = s.period /\ 0 < i
    BY <2>1 DEF Matchable, Matching, LinesIn
  <2>4. o \in PostedIn(s.account, s.period)' /\ Latest(o)' = Latest(o)
    BY <2>1, <2>3 DEF PostedIn, InPeriod, Newest, Facts, Latest
  <2> QED
    BY <2>2, <2>3, <2>4 DEF Planned
<1> QED
  BY <1>1, <1>2, PlanStep

LEMMA FoundNext ==
  ASSUME EInv, LInv, RInv, [Next]_vars, NEW c \in Clients, target'[c] # Null,
         NEW s \in Sessions, s = holds'[c]
  PROVE  Found(s)'
<1>1. ASSUME Found(s), Live(s)' = Live(s),
             PostedIn(s.account, s.period)' = PostedIn(s.account, s.period),
             \A o \in PostedIn(s.account, s.period) : Newest(o)' = Newest(o)
      PROVE  Found(s)'
  <2>1. BankMovement(s)' = BankMovement(s)
    BY <1>1 DEF BankMovement
  <2> QED
    BY <1>1, <2>1 DEF Found, Movement
<1>2. CASE target'[c] = target[c] /\ holds'[c] = holds[c] /\ plan[c] = Null
  <2>1. s = holds[c] /\ Found(s)
    BY <1>2 DEF RInv
  <2>2. Live(s)' = Live(s)
    BY <1>2, <2>1, LiveKept
  <2> QED
    BY <1>1, <2>1, <2>2, PostedInKept
<1>3. ASSUME NEW q \in Sessions, NEW t \in DOMAIN From, BeginAdvance(c, q, t)
      PROVE  Found(s)'
  <2>1. s = q /\ Balanced(q) /\ versions' = versions /\ Live(q)' = Live(q)
    BY <1>3, Begun DEF BeginAdvance, evidence, matches, Live, LInv
  <2>2. Found(q)
    BY <2>1 DEF Balanced, Valid, Matching, Found
  <2>3. PostedIn(q.account, q.period)' = PostedIn(q.account, q.period)
        /\ \A o : Newest(o)' = Newest(o)
    BY <2>1 DEF PostedIn, InPeriod, Newest, Facts, Latest
  <2> QED
    BY <1>1, <2>1, <2>2, <2>3
<1> QED
  BY <1>2, <1>3, TargetKept

LEMMA RInvNext ==
  ASSUME EInv, LInv, RInv, LInv', [Next]_vars
  PROVE  RInv'
<1>1. VoidsOfMatches'
  <2>1. ASSUME NEW a \in allocations, VoidMatch(a)
        PROVE  VoidsOfMatches'
    BY <2>1 DEF VoidMatch, VoidsOfMatches, RInv
  <2>2. ASSUME NEW c \in Clients, CommitMatch(c)
        PROVE  VoidsOfMatches'
    BY <2>2 DEF CommitMatch, VoidsOfMatches, RInv
  <2> QED
    BY <2>1, <2>2, MatchesStep DEF MatchesFrame, matches, VoidsOfMatches, RInv
<1>2. ASSUME NEW c \in Clients, target'[c] # Null
      PROVE  Found(holds[c])'
  <2>1. holds'[c] \in Sessions
    BY <1>2 DEF LInv, Prepared
  <2> SUFFICES ASSUME NEW s \in Sessions, s = holds'[c]
               PROVE  Found(s)'
    BY <2>1
  <2> QED
    BY <1>2, FoundNext
<1> QED
  BY <1>1, <1>2, PlannedNext DEF RInv

-----------------------------------------------------------------------------
(* The state of the abstract book.                                         *)

LEMMA Recorded ==
  ASSUME EInv, Contents, NEW o \in Observations
  PROVE  /\ DOMAIN Record[o] = 1..Latest(o) /\ Len(Record[o]) = Latest(o)
         /\ Record[o] # <<>> <=> Latest(o) > 0
         /\ Latest(o) > 0 => Book!Newest(o) = Newest(o)
<1>1. Latest(o) \in Nat
  BY DEF EInv, EvidenceTyped, Latest
<1>2. Record[o] = [n \in 1..Latest(o) |-> Facts(o, n)]
  BY DEF Record
<1>3. Record[o] \in Seq(Content)
  <2>1. \A n \in 1..Latest(o) : Facts(o, n) \in Content
    BY FactsTyped
  <2> QED
    BY <1>1, <1>2, <2>1
<1>4. DOMAIN Record[o] = 1..Latest(o)
  BY <1>2
<1>5. Len(Record[o]) = Latest(o)
  <2>1. DOMAIN Record[o] = 1..Len(Record[o]) /\ Len(Record[o]) \in Nat
    BY <1>3
  <2> QED
    BY <1>1, <1>4, <2>1
<1>6. Record[o] # <<>> <=> Latest(o) > 0
  BY <1>1, <1>3, <1>5
<1>7. Latest(o) > 0 => Book!Newest(o) = Newest(o)
  BY <1>1, <1>2, <1>5 DEF Book!Newest, Newest
<1> QED
  BY <1>4, <1>5, <1>6, <1>7

LEMMA DueIsPosted ==
  ASSUME EInv, Contents, NEW s
  PROVE  Book!Due(s) = PostedIn(s.account, s.period)
  BY Recorded DEF Book!Due, PostedIn, InPeriod

(* The book adds up with the same operator.                                *)
LEMMA SameSum == \A f : Book!SumFunction(f) = SumFunction(f)
  BY DEF Book!SumFunction, SumFunction, Book!SumFunctionOnSet, SumFunctionOnSet,
         Book!FoldFunctionOnSet, FoldFunctionOnSet, Book!MapThenFoldSet, MapThenFoldSet

LEMMA SameSets ==
  /\ \A s : Book!Of(s) = Live(s)
  /\ Book!Counted = Counted
  /\ \A S : Book!Total(S) = Total(S)
  /\ \A i : Book!Size(i) = Abs(i)
  /\ \A S, o, n : Book!OnVersion(S, o, n) = OnVersion(S, o, n)
  /\ \A S, l : Book!OnLine(S, l) = OnLine(S, l)
<1>1. \A s : Book!Of(s) = Live(s)
  BY DEF Book!Of, Live, Standing
<1>2. Book!Counted = Counted
  BY DEF Book!Counted, Counted, Standing
<1>3. \A S : Book!Total(S) = Total(S)
  BY SameSum DEF Book!Total, Total
<1>4. \A i : Book!Size(i) = Abs(i)
  BY DEF Book!Size, Abs
<1>5. \A S, o, n : Book!OnVersion(S, o, n) = OnVersion(S, o, n)
  BY DEF Book!OnVersion, OnVersion
<1>6. \A S, l : Book!OnLine(S, l) = OnLine(S, l)
  BY DEF Book!OnLine, OnLine
<1> QED
  BY <1>1, <1>2, <1>3, <1>4, <1>5, <1>6

LEMMA RecordGrows ==
  ASSUME EInv, Contents, [Next]_vars
  PROVE  Book!Grows
<1> SUFFICES ASSUME NEW o \in Observations, NEW n \in DOMAIN Record[o]
             PROVE  n \in DOMAIN Record'[o] /\ Record'[o][n] = Record[o][n]
  BY DEF Book!Grows
<1>1. n \in 1..Latest(o)
  BY Recorded
<1>2. n \in 1..Latest(o)' /\ Facts(o, n)' = Facts(o, n)
  BY <1>1, VersionsGrow DEF Facts
<1> QED
  BY <1>1, <1>2 DEF Record

LEMMA RecordStays ==
  ASSUME versions' = versions
  PROVE  Record' = Record
  BY DEF Record, Latest, Facts

-----------------------------------------------------------------------------
(* The steps.                                                              *)

LEMMA BookStart == Init => Book!BookInit
<1> SUFFICES ASSUME Init PROVE Book!BookInit
  OBVIOUS
<1>1. \A o \in Observations : [n \in 1..Latest(o) |-> Facts(o, n)] = <<>>
  <2> TAKE o \in Observations
  <2>1. Latest(o) = 0
    BY DEF Init, Latest
  <2> QED
    BY <2>1
<1>2. Record = [o \in Observations |-> <<>>]
  BY <1>1 DEF Record
<1> QED
  BY <1>2 DEF Init, Book!BookInit, Standing

(* A session is created as its chain goes on.                              *)
LEMMA Opens ==
  ASSUME LInv, NEW s \in Sessions, status[s] = "NONE", Continues(s),
         status' = [status EXCEPT ![s] = "DRAFT"], UNCHANGED <<posted, matches>>,
         Book!Grows
  PROVE  Book!Open(s)
<1>1. Book!Chain(s) = Before(s) /\ Book!Chain(s) \subseteq Sessions
  BY DEF Book!Chain, Book!Started, Before, Open, Continues
<1>2. \A p \in Book!Chain(s) : p.period < s.period
  BY <1>1 DEF Before
<1>3. ASSUME Book!Chain(s) # {}
      PROVE  \E p \in Book!Chain(s) : /\ status[p] = "FINALIZED"
                                      /\ p.period + 1 = s.period /\ p.closing = s.opening
  <2>1. PICK p \in Before(s) : \A q \in Before(s) : q.period <= p.period
    BY <1>1, <1>2, <1>3, LastSession, SessionFields
  <2> QED
    BY <1>1, <2>1 DEF Continues
<1>4. Standing' = Standing
  BY DEF Standing, matches
<1> QED
  BY <1>2, <1>3, <1>4 DEF Book!Open

(* A match that commits is one that could be made now.                     *)
LEMMA Commits ==
  ASSUME EInv, LInv, Contents, Room, RInv, NEW c \in Clients, CommitMatch(c)
  PROVE  Book!BookNext
<1> SUFFICES ASSUME NEW a \in Allocation, a = plan[c], NEW s \in Sessions, s = holds[c]
             PROVE  Book!BookNext
  BY DEF CommitMatch, LInv, SessionTyped, Prepared
<1> DEFINE n == Latest(a.observation)
<1>1. /\ Planned(c) /\ Placed(c) /\ a.session = s /\ status[s] = "DRAFT" /\ a # Null
      /\ \A b \in allocations : b.key # a.key
  BY DEF CommitMatch, RInv, Room, LInv, Prepared, KeysUnique
<1>2. /\ a.observation \in Book!Due(s) /\ a.line \in CashLines[s.account]
      /\ LinePeriod[a.line] = s.period /\ a.amount \in Amounts /\ 0 < a.amount
      /\ a.number = n
  BY <1>1, DueIsPosted DEF Planned
<1>3. a.observation \in Observations /\ a.line \in Lines /\ a.key \in Keys
  BY DEF Allocation
<1>4. Len(Record[a.observation]) = n /\ Book!Newest(a.observation) = Facts(a.observation, n)
  <2>1. Latest(a.observation) > 0
    BY <1>1 DEF Planned, PostedIn, InPeriod
  <2> QED
    BY <1>3, <2>1, Recorded DEF Newest
<1>5. /\ a.amount + Total(OnVersion(Counted, a.observation, n))
           <= Abs(Facts(a.observation, n).amount)
      /\ a.amount + Total(OnLine(Counted, a.line)) <= Abs(LineAmount[a.line])
  BY <1>1, <1>2 DEF Placed, Fits
<1>6. a = [key |-> a.key, session |-> s, observation |-> a.observation, number |-> n,
           line |-> a.line, amount |-> a.amount]
  BY <1>1, <1>2 DEF Allocation
<1>7. Standing' = Standing \cup {a}
  <2>1. allocations' = allocations \cup {a} /\ voided' = voided
    BY DEF CommitMatch
  <2>2. a.key \notin voided
    BY <1>1 DEF RInv, VoidsOfMatches
  <2> QED
    BY <2>1, <2>2 DEF Standing
<1>8. UNCHANGED <<Record, posted, status>>
  BY RecordStays DEF CommitMatch, evidence
<1>9. \A b \in Standing : b.key # a.key
  BY <1>1 DEF Standing
<1>10. Book!Match(s, a.key, a.observation, a.line, a.amount)
  <2> HIDE DEF n
  <2> QED
    BY <1>1, <1>2, <1>4, <1>5, <1>6, <1>7, <1>8, <1>9, SameSets DEF Book!Match
<1> QED
  BY <1>2, <1>3, <1>10 DEF Book!BookNext

LEMMA Unmatches ==
  ASSUME LInv, NEW a \in allocations, VoidMatch(a)
  PROVE  Book!BookNext
<1>1. a \in Standing /\ status[a.session] = "DRAFT"
      /\ UNCHANGED <<versions, posted, status, allocations>>
  BY DEF VoidMatch, Standing, evidence
<1>2. Standing' = Standing \ {a}
  BY DEF VoidMatch, Standing, LInv, KeysUnique
<1>3. Book!Unmatch(a)
  BY <1>1, <1>2, RecordStays DEF Book!Unmatch
<1> QED
  BY <1>1, <1>3 DEF Book!BookNext

(* A session advances by a proof that is true when it commits.             *)
LEMMA Advances ==
  ASSUME EInv, LInv, Contents, Proved, RInv, NEW c \in Clients, CommitAdvance(c)
  PROVE  Book!BookNext
<1> SUFFICES ASSUME NEW s \in Sessions, s = holds[c], NEW t \in DOMAIN From, t = target[c]
             PROVE  Book!BookNext
  BY DEF CommitAdvance, LInv, SessionTyped, Prepared
<1>1. /\ ObservationsMatched(s) /\ OnNewest(s) /\ OnPosted(s) /\ Found(s)
      /\ status[s] = From[t] /\ status' = [status EXCEPT ![s] = t]
      /\ UNCHANGED <<versions, posted, allocations, voided>>
  BY DEF CommitAdvance, Proved, RInv, LInv, Prepared, evidence, matches
<1>2. Book!Due(s) = PostedIn(s.account, s.period) /\ Book!Of(s) = Live(s)
  BY DueIsPosted, SameSets
<1>3. \A o \in PostedIn(s.account, s.period) :
        o \in Observations /\ Len(Record[o]) = Latest(o) /\ Book!Newest(o) = Newest(o)
  BY Recorded DEF PostedIn, InPeriod
<1>4. \A a \in Live(s) : /\ a.line \in posted /\ a.observation \in Book!Due(s)
                         /\ a.number = Len(Record[a.observation])
  BY <1>1, <1>2, <1>3 DEF OnPosted, OnNewest, Found
<1>5. \A o \in PostedIn(s.account, s.period) :
        Book!Total(Book!OnVersion(Live(s), o, Len(Record[o]))) = Book!Size(Book!Newest(o).amount)
  BY <1>1, <1>3, SameSets DEF ObservationsMatched
<1>6. s.closing - s.opening = SumFunction([o \in Book!Due(s) |-> Book!Newest(o).amount])
  <2>1. [o \in Book!Due(s) |-> Book!Newest(o).amount]
          = [o \in PostedIn(s.account, s.period) |-> Newest(o).amount]
    BY <1>2, <1>3
  <2> QED
    BY <1>1, <2>1 DEF Found, Movement, BankMovement
<1>7. Book!Explained(s)
  <2>1. \A a \in Book!Of(s) : /\ a.line \in posted /\ a.observation \in Book!Due(s)
                             /\ a.number = Len(Record[a.observation])
    BY <1>2, <1>4
  <2>2. \A o \in Book!Due(s) :
          Book!Total(Book!OnVersion(Book!Of(s), o, Len(Record[o])))
            = Book!Size(Book!Newest(o).amount)
    BY <1>2, <1>5
  <2> QED
    BY <1>6, <2>1, <2>2, SameSum DEF Book!Explained
<1>8. Standing' = Standing /\ Record' = Record
  BY <1>1, RecordStays DEF Standing
<1>9. Book!Advance(s, t)
  BY <1>1, <1>7, <1>8 DEF Book!Advance
<1> QED
  BY <1>9 DEF Book!BookNext

LEMMA BookStep ==
  ASSUME IInv, AInv, RInv, [Next]_vars
  PROVE  [Book!BookNext]_Book!bookVars
<1>0. EInv /\ LInv /\ Contents /\ Room /\ Proved
  BY DEF IInv, SInv, LInv, AInv
<1>1. ASSUME UNCHANGED <<versions, posted, status, matches>>
      PROVE  UNCHANGED Book!bookVars
  BY <1>1, RecordStays DEF Book!bookVars, Standing, matches
<1>2. ASSUME UNCHANGED <<posted, status, matches>>
      PROVE  Book!Learn
  BY <1>0, <1>2, RecordGrows DEF Book!Learn, Standing, matches
<1>3. ASSUME NEW l \in Lines, Post(l) \/ Unpost(l)
      PROVE  Book!Books
  <2>1. UNCHANGED <<versions, status, matches>>
    BY <1>3 DEF Post, Unpost, evidence
  <2>2. \A a \in Standing : a.line \in posted => a.line \in posted'
    BY MatchedLinesKept DEF Standing
  <2> QED
    BY <2>1, <2>2, RecordStays DEF Book!Books, Standing, matches
<1>4. ASSUME NEW s \in Sessions, Create(s)
      PROVE  Book!Open(s)
  BY <1>0, <1>4, Opens, RecordGrows DEF Create
<1>5. ASSUME NEW s \in Sessions, ImportStatement(s)
      PROVE  Book!Open(s) \/ Book!Learn
  <2>1. CASE status[s] = "NONE"
    BY <1>0, <1>5, <2>1, Opens, RecordGrows DEF ImportStatement
  <2>2. CASE status[s] = "DRAFT"
    <3>1. status' = status
      BY <1>0, <1>5, <2>2 DEF ImportStatement, LInv, SessionTyped
    <3> QED
      BY <1>2, <1>5, <3>1 DEF ImportStatement
  <2> QED
    BY <1>5, <2>1, <2>2 DEF ImportStatement
<1>6. ASSUME NEW s \in Sessions, Void(s)
      PROVE  Book!GiveUp(s)
  <2>1. /\ status[s] \in {"DRAFT", "SUBMITTED", "REVIEWED"}
        /\ status' = [status EXCEPT ![s] = "VOIDED"]
        /\ UNCHANGED <<versions, posted, matches>>
    BY <1>6 DEF Void, Voidable, evidence
  <2>2. {"DRAFT", "SUBMITTED", "REVIEWED"} = {From[t] : t \in DOMAIN From}
    BY DEF From
  <2> QED
    BY <2>1, <2>2, RecordStays DEF Book!GiveUp, Standing, matches
<1>7. ASSUME NEW r \in Runs, BeginSync(r) \/ Fetch(r) \/ Ingest(r) \/ FailSync(r)
      PROVE  UNCHANGED Book!bookVars
  BY <1>1, <1>7 DEF BeginSync, Fetch, Ingest, FailSync
<1>8. ASSUME NEW r \in Runs, CommitIngest(r)
      PROVE  Book!Learn
  BY <1>2, <1>8 DEF CommitIngest
<1>9. ASSUME NEW a \in Accounts, NEW p \in Periods, ImportTransactions(a, p)
      PROVE  Book!Learn
  BY <1>2, <1>9 DEF ImportTransactions
<1>10. ASSUME NEW o \in Feed, Show(o)
       PROVE  UNCHANGED Book!bookVars
  BY <1>1, <1>10 DEF Show
<1>11. ASSUME NEW c \in Clients, NEW s \in Sessions, NEW k \in Keys, NEW o \in Observations,
              NEW l \in Lines, NEW i \in Amounts, BeginMatch(c, s, k, o, l, i)
       PROVE  UNCHANGED Book!bookVars
  BY <1>1, <1>11 DEF BeginMatch, evidence
<1>12. ASSUME NEW c \in Clients, NEW s \in Sessions, NEW t \in DOMAIN From,
              BeginAdvance(c, s, t)
       PROVE  UNCHANGED Book!bookVars
  BY <1>1, <1>12 DEF BeginAdvance, evidence
<1>13. ASSUME NEW c \in Clients, Abort(c)
       PROVE  UNCHANGED Book!bookVars
  BY <1>1, <1>13 DEF Abort, evidence
<1>14. ASSUME NEW c \in Clients, CommitMatch(c) \/ CommitAdvance(c)
       PROVE  Book!BookNext
  BY <1>0, <1>14, Commits, Advances
<1>15. ASSUME NEW a \in allocations, VoidMatch(a)
       PROVE  Book!BookNext
  BY <1>0, <1>15, Unmatches
<1>16. CASE UNCHANGED vars
  BY <1>1, <1>16 DEF vars, evidence
<1>17. ASSUME \/ Book!Learn \/ Book!Books
              \/ \E s \in Sessions : Book!Open(s) \/ Book!GiveUp(s)
       PROVE  Book!BookNext
  BY <1>17 DEF Book!BookNext
<1>18. CASE Next
  BY <1>3, <1>4, <1>5, <1>6, <1>7, <1>8, <1>9, <1>10, <1>11, <1>12, <1>13, <1>14, <1>15,
     <1>17, <1>18 DEF Next
<1> QED
  BY <1>16, <1>18

-----------------------------------------------------------------------------
(* The theorems.                                                           *)

(* The invariant.                                                          *)
THEOREM Invariance == Spec => []IInv
<1>1. Init => IInv
  <2> SUFFICES ASSUME Init PROVE IInv
    OBVIOUS
  <2>1. LInv
    BY LocksInvariant
  <2>2. Proved /\ FinalizedLinesPosted /\ Chained
    BY DEF Init, Proved, FinalizedLinesPosted, Chained, Open
  <2> QED
    BY <2>1, <2>2, EvidenceInit DEF IInv, SInv, LInv
<1>2. IInv /\ [Next]_vars => IInv'
  <2> SUFFICES ASSUME IInv, [Next]_vars PROVE IInv'
    OBVIOUS
  <2>1. EInv /\ EvidenceTyped /\ LInv /\ Proved /\ FinalizedLinesPosted /\ Chained
    BY DEF IInv, EInv, SInv, LInv
  <2>2. EInv' /\ LInv' /\ Proved' /\ FinalizedLinesPosted' /\ Chained'
    BY <2>1, EvidenceNext, LocksInvariant, ProvedNext, FinalizedNext, ChainedNext
  <2> QED
    BY <2>2 DEF IInv, SInv, LInv
<1> QED
  BY <1>1, <1>2, PTL DEF Spec

(* Every variable has its type.                                            *)
THEOREM TypeCorrect == Spec => []TypeOK
<1>1. IInv => TypeOK
  BY DEF IInv, EInv, SInv, EvidenceTyped, SessionTyped, TypeOK
<1> QED
  BY <1>1, Invariance, PTL

(* Whatever becomes of the runs, versions are kept in the order of the     *)
(* bank.                                                                   *)
THEOREM Order == Spec => []InBankOrder
<1>1. IInv => InBankOrder
  BY DEF IInv, EInv
<1> QED
  BY <1>1, Invariance, PTL

(* The sessions of an account form one chain of consecutive statements,    *)
(* each closing with the balance the next one opens with.                  *)
THEOREM Chain == Spec => []Chained
<1>1. IInv => Chained
  BY DEF IInv, SInv
<1> QED
  BY <1>1, Invariance, PTL

(* The lines a finalized session was matched with stay posted.             *)
THEOREM LinesPosted == Spec => []FinalizedLinesPosted
<1>1. IInv => FinalizedLinesPosted
  BY DEF IInv, SInv
<1> QED
  BY <1>1, Invariance, PTL

(* The evidence a session was proved on is that of the moment it is        *)
(* finalized.                                                              *)
THEOREM Current == Spec => CurrentAtFinalization
<1> DEFINE Step ==
      \A s \in Sessions : status[s] # "FINALIZED" /\ status'[s] = "FINALIZED" =>
        /\ ObservationsMatched(s)'
        /\ (\A a \in Live(s) : a.number = Latest(a.observation))'
<1>1. IInv /\ [Next]_vars => Step
  <2> SUFFICES ASSUME IInv, [Next]_vars, NEW s \in Sessions,
                      status[s] # "FINALIZED", status'[s] = "FINALIZED"
               PROVE  /\ ObservationsMatched(s)'
                      /\ (\A a \in Live(s) : a.number = Latest(a.observation))'
    OBVIOUS
  <2>1. LInv /\ Proved
    BY DEF IInv, SInv, LInv
  <2>2. ObservationsMatched(s)' /\ OnNewest(s)'
    BY <2>1, Finalization
  <2> QED
    BY <2>2 DEF OnNewest
<1>2. IInv /\ [Next]_vars => [Step]_vars
  BY <1>1
<1> QED
  BY <1>2, Invariance, PTL DEF Spec, CurrentAtFinalization

(* The matches of a submitted session are those it was submitted with.     *)
THEOREM MatchesKept == Spec => MatchesStand
<1> DEFINE Step ==
      \A s \in Sessions : status[s] # "DRAFT" \/ status'[s] # "DRAFT" => Live(s)' = Live(s)
<1>1. IInv /\ [Next]_vars => Step
  <2> SUFFICES ASSUME IInv, [Next]_vars, NEW s \in Sessions,
                      status[s] # "DRAFT" \/ status'[s] # "DRAFT"
               PROVE  Live(s)' = Live(s)
    OBVIOUS
  <2>1. LInv
    BY DEF IInv, SInv, LInv
  <2>2. CASE status[s] # "DRAFT"
    BY <2>1, <2>2, LiveKept
  <2>3. CASE status[s] = "DRAFT"
    <3>1. ~ UNCHANGED status
      BY <2>3
    <3>2. ASSUME NEW q \in Sessions, Create(q) \/ ImportStatement(q) \/ Void(q)
          PROVE  Live(s)' = Live(s)
      BY <3>2 DEF Create, ImportStatement, Void, matches, Live
    <3>3. ASSUME NEW c \in Clients, CommitAdvance(c)
          PROVE  Live(s)' = Live(s)
      BY <3>3 DEF CommitAdvance, matches, Live
    <3> QED
      BY <3>1, <3>2, <3>3, StatusStep DEF StatusFrame
  <2> QED BY <2>2, <2>3
<1>2. IInv /\ [Next]_vars => [Step]_vars
  BY <1>1
<1> QED
  BY <1>2, Invariance, PTL DEF Spec, MatchesStand

(* In every state amounts are in keeping with each other.                  *)
THEOREM AmountsInvariance == Spec => []AInv
<1>1. Init => AInv
  <2> SUFFICES ASSUME Init PROVE AInv
    OBVIOUS
  <2>1. Contents /\ \A o \in Observations : 1..Latest(o) = {}
    BY DEF Init, Contents, Latest
  <2>2. Room /\ ProvedExplained /\ FinalizedExplained
    BY FS_EmptySet DEF Init, Room, ProvedExplained, FinalizedExplained
  <2>3. WithinEvidence
    <3>1. Counted = {}
      BY DEF Init, Counted
    <3>2. \A l \in Lines : Total(OnLine(Counted, l)) = 0 /\ Abs(LineAmount[l]) \in Nat
      <4>1. \A l \in Lines : OnLine(Counted, l) = {} /\ LineAmount[l] \in Int
        BY <3>1, LineAssumption DEF OnLine
      <4> QED
        BY <4>1, NothingMatched DEF Abs
    <3> QED
      BY <2>1, <3>2 DEF WithinEvidence
  <2> QED
    BY <2>1, <2>2, <2>3 DEF AInv
<1>2. IInv /\ AInv /\ [Next]_vars => AInv'
  <2> SUFFICES ASSUME IInv, AInv, [Next]_vars PROVE AInv'
    OBVIOUS
  <2>1. EInv /\ LInv
    BY DEF IInv, SInv, LInv
  <2> QED
    BY <2>1, ContentsNext, RoomNext, WithinNext, ProvedExplainedNext,
       FinalizedExplainedNext DEF AInv
<1> QED
  BY <1>1, <1>2, Invariance, PTL DEF Spec

(* No version of an observation and no line is matched for more than its   *)
(* amount, whatever sessions match at once.                                *)
THEOREM Within == Spec => []WithinEvidence
<1>1. AInv => WithinEvidence
  BY DEF AInv
<1> QED
  BY <1>1, AmountsInvariance, PTL

(* The matches of a finalized session explain its statement for good.      *)
THEOREM ExplainedForGood == Spec => []FinalizedExplained
<1>1. AInv => FinalizedExplained
  BY DEF AInv
<1> QED
  BY <1>1, AmountsInvariance, PTL

(* What open transactions have read holds until they commit.               *)
THEOREM ReadsHold == Spec => []RInv
<1>1. Init => RInv
  BY DEF Init, RInv, VoidsOfMatches
<1>2. IInv /\ IInv' /\ RInv /\ [Next]_vars => RInv'
  <2> SUFFICES ASSUME IInv, IInv', RInv, [Next]_vars PROVE RInv'
    OBVIOUS
  <2>1. EInv /\ LInv /\ LInv'
    BY DEF IInv, SInv, LInv
  <2> QED
    BY <2>1, RInvNext
<1> QED
  BY <1>1, <1>2, Invariance, PTL DEF Spec

(* Reconciliation implements the book: whatever is interleaved, each match *)
(* and each transition is as if it were decided when it commits.           *)
THEOREM ImplementsBook == Spec => ImplementsStatementBook
<1>1. Init => Book!BookInit
  BY BookStart
<1>2. IInv /\ AInv /\ RInv /\ [Next]_vars => [Book!BookNext]_Book!bookVars
  BY BookStep
<1> QED
  BY <1>1, <1>2, Invariance, AmountsInvariance, ReadsHold, PTL
     DEF Spec, ImplementsStatementBook, Book!Spec
=============================================================================
