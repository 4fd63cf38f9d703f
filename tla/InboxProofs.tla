---------------------------- MODULE InboxProofs ----------------------------
(***************************************************************************)
(* What holds of DocumentInbox for any number of files, connections,       *)
(* clients, contents and changes by the owner.                             *)
(*                                                                         *)
(* Open transactions are of different connections (OnePerConnection), so   *)
(* what a completion has checked stays true until it commits (Completing)  *)
(* but for a completion of another connection; that one holds other locks  *)
(* (LocksExclude, LocksHeld).  So a commit enters its document as if it    *)
(* were checked then: the inbox implements DocumentRegister.               *)
(***************************************************************************)
EXTENDS DocumentInbox, TLAPS

Recording == {"CREATE", "LINK_POSTED"}
InTransaction(c) == pc[c] \in {"completing", "moving"}

ItemsHaveFiles ==
  \A f \in Files : IF where[f] = "NONE" THEN status[f] = "NONE" ELSE content[f] \in Contents

OnePerConnection ==
  \A c, d \in Clients : c # d /\ InTransaction(c) /\ InTransaction(d) =>
    home[job[c].file] # home[job[d].file]

(* What the checks of a completion found.                                  *)
Checked(c) ==
  LET f == job[c].file IN
  /\ f \in Files /\ job[c].action \in Action /\ job[c].sha \in Contents
  /\ job[c].action = "CREATE" <=> job[c].business # Null
  /\ status[f] = "CLAIMED" /\ action[f] = Null /\ job[c].sha = seen[c][f]
  /\ f \notin touched => where[f] = "INBOX" /\ content[f] = job[c].sha
  /\ \A g \in Files \ {f} : action[g] \in Recording /\ job[c].action \in Recording =>
       /\ sha[g] # job[c].sha
       /\ action[g] = "CREATE" /\ job[c].action = "CREATE" => business[g] # job[c].business
Completing == \A c \in Clients : pc[c] = "completing" => Checked(c)

Filing ==
  \A c \in Clients : /\ pc[c] = "moving" => job[c].file \in Files /\ ToFile(job[c].file)
                     /\ pc[c] = "failing" => job[c].file \in Files /\ action[job[c].file] # Null

LocksHeld ==
  \A c, d \in Clients :
    c # d /\ pc[c] = "completing" /\ pc[d] = "completing"
    /\ job[c].action \in Recording /\ job[d].action \in Recording =>
      /\ job[c].sha # job[d].sha
      /\ job[c].action = "CREATE" /\ job[d].action = "CREATE" => job[c].business # job[d].business

Safe ==
  /\ ItemsHaveFiles /\ OnePerConnection /\ Completing /\ Filing /\ LocksHeld
  /\ OneRecordPerOriginal /\ FilingStaysPossible /\ FiledAsCompleted /\ UploadKeysStandForContent
IInv == TypeOK /\ Safe

-----------------------------------------------------------------------------
(* Helpers.                                                                *)

(* Filing is kept by a step of one client, to a file that may be filed.    *)
LEMMA FilingKept ==
  ASSUME Filing, NEW c \in Clients, NEW f \in Files, ToFile(f), action[f] # Null,
         job'[c].file = f, UNCHANGED <<status, action>>,
         \A d \in Clients \ {c} : pc'[d] = pc[d] /\ job'[d] = job[d]
  PROVE  Filing'
<1> SUFFICES ASSUME NEW d \in Clients
             PROVE  /\ pc'[d] = "moving" => job'[d].file \in Files /\ ToFile(job[d].file)'
                    /\ pc'[d] = "failing" => job'[d].file \in Files /\ action'[job'[d].file] # Null
  BY DEF Filing
<1>1. CASE d = c
  BY <1>1 DEF ToFile
<1>2. CASE d # c
  <2>1. pc'[d] = pc[d] /\ job'[d] = job[d]
    BY <1>2
  <2>2. /\ pc[d] = "moving" => job[d].file \in Files /\ ToFile(job[d].file)
        /\ pc[d] = "failing" => job[d].file \in Files /\ action[job[d].file] # Null
    BY DEF Filing
  <2> QED
    BY <2>1, <2>2 DEF ToFile
<1> QED
  BY <1>1, <1>2

(* A transaction is of a file that has an item.                            *)
LEMMA TransactionHasItem ==
  ASSUME IInv, NEW c \in Clients, InTransaction(c)
  PROVE  job[c].file \in Files /\ where[job[c].file] # "NONE" /\ status[job[c].file] # "NONE"
  BY DEF IInv, Safe, InTransaction, Completing, Checked, Filing, ToFile, ItemsHaveFiles

LEMMA NoJobIsJob ==
  /\ NoJob \in Job
  /\ \A f \in Files : [NoJob EXCEPT !.file = f] \in Job /\ [NoJob EXCEPT !.file = f].file = f
  BY DEF NoJob, Job

(* A step of a client leaves the other clients where they are.             *)
LEMMA GotoMoves ==
  ASSUME TypeOK, NEW c \in Clients, NEW place \in {"idle", "completing", "moving", "failing"},
         NEW j \in Job, Goto(c, place, j)
  PROVE  /\ pc' \in [Clients -> {"idle", "completing", "moving", "failing"}]
         /\ job' \in [Clients -> Job]
         /\ pc'[c] = place /\ job'[c] = j
         /\ \A d \in Clients \ {c} : pc'[d] = pc[d] /\ job'[d] = job[d]
  BY DEF TypeOK, Goto

(* Completions that both record an original hold locks that exclude each   *)
(* other when they have the same content or the same business key.         *)
LEMMA LocksExclude ==
  ASSUME NEW a \in Recording, NEW x, NEW b, NEW e \in Recording, NEW y, NEW k,
         Locks(a, x, b) \cap Locks(e, y, k) = {}
  PROVE  x # y /\ (a = "CREATE" /\ e = "CREATE" => b # k)
  BY DEF Locks, Recording

(* Discovery leaves a completed item alone and opens any other.            *)
LEMMA DiscoveryOpens ==
  ASSUME TypeOK, NEW f \in Files, NEW x \in Contents, DiscoverFile(f, x)
  PROVE  /\ status' \in [Files -> Open \cup Completed \cup {"NONE"}]
         /\ version' \in [Files -> Maybe(Contents)]
         /\ claim' \in [Files -> Maybe(Clients)] /\ live' \in [Files -> BOOLEAN]
         /\ \A g \in Files \ {f} : status'[g] = status[g] /\ version'[g] = version[g] /\ live'[g] = live[g]
         /\ action[f] # Null => status' = status /\ version' = version /\ live' = live
         /\ action[f] = Null => version'[f] = x /\ status'[f] \notin Completed
         /\ live'[f] => status'[f] = "CLAIMED"
<1>1. CASE Known(f, x)
  BY <1>1 DEF TypeOK, DiscoverFile, Known, claims
<1>2. CASE ~Known(f, x)
  <2>1. PICK s \in {"PENDING", "NEEDS_REVIEW"} : status' = [status EXCEPT ![f] = s]
    BY <1>2 DEF DiscoverFile
  <2>2. /\ version' = [version EXCEPT ![f] = x] /\ claim' = [claim EXCEPT ![f] = Null]
        /\ live' = [live EXCEPT ![f] = FALSE] /\ action[f] = Null
    BY <1>2 DEF DiscoverFile, Known
  <2> QED
    BY <2>1, <2>2 DEF TypeOK, Open, Completed, Maybe
<1> QED
  BY <1>1, <1>2

-----------------------------------------------------------------------------
(* One lemma for every action.                                             *)

LEMMA DropKeeps ==
  ASSUME IInv, NEW f \in Files, NEW p \in Connections, NEW x \in Contents, Drop(f, p, x)
  PROVE  IInv'
<1>0. TypeOK /\ Safe /\ Drop(f, p, x)
  BY DEF IInv
<1>c. ItemsHaveFiles /\ OnePerConnection /\ Completing /\ Filing /\ LocksHeld /\
      OneRecordPerOriginal /\ FilingStaysPossible /\ FiledAsCompleted /\
      UploadKeysStandForContent
  BY <1>0 DEF Safe
<1>h. \A d \in Clients : InTransaction(d) =>
            job[d].file \in Files /\ where[job[d].file] # "NONE" /\ status[job[d].file] # "NONE"
  BY TransactionHasItem
<1>1. TypeOK'
  BY <1>0, <1>c DEF TypeOK, Maybe, Drop, Create, claims, result, uploads, clients, owner,
     Job, Action, Place
<1>2. ItemsHaveFiles'
  BY <1>0, <1>c, <1>h, SupportedAssumption, NullAssumption DEF TypeOK, ItemsHaveFiles,
     InTransaction, Drop, Create, claims, result, uploads, clients, owner, Open,
     Completed, ToFile
<1>3. OnePerConnection'
  BY <1>0, <1>c, <1>h DEF OnePerConnection, InTransaction, Drop, Create, claims, result,
     uploads, clients, owner, Open, Completed
<1>4. Completing'
  BY <1>0, <1>c DEF Completing, Checked, Recording, Drop, Create, claims, result, uploads,
     clients, owner
<1>5. FilingStaysPossible'
  BY <1>0, <1>c DEF FilingStaysPossible, ToFile, Fileable, Drop, Create, claims, result,
     uploads, clients, owner
<1>6. FiledAsCompleted'
  BY <1>0, <1>c DEF FiledAsCompleted, Drop, Create, claims, result, uploads, clients, owner
<1>7. Filing' /\ LocksHeld' /\ OneRecordPerOriginal' /\ UploadKeysStandForContent'
  BY <1>0, <1>c DEF Filing, LocksHeld, OneRecordPerOriginal, UploadKeysStandForContent,
     ToFile, Drop, Create, claims, result, uploads, clients, owner
<1> QED
  BY <1>1, <1>2, <1>3, <1>4, <1>5, <1>6, <1>7 DEF IInv, Safe

LEMMA EditKeeps ==
  ASSUME IInv, NEW f \in Files, NEW x \in Contents, Edit(f, x)
  PROVE  IInv'
<1>0. TypeOK /\ Safe /\ Edit(f, x)
  BY DEF IInv
<1>c. ItemsHaveFiles /\ OnePerConnection /\ Completing /\ Filing /\ LocksHeld /\
      OneRecordPerOriginal /\ FilingStaysPossible /\ FiledAsCompleted /\
      UploadKeysStandForContent
  BY <1>0 DEF Safe
<1>1. TypeOK'
  BY <1>0, <1>c, MaxEditsAssumption DEF TypeOK, Maybe, Edit, Touch, cloud, claims, result,
     uploads, clients, Job, Action, Place
<1>2. ItemsHaveFiles'
  BY <1>0, <1>c DEF ItemsHaveFiles, Edit, cloud, claims, result, uploads, clients
<1>3. Completing'
  BY <1>0, <1>c DEF Completing, Checked, Recording, Edit, Touch, cloud, claims, result,
     uploads, clients
<1>4. FilingStaysPossible'
  BY <1>0, <1>c DEF FilingStaysPossible, ToFile, Fileable, Edit, Touch, cloud, claims,
     result, uploads, clients
<1>5. FiledAsCompleted'
  BY <1>0, <1>c DEF FiledAsCompleted, Edit, Touch, cloud, claims, result, uploads, clients
<1>6. OnePerConnection' /\ Filing' /\ LocksHeld' /\ OneRecordPerOriginal' /\
      UploadKeysStandForContent'
  BY <1>0, <1>c DEF OnePerConnection, Filing, LocksHeld, OneRecordPerOriginal,
     UploadKeysStandForContent, InTransaction, ToFile, Edit, cloud, claims, result,
     uploads, clients
<1> QED
  BY <1>1, <1>2, <1>3, <1>4, <1>5, <1>6 DEF IInv, Safe

LEMMA RelocateKeeps ==
  ASSUME IInv, NEW f \in Files, NEW place \in {"INBOX", "AWAY"}, Relocate(f, place)
  PROVE  IInv'
<1>0. TypeOK /\ Safe /\ Relocate(f, place)
  BY DEF IInv
<1>c. ItemsHaveFiles /\ OnePerConnection /\ Completing /\ Filing /\ LocksHeld /\
      OneRecordPerOriginal /\ FilingStaysPossible /\ FiledAsCompleted /\
      UploadKeysStandForContent
  BY <1>0 DEF Safe
<1>1. TypeOK'
  BY <1>0, <1>c, MaxEditsAssumption DEF TypeOK, Maybe, Relocate, Touch, cloud, claims,
     result, uploads, clients, Job, Action, Place
<1>2. ItemsHaveFiles'
  BY <1>0, <1>c DEF ItemsHaveFiles, Relocate, cloud, claims, result, uploads, clients
<1>3. Completing'
  BY <1>0, <1>c DEF Completing, Checked, Recording, Relocate, Touch, cloud, claims,
     result, uploads, clients
<1>4. FilingStaysPossible'
  BY <1>0, <1>c DEF FilingStaysPossible, ToFile, Fileable, Relocate, Touch, cloud, claims,
     result, uploads, clients
<1>5. FiledAsCompleted'
  BY <1>0, <1>c DEF FiledAsCompleted, Relocate, Touch, cloud, claims, result, uploads,
     clients
<1>6. OnePerConnection' /\ Filing' /\ LocksHeld' /\ OneRecordPerOriginal' /\
      UploadKeysStandForContent'
  BY <1>0, <1>c DEF OnePerConnection, Filing, LocksHeld, OneRecordPerOriginal,
     UploadKeysStandForContent, InTransaction, ToFile, Relocate, cloud, claims, result,
     uploads, clients
<1> QED
  BY <1>1, <1>2, <1>3, <1>4, <1>5, <1>6 DEF IInv, Safe

LEMMA SyncKeeps ==
  ASSUME IInv, NEW f \in Files, Sync(f)
  PROVE  IInv'
<1>0. TypeOK /\ Safe /\ Sync(f)
  BY DEF IInv
<1>c. ItemsHaveFiles /\ OnePerConnection /\ Completing /\ Filing /\ LocksHeld /\
      OneRecordPerOriginal /\ FilingStaysPossible /\ FiledAsCompleted /\
      UploadKeysStandForContent
  BY <1>0 DEF Safe
<1>h. \A d \in Clients : InTransaction(d) =>
            job[d].file \in Files /\ where[job[d].file] # "NONE" /\ status[job[d].file] # "NONE"
  BY TransactionHasItem
<1>f. \A d \in Clients : InTransaction(d) => job[d].file # f
  BY <1>0 DEF Sync, Free, Locked, InTransaction
<1>d. /\ status' \in [Files -> Open \cup Completed \cup {"NONE"}]
      /\ version' \in [Files -> Maybe(Contents)]
      /\ claim' \in [Files -> Maybe(Clients)] /\ live' \in [Files -> BOOLEAN]
      /\ \A g \in Files \ {f} :
           status'[g] = status[g] /\ version'[g] = version[g] /\ live'[g] = live[g]
      /\ action[f] # Null => status' = status /\ version' = version /\ live' = live
      /\ action[f] = Null => version'[f] = content[f] /\ status'[f] \notin Completed
      /\ live'[f] => status'[f] = "CLAIMED"
  BY <1>0, <1>c, DiscoveryOpens DEF Sync, ItemsHaveFiles
<1>1. TypeOK'
  <2>1. UNCHANGED <<action, sha, business, pc, job, seen, touched, edits, where, content, name, home>>
    BY <1>0 DEF Sync, cloud, result, clients, owner
  <2>2. upload' \in [Files -> Maybe(Keys)] /\ hash' \in [Files -> Maybe(Contents)]
    BY <1>0, SupportedAssumption DEF Sync, SetUpload, TypeOK, Maybe, uploads
  <2>3. ASSUME NEW g \in Files
        PROVE  /\ status'[g] \in Completed <=> action'[g] # Null
               /\ live'[g] => status'[g] = "CLAIMED"
    BY <1>0, <1>d, <2>1 DEF TypeOK
  <2> QED
    BY <1>0, <1>d, <2>1, <2>2, <2>3 DEF TypeOK
<1>2. ItemsHaveFiles'
  BY <1>0, <1>c, <1>d DEF ItemsHaveFiles, Sync, SetUpload, cloud, result, clients, owner
<1>3. Completing'
  BY <1>0, <1>c, <1>f, <1>d DEF Completing, Checked, Recording, InTransaction, Sync,
     SetUpload, cloud, result, clients, owner, Open, Completed
<1>4. Filing'
  BY <1>0, <1>c, <1>f, <1>d DEF Filing, ToFile, InTransaction, Sync, SetUpload, cloud,
     result, clients, owner, Open, Completed
<1>5. FilingStaysPossible'
  BY <1>0, <1>c, <1>d DEF FilingStaysPossible, ToFile, Fileable, InTransaction, Sync,
     SetUpload, cloud, result, clients, owner, Open, Completed
<1>6. FiledAsCompleted'
  BY <1>0, <1>c, <1>d DEF FiledAsCompleted, InTransaction, Sync, SetUpload, cloud, result,
     clients, owner, Open, Completed
<1>7. UploadKeysStandForContent'
  <2> SUFFICES ASSUME NEW g \in Files, upload'[g] # Null, action'[g] = Null
               PROVE  version'[g] = hash'[g]
    BY DEF UploadKeysStandForContent
  <2>1. action'[g] = action[g] /\ (Known(f, content[f]) => version' = version)
    BY <1>0 DEF Sync, DiscoverFile, result
  <2>2. CASE Known(f, content[f])
    BY <1>0, <1>c, <2>1, <2>2 DEF Sync, UploadKeysStandForContent
  <2>3. CASE ~Known(f, content[f])
    BY <1>0, <1>c, <1>d, <2>1, <2>3 DEF Sync, SetUpload, TypeOK, UploadKeysStandForContent
  <2> QED
    BY <2>2, <2>3
<1>8. OnePerConnection' /\ LocksHeld' /\ OneRecordPerOriginal'
  BY <1>0, <1>c, <1>d DEF OnePerConnection, LocksHeld, OneRecordPerOriginal,
     InTransaction, Sync, cloud, result, clients, owner
<1> QED
  BY <1>1, <1>2, <1>3, <1>4, <1>5, <1>6, <1>7, <1>8 DEF IInv, Safe

LEMMA AdoptUploadKeeps ==
  ASSUME IInv, NEW f \in Files, NEW p \in Connections, NEW k \in Keys, NEW x \in Supported, AdoptUpload(f, p, k, x)
  PROVE  IInv'
<1>0. TypeOK /\ Safe /\ AdoptUpload(f, p, k, x)
  BY DEF IInv
<1>c. ItemsHaveFiles /\ OnePerConnection /\ Completing /\ Filing /\ LocksHeld /\
      OneRecordPerOriginal /\ FilingStaysPossible /\ FiledAsCompleted /\
      UploadKeysStandForContent
  BY <1>0 DEF Safe
<1>h. \A d \in Clients : InTransaction(d) =>
            job[d].file \in Files /\ where[job[d].file] # "NONE" /\ status[job[d].file] # "NONE"
  BY TransactionHasItem
<1>f. \A d \in Clients : InTransaction(d) => job[d].file # f
  BY <1>0 DEF AdoptUpload, FoundUploads, Locked, InTransaction
<1>d. /\ status' \in [Files -> Open \cup Completed \cup {"NONE"}]
      /\ version' \in [Files -> Maybe(Contents)]
      /\ claim' \in [Files -> Maybe(Clients)] /\ live' \in [Files -> BOOLEAN]
      /\ \A g \in Files \ {f} :
           status'[g] = status[g] /\ version'[g] = version[g] /\ live'[g] = live[g]
      /\ action[f] # Null => status' = status /\ version' = version /\ live' = live
      /\ action[f] = Null => version'[f] = x /\ status'[f] \notin Completed
      /\ live'[f] => status'[f] = "CLAIMED"
  BY <1>0, <1>c, DiscoveryOpens, SupportedAssumption DEF AdoptUpload
<1>1. TypeOK'
  <2>1. UNCHANGED <<action, sha, business, pc, job, seen, touched, edits, where, content, name, home>>
    BY <1>0 DEF AdoptUpload, cloud, result, clients, owner
  <2>2. upload' \in [Files -> Maybe(Keys)] /\ hash' \in [Files -> Maybe(Contents)]
    BY <1>0, SupportedAssumption DEF AdoptUpload, SetUpload, TypeOK, Maybe
  <2>3. ASSUME NEW g \in Files
        PROVE  /\ status'[g] \in Completed <=> action'[g] # Null
               /\ live'[g] => status'[g] = "CLAIMED"
    BY <1>0, <1>d, <2>1 DEF TypeOK
  <2> QED
    BY <1>0, <1>d, <2>1, <2>2, <2>3 DEF TypeOK
<1>2. ItemsHaveFiles'
  <2>1. UNCHANGED <<where, content>> /\ where[f] = "INBOX"
    BY <1>0 DEF AdoptUpload, FoundUploads, cloud
  <2> QED
    BY <1>c, <1>d, <2>1 DEF ItemsHaveFiles
<1>3. Completing'
  BY <1>0, <1>c, <1>f, <1>d DEF Completing, Checked, Recording, InTransaction,
     AdoptUpload, SetUpload, cloud, result, clients, owner, Open, Completed
<1>4. Filing'
  BY <1>0, <1>c, <1>f, <1>d DEF Filing, ToFile, InTransaction, AdoptUpload, SetUpload,
     cloud, result, clients, owner, Open, Completed
<1>5. FilingStaysPossible'
  BY <1>0, <1>c, <1>d DEF FilingStaysPossible, ToFile, Fileable, InTransaction,
     AdoptUpload, SetUpload, cloud, result, clients, owner, Open, Completed
<1>6. FiledAsCompleted'
  BY <1>0, <1>c, <1>d DEF FiledAsCompleted, InTransaction, AdoptUpload, SetUpload, cloud,
     result, clients, owner, Open, Completed
<1>7. UploadKeysStandForContent'
  BY <1>0, <1>c, <1>d DEF TypeOK, UploadKeysStandForContent, AdoptUpload, SetUpload,
     cloud, result, clients, owner
<1>8. OnePerConnection' /\ LocksHeld' /\ OneRecordPerOriginal'
  BY <1>0, <1>c, <1>d DEF OnePerConnection, LocksHeld, OneRecordPerOriginal,
     InTransaction, AdoptUpload, cloud, result, clients, owner
<1> QED
  BY <1>1, <1>2, <1>3, <1>4, <1>5, <1>6, <1>7, <1>8 DEF IInv, Safe

LEMMA NewUploadKeeps ==
  ASSUME IInv, NEW f \in Files, NEW p \in Connections, NEW k \in Keys, NEW x \in Supported, NewUpload(f, p, k, x)
  PROVE  IInv'
<1>0. TypeOK /\ Safe /\ NewUpload(f, p, k, x)
  BY DEF IInv
<1>c. ItemsHaveFiles /\ OnePerConnection /\ Completing /\ Filing /\ LocksHeld /\
      OneRecordPerOriginal /\ FilingStaysPossible /\ FiledAsCompleted /\
      UploadKeysStandForContent
  BY <1>0 DEF Safe
<1>h. \A d \in Clients : InTransaction(d) =>
            job[d].file \in Files /\ where[job[d].file] # "NONE" /\ status[job[d].file] # "NONE"
  BY TransactionHasItem
<1>f. /\ where[f] = "NONE"
      /\ \A d \in Clients : InTransaction(d) => job[d].file # f
  BY <1>0, <1>h DEF NewUpload, Create
<1>d. /\ status' \in [Files -> Open \cup Completed \cup {"NONE"}]
      /\ version' \in [Files -> Maybe(Contents)]
      /\ claim' \in [Files -> Maybe(Clients)] /\ live' \in [Files -> BOOLEAN]
      /\ \A g \in Files \ {f} :
           status'[g] = status[g] /\ version'[g] = version[g] /\ live'[g] = live[g]
      /\ action[f] # Null => status' = status /\ version' = version /\ live' = live
      /\ action[f] = Null => version'[f] = x /\ status'[f] \notin Completed
      /\ live'[f] => status'[f] = "CLAIMED"
  BY <1>0, <1>c, DiscoveryOpens, SupportedAssumption DEF NewUpload
<1>1. TypeOK'
  <2>1. UNCHANGED <<action, sha, business, pc, job, seen, touched, edits>>
    BY <1>0 DEF NewUpload, cloud, result, clients, owner
  <2>2. upload' \in [Files -> Maybe(Keys)] /\ hash' \in [Files -> Maybe(Contents)]
    BY <1>0, SupportedAssumption DEF NewUpload, SetUpload, TypeOK, Maybe
  <2>3. ASSUME NEW g \in Files
        PROVE  /\ status'[g] \in Completed <=> action'[g] # Null
               /\ live'[g] => status'[g] = "CLAIMED"
    BY <1>0, <1>d, <2>1 DEF TypeOK
  <2>4. /\ where' \in [Files -> Place] /\ content' \in [Files -> Maybe(Contents)]
        /\ name' \in [Files -> Maybe(Keys)] /\ home' \in [Files -> Maybe(Connections)]
    BY <1>0, SupportedAssumption DEF NewUpload, Create, TypeOK, Maybe, Place
  <2> QED
    BY <1>0, <1>d, <2>1, <2>2, <2>3, <2>4 DEF TypeOK
<1>2. ItemsHaveFiles'
  BY <1>0, <1>c, <1>d, SupportedAssumption, NullAssumption DEF TypeOK, ItemsHaveFiles,
     NewUpload, Create, SetUpload, result, clients, owner
<1>3. OnePerConnection'
  BY <1>0, <1>c, <1>f, <1>d DEF OnePerConnection, InTransaction, NewUpload, Create,
     SetUpload, result, clients, owner, Open, Completed
<1>4. Completing'
  BY <1>0, <1>c, <1>f, <1>d DEF Completing, Checked, Recording, InTransaction, NewUpload,
     Create, SetUpload, result, clients, owner, Open, Completed
<1>5. Filing'
  BY <1>0, <1>c, <1>h, <1>f, <1>d, SupportedAssumption, NullAssumption DEF Filing, ToFile,
     InTransaction, NewUpload, Create, SetUpload, result, clients, owner, Open, Completed
<1>6. FilingStaysPossible'
  BY <1>0, <1>c, <1>d DEF FilingStaysPossible, ToFile, Fileable, InTransaction, NewUpload,
     Create, SetUpload, result, clients, owner, Open, Completed
<1>7. FiledAsCompleted'
  BY <1>0, <1>c, <1>d DEF FiledAsCompleted, InTransaction, NewUpload, Create, SetUpload,
     result, clients, owner, Open, Completed
<1>8. UploadKeysStandForContent'
  BY <1>0, <1>c, <1>d DEF TypeOK, UploadKeysStandForContent, NewUpload, Create, SetUpload,
     result, clients, owner
<1>9. LocksHeld' /\ OneRecordPerOriginal'
  BY <1>0, <1>c, <1>d DEF LocksHeld, OneRecordPerOriginal, NewUpload, Create, result,
     clients, owner
<1> QED
  BY <1>1, <1>2, <1>3, <1>4, <1>5, <1>6, <1>7, <1>8, <1>9 DEF IInv, Safe

LEMMA LostUploadKeeps ==
  ASSUME IInv, NEW f \in Files, NEW p \in Connections, NEW k \in Keys, NEW x \in Supported, LostUpload(f, p, k, x)
  PROVE  IInv'
<1>0. TypeOK /\ Safe /\ LostUpload(f, p, k, x)
  BY DEF IInv
<1>c. ItemsHaveFiles /\ OnePerConnection /\ Completing /\ Filing /\ LocksHeld /\
      OneRecordPerOriginal /\ FilingStaysPossible /\ FiledAsCompleted /\
      UploadKeysStandForContent
  BY <1>0 DEF Safe
<1>h. \A d \in Clients : InTransaction(d) =>
            job[d].file \in Files /\ where[job[d].file] # "NONE" /\ status[job[d].file] # "NONE"
  BY TransactionHasItem
<1>1. TypeOK'
  BY <1>0, <1>c, SupportedAssumption, NullAssumption DEF TypeOK, Maybe, LostUpload,
     Create, claims, result, uploads, clients, owner, Job, Action, Place
<1>2. ItemsHaveFiles'
  BY <1>0, <1>c, SupportedAssumption, NullAssumption DEF TypeOK, ItemsHaveFiles,
     LostUpload, Create, claims, result, uploads, clients, owner
<1>3. OnePerConnection'
  BY <1>0, <1>c, <1>h DEF OnePerConnection, InTransaction, LostUpload, Create, claims,
     result, uploads, clients, owner, Open, Completed
<1>4. Completing'
  BY <1>0, <1>c DEF Completing, Checked, Recording, LostUpload, Create, claims, result,
     uploads, clients, owner
<1>5. FilingStaysPossible'
  BY <1>0, <1>c DEF FilingStaysPossible, ToFile, Fileable, LostUpload, Create, claims,
     result, uploads, clients, owner
<1>6. FiledAsCompleted'
  BY <1>0, <1>c DEF FiledAsCompleted, LostUpload, Create, claims, result, uploads,
     clients, owner
<1>7. Filing' /\ LocksHeld' /\ OneRecordPerOriginal' /\ UploadKeysStandForContent'
  BY <1>0, <1>c DEF Filing, LocksHeld, OneRecordPerOriginal, UploadKeysStandForContent,
     ToFile, LostUpload, Create, claims, result, uploads, clients, owner
<1> QED
  BY <1>1, <1>2, <1>3, <1>4, <1>5, <1>6, <1>7 DEF IInv, Safe

LEMMA LeaseExpiresKeeps ==
  ASSUME IInv, NEW f \in Files, LeaseExpires(f)
  PROVE  IInv'
<1>0. TypeOK /\ Safe /\ LeaseExpires(f)
  BY DEF IInv
<1>c. ItemsHaveFiles /\ OnePerConnection /\ Completing /\ Filing /\ LocksHeld /\
      OneRecordPerOriginal /\ FilingStaysPossible /\ FiledAsCompleted /\
      UploadKeysStandForContent
  BY <1>0 DEF Safe
<1>1. TypeOK'
  BY <1>0, <1>c DEF TypeOK, LeaseExpires, cloud, claims, result, uploads, clients, owner
<1>2. ItemsHaveFiles' /\ OnePerConnection' /\ Completing' /\ Filing' /\ LocksHeld' /\
      OneRecordPerOriginal' /\ FilingStaysPossible' /\ FiledAsCompleted' /\
      UploadKeysStandForContent'
  BY <1>0, <1>c DEF ItemsHaveFiles, OnePerConnection, Completing, Filing, LocksHeld,
     OneRecordPerOriginal, FilingStaysPossible, FiledAsCompleted,
     UploadKeysStandForContent, InTransaction, Checked, Recording, ToFile, Fileable,
     LeaseExpires, cloud, claims, result, uploads, clients, owner
<1> QED
  BY <1>1, <1>2 DEF IInv, Safe

LEMMA ClaimKeeps ==
  ASSUME IInv, NEW c \in Clients, NEW f \in Files, Claim(c, f)
  PROVE  IInv'
<1>0. TypeOK /\ Safe /\ Claim(c, f)
  BY DEF IInv
<1>c. ItemsHaveFiles /\ OnePerConnection /\ Completing /\ Filing /\ LocksHeld /\
      OneRecordPerOriginal /\ FilingStaysPossible /\ FiledAsCompleted /\
      UploadKeysStandForContent
  BY <1>0 DEF Safe
<1>f. \A d \in Clients : InTransaction(d) => job[d].file # f
  BY <1>0 DEF Claim, Free, Locked, InTransaction
<1>1. TypeOK'
  BY <1>0, <1>c DEF TypeOK, Maybe, InTransaction, Claim, cloud, result, uploads, clients,
     owner, Open, Completed, Job, NoJob, Action, Place
<1>2. ItemsHaveFiles'
  BY <1>0, <1>c DEF ItemsHaveFiles, InTransaction, Claim, cloud, result, uploads, clients,
     owner, Open, Completed
<1>3. Completing'
  BY <1>0, <1>c DEF Completing, Checked, Recording, Claim, cloud, result, uploads,
     clients, owner
<1>4. Filing'
  BY <1>0, <1>c DEF Filing, ToFile, InTransaction, Claim, cloud, result, uploads, clients,
     owner, Open, Completed
<1>5. FilingStaysPossible'
  BY <1>0, <1>c DEF FilingStaysPossible, ToFile, Fileable, Claim, cloud, result, uploads,
     clients, owner
<1>6. FiledAsCompleted'
  BY <1>0, <1>c DEF FiledAsCompleted, Claim, cloud, result, uploads, clients, owner
<1>7. OnePerConnection' /\ LocksHeld' /\ OneRecordPerOriginal' /\ UploadKeysStandForContent'
  BY <1>0, <1>c DEF OnePerConnection, LocksHeld, OneRecordPerOriginal,
     UploadKeysStandForContent, InTransaction, Claim, cloud, result, uploads, clients,
     owner
<1> QED
  BY <1>1, <1>2, <1>3, <1>4, <1>5, <1>6, <1>7 DEF IInv, Safe

LEMMA ReadKeeps ==
  ASSUME IInv, NEW c \in Clients, NEW f \in Files, Read(c, f)
  PROVE  IInv'
<1>0. TypeOK /\ Safe /\ Read(c, f)
  BY DEF IInv
<1>c. ItemsHaveFiles /\ OnePerConnection /\ Completing /\ Filing /\ LocksHeld /\
      OneRecordPerOriginal /\ FilingStaysPossible /\ FiledAsCompleted /\
      UploadKeysStandForContent
  BY <1>0 DEF Safe
<1>1. TypeOK'
  BY <1>0, <1>c DEF TypeOK, Read, cloud, claims, result, uploads, clients, owner
<1>2. Completing'
  BY <1>0, <1>c DEF Completing, Checked, Recording, Read, Holds, AsDiscovered, cloud,
     claims, result, uploads, clients, owner
<1>3. ItemsHaveFiles' /\ OnePerConnection' /\ Filing' /\ LocksHeld' /\
      OneRecordPerOriginal' /\ FilingStaysPossible' /\ FiledAsCompleted' /\
      UploadKeysStandForContent'
  BY <1>0, <1>c DEF ItemsHaveFiles, OnePerConnection, Filing, LocksHeld,
     OneRecordPerOriginal, FilingStaysPossible, FiledAsCompleted,
     UploadKeysStandForContent, InTransaction, ToFile, Fileable, Read, cloud, claims,
     result, uploads, clients, owner
<1> QED
  BY <1>1, <1>2, <1>3 DEF IInv, Safe

LEMMA ReviewKeeps ==
  ASSUME IInv, NEW c \in Clients, NEW f \in Files, Review(c, f)
  PROVE  IInv'
<1>0. TypeOK /\ Safe /\ Review(c, f)
  BY DEF IInv
<1>c. ItemsHaveFiles /\ OnePerConnection /\ Completing /\ Filing /\ LocksHeld /\
      OneRecordPerOriginal /\ FilingStaysPossible /\ FiledAsCompleted /\
      UploadKeysStandForContent
  BY <1>0 DEF Safe
<1>f. \A d \in Clients : InTransaction(d) => job[d].file # f
  BY <1>0 DEF Review, Free, Locked, InTransaction
<1>1. TypeOK'
  BY <1>0, <1>c DEF TypeOK, InTransaction, Review, Holds, cloud, claims, result, uploads,
     clients, owner, Open, Completed, NoJob
<1>2. ItemsHaveFiles'
  BY <1>0, <1>c DEF ItemsHaveFiles, Review, Holds, cloud, claims, result, uploads,
     clients, owner
<1>3. Completing'
  BY <1>0, <1>c, <1>f DEF Completing, Checked, Recording, InTransaction, Review, Holds,
     cloud, claims, result, uploads, clients, owner, Open, Completed
<1>4. Filing'
  BY <1>0, <1>c DEF Filing, ToFile, Review, Holds, cloud, claims, result, uploads,
     clients, owner
<1>5. FilingStaysPossible'
  BY <1>0, <1>c DEF FilingStaysPossible, ToFile, Fileable, Review, cloud, claims, result,
     uploads, clients, owner
<1>6. FiledAsCompleted'
  BY <1>0, <1>c DEF FiledAsCompleted, Review, cloud, claims, result, uploads, clients, owner
<1>7. OnePerConnection' /\ LocksHeld' /\ OneRecordPerOriginal' /\ UploadKeysStandForContent'
  BY <1>0, <1>c DEF OnePerConnection, LocksHeld, OneRecordPerOriginal,
     UploadKeysStandForContent, InTransaction, Review, cloud, claims, result, uploads,
     clients, owner
<1> QED
  BY <1>1, <1>2, <1>3, <1>4, <1>5, <1>6, <1>7 DEF IInv, Safe

LEMMA BeginCompletionKeeps ==
  ASSUME IInv, NEW c \in Clients, NEW f \in Files, NEW a \in Action, NEW b \in Invoices \cup {Null}, BeginCompletion(c, f, a, b)
  PROVE  IInv'
<1>0. TypeOK /\ Safe /\ BeginCompletion(c, f, a, b)
  BY DEF IInv
<1>c. ItemsHaveFiles /\ OnePerConnection /\ Completing /\ Filing /\ LocksHeld /\
      OneRecordPerOriginal /\ FilingStaysPossible /\ FiledAsCompleted /\
      UploadKeysStandForContent
  BY <1>0 DEF Safe
<1>h. \A d \in Clients : InTransaction(d) =>
            job[d].file \in Files /\ where[job[d].file] # "NONE" /\ status[job[d].file] # "NONE"
  BY TransactionHasItem
<1>f. \A d \in Clients : InTransaction(d) => job[d].file # f
  BY <1>0 DEF BeginCompletion, Free, Locked, InTransaction
<1>j. /\ [file |-> f, action |-> a, sha |-> content[f], business |-> b] \in Job
      /\ content[f] \in Contents
  BY <1>0, SupportedAssumption DEF BeginCompletion, AsDiscovered, Job
<1>g. /\ pc' \in [Clients -> {"idle", "completing", "moving", "failing"}]
      /\ job' \in [Clients -> Job]
      /\ pc'[c] = "completing" /\ job'[c] = [file |-> f, action |-> a, sha |-> content[f], business |-> b]
      /\ \A d \in Clients \ {c} : pc'[d] = pc[d] /\ job'[d] = job[d]
  BY <1>0, GotoMoves, NoJobIsJob, <1>j DEF BeginCompletion
<1>1. TypeOK'
  BY <1>0, <1>c, <1>g DEF TypeOK, BeginCompletion, cloud, claims, result, uploads,
     clients, owner
<1>2. OnePerConnection'
  <2>1. job'[c].file = f /\ UNCHANGED home
    BY <1>0, <1>g DEF BeginCompletion, cloud
  <2>2. \A d \in Clients \ {c} : InTransaction(d) => home[job[d].file] # home[f]
    BY <1>0 DEF BeginCompletion, Free, Locked, InTransaction
  <2> QED
    BY <1>c, <1>g, <2>1, <2>2 DEF OnePerConnection, InTransaction
<1>3. Completing'
  <2> SUFFICES ASSUME NEW d \in Clients, pc'[d] = "completing" PROVE Checked(d)'
    BY DEF Completing
  <2>1. UNCHANGED <<where, content, status, action, sha, business, seen>> /\ touched' = touched \ {f}
    BY <1>0 DEF BeginCompletion, cloud, claims, result
  <2>2. CASE d = c
    <3>1. /\ job'[c].file = f /\ job'[c].action = a
          /\ job'[c].sha = content[f] /\ job'[c].business = b
      BY <1>g
    <3>2. /\ status[f] = "CLAIMED" /\ action[f] = Null /\ content[f] = seen[c][f]
          /\ where[f] = "INBOX"
      BY <1>0 DEF BeginCompletion, Holds, AsRead, AsDiscovered, TypeOK, Completed
    <3>3. \A g \in Files \ {f} : action[g] \in Recording /\ a \in Recording =>
            /\ sha[g] # content[f]
            /\ action[g] = "CREATE" /\ a = "CREATE" => business[g] # b
      <4> SUFFICES ASSUME NEW g \in Files \ {f}, action[g] \in Recording, a \in Recording
                   PROVE  /\ sha[g] # content[f]
                          /\ action[g] = "CREATE" /\ a = "CREATE" => business[g] # b
        OBVIOUS
      <4>1. g \notin Duplicates(a, f, content[f], b)
        BY <1>0 DEF BeginCompletion
      <4> QED
        BY <4>1, NullAssumption DEF Duplicates, Recording, Action
    <3>4. a = "CREATE" <=> b # Null
      BY <1>0 DEF BeginCompletion
    <3> QED
      BY <1>j, <2>1, <2>2, <3>1, <3>2, <3>3, <3>4 DEF Checked
  <2>3. CASE d # c
    BY <1>c, <1>f, <1>g, <2>1, <2>3 DEF Completing, Checked, InTransaction
  <2> QED
    BY <2>2, <2>3
<1>4. Filing'
  BY <1>0, <1>c, <1>g DEF Filing, ToFile, BeginCompletion, cloud, claims, result, uploads,
     clients, owner
<1>5. LocksHeld'
  <2>1. /\ job'[c].action = a /\ job'[c].sha = content[f] /\ job'[c].business = b
    BY <1>g
  <2>2. ASSUME NEW d \in Clients \ {c}, pc[d] = "completing", job[d].action \in Recording, a \in Recording
        PROVE  /\ job[d].sha # content[f]
               /\ job[d].action = "CREATE" /\ a = "CREATE" => job[d].business # b
    <3>1. Locks(job[d].action, job[d].sha, job[d].business) \cap Locks(a, content[f], b) = {}
      BY <1>0, <2>2 DEF BeginCompletion, LocksOf
    <3> QED
      BY <2>2, <3>1, LocksExclude
  <2> QED
    BY <1>c, <1>g, <2>1, <2>2 DEF LocksHeld
<1>6. FilingStaysPossible'
  BY <1>0, <1>c, <1>g DEF FilingStaysPossible, ToFile, Fileable, BeginCompletion, Holds,
     AsDiscovered, AsRead, cloud, claims, result, uploads, clients, owner
<1>7. FiledAsCompleted'
  BY <1>0, <1>c, <1>g DEF FiledAsCompleted, BeginCompletion, Holds, AsDiscovered, AsRead,
     cloud, claims, result, uploads, clients, owner
<1>8. ItemsHaveFiles' /\ OneRecordPerOriginal' /\ UploadKeysStandForContent'
  BY <1>0, <1>c, <1>g DEF ItemsHaveFiles, OneRecordPerOriginal, UploadKeysStandForContent,
     BeginCompletion, cloud, claims, result, uploads, clients, owner
<1> QED
  BY <1>1, <1>2, <1>3, <1>4, <1>5, <1>6, <1>7, <1>8 DEF IInv, Safe

LEMMA CommitCompletionKeeps ==
  ASSUME IInv, NEW c \in Clients, CommitCompletion(c)
  PROVE  IInv'
<1>0. TypeOK /\ Safe /\ CommitCompletion(c)
  BY DEF IInv
<1>c. ItemsHaveFiles /\ OnePerConnection /\ Completing /\ Filing /\ LocksHeld /\
      OneRecordPerOriginal /\ FilingStaysPossible /\ FiledAsCompleted /\
      UploadKeysStandForContent
  BY <1>0 DEF Safe
<1>h. \A d \in Clients : InTransaction(d) =>
            job[d].file \in Files /\ where[job[d].file] # "NONE" /\ status[job[d].file] # "NONE"
  BY TransactionHasItem
<1>j. /\ Checked(c)
      /\ \A d \in Clients \ {c} : InTransaction(d) => job[d].file # job[c].file
  BY <1>0, <1>c DEF CommitCompletion, Completing, OnePerConnection, InTransaction
<1>g. /\ pc' \in [Clients -> {"idle", "completing", "moving", "failing"}]
      /\ job' \in [Clients -> Job]
      /\ pc'[c] = "idle" /\ job'[c] = NoJob
      /\ \A d \in Clients \ {c} : pc'[d] = pc[d] /\ job'[d] = job[d]
  BY <1>0, GotoMoves, NoJobIsJob DEF CommitCompletion
<1>1. TypeOK'
  <2>1. /\ job[c].file \in Files /\ job[c].action \in Action /\ job[c].sha \in Contents
        /\ job[c].business \in Maybe(Invoices)
    BY <1>0, <1>j DEF Checked, TypeOK, Job, Maybe
  <2>2. /\ status' \in [Files -> Open \cup Completed \cup {"NONE"}] /\ live' \in [Files -> BOOLEAN]
        /\ action' \in [Files -> Maybe(Action)] /\ sha' \in [Files -> Maybe(Contents)]
        /\ business' \in [Files -> Maybe(Invoices)]
        /\ seen' \in [Clients -> [Files -> Maybe(Contents)]]
    BY <1>0, <2>1 DEF CommitCompletion, TypeOK, Maybe, Completed
  <2>3. ASSUME NEW g \in Files
        PROVE  /\ status'[g] \in Completed <=> action'[g] # Null
               /\ live'[g] => status'[g] = "CLAIMED"
    BY <1>0, <2>1, NullAssumption DEF CommitCompletion, TypeOK, Completed
  <2>4. UNCHANGED <<where, content, name, home, version, claim, upload, hash, touched, edits>>
    BY <1>0 DEF CommitCompletion, cloud, uploads, owner
  <2> QED
    BY <1>0, <1>g, <2>2, <2>3, <2>4 DEF TypeOK
<1>2. ItemsHaveFiles'
  BY <1>0, <1>c, <1>g DEF ItemsHaveFiles, CommitCompletion, Holds, cloud, claims, uploads,
     owner
<1>3. OnePerConnection'
  BY <1>0, <1>c, <1>g DEF OnePerConnection, InTransaction, CommitCompletion, cloud,
     claims, uploads, owner, Open, Completed
<1>4. Completing'
  <2> SUFFICES ASSUME NEW d \in Clients, pc'[d] = "completing" PROVE Checked(d)'
    BY DEF Completing
  <2>1. d # c /\ pc[d] = "completing" /\ job'[d] = job[d] /\ Checked(d) /\ job[d].file # job[c].file
    BY <1>c, <1>g, <1>j DEF Completing, InTransaction
  <2>2. UNCHANGED <<where, content, touched>> /\ pc[c] = "completing"
    BY <1>0 DEF CommitCompletion, cloud, owner
  <2>3. /\ status'[job[d].file] = status[job[d].file] /\ action'[job[d].file] = action[job[d].file]
        /\ seen'[d][job[d].file] = seen[d][job[d].file]
    BY <1>0, <1>j, <2>1 DEF CommitCompletion, Checked, TypeOK
  <2>4. ASSUME NEW g \in Files \ {job[d].file}, action'[g] \in Recording, job[d].action \in Recording
        PROVE  /\ sha'[g] # job[d].sha
               /\ action'[g] = "CREATE" /\ job[d].action = "CREATE" => business'[g] # job[d].business
    <3>1. CASE g = job[c].file
      <4>1. action'[g] = job[c].action /\ sha'[g] = job[c].sha /\ business'[g] = job[c].business
        BY <1>0, <3>1 DEF CommitCompletion, TypeOK
      <4> QED
        BY <1>c, <2>1, <2>2, <2>4, <4>1 DEF LocksHeld
    <3>2. CASE g # job[c].file
      <4>1. action'[g] = action[g] /\ sha'[g] = sha[g] /\ business'[g] = business[g]
        BY <1>0, <3>2 DEF CommitCompletion, TypeOK
      <4> QED
        BY <2>1, <2>4, <4>1 DEF Checked
    <3> QED
      BY <3>1, <3>2
  <2> QED
    BY <2>1, <2>2, <2>3, <2>4 DEF Checked
<1>5. Filing'
  <2>1. ASSUME NEW d \in Clients, pc'[d] = "moving"
        PROVE  job'[d].file \in Files /\ status'[job'[d].file] \in {"READY_TO_FILE", "FILING_FAILED"}
    <3>1. d # c /\ pc[d] = "moving" /\ job'[d] = job[d]
      BY <1>g, <2>1
    <3>2. job[d].file \in Files /\ ToFile(job[d].file) /\ job[d].file # job[c].file
      BY <1>c, <1>j, <3>1 DEF Filing, InTransaction
    <3> QED
      BY <1>0, <3>1, <3>2 DEF CommitCompletion, TypeOK, ToFile
  <2>2. ASSUME NEW d \in Clients, pc'[d] = "failing"
        PROVE  job'[d].file \in Files /\ action'[job'[d].file] # Null
    <3>1. d # c /\ pc[d] = "failing" /\ job'[d] = job[d]
      BY <1>g, <2>2
    <3>2. job[d].file \in Files /\ action[job[d].file] # Null
      BY <1>c, <3>1 DEF Filing
    <3> QED
      BY <1>0, <1>j, <3>1, <3>2 DEF CommitCompletion, TypeOK, Checked
  <2> QED
    BY <2>1, <2>2 DEF Filing, ToFile
<1>6. LocksHeld'
  BY <1>0, <1>c, <1>g DEF LocksHeld, CommitCompletion, cloud, claims, uploads, owner
<1>7. OneRecordPerOriginal'
  <2>1. ASSUME NEW g \in Files \ {job[c].file}
        PROVE  action'[g] = action[g] /\ sha'[g] = sha[g] /\ business'[g] = business[g]
    BY <1>0 DEF CommitCompletion, TypeOK
  <2>2. LET f == job[c].file IN
        action'[f] = job[c].action /\ sha'[f] = job[c].sha /\ business'[f] = job[c].business
    BY <1>0, <1>j DEF CommitCompletion, TypeOK, Checked
  <2> QED
    BY <1>c, <1>j, <2>1, <2>2 DEF OneRecordPerOriginal, Checked, Recording
<1>8. FilingStaysPossible'
  <2> SUFFICES ASSUME NEW g \in Files, ToFile(g)', g \notin touched' PROVE Fileable(g)'
    BY DEF FilingStaysPossible
  <2>1. UNCHANGED <<where, content, touched>>
    BY <1>0 DEF CommitCompletion, cloud, owner
  <2>2. CASE g = job[c].file
    BY <1>0, <1>j, <2>1, <2>2 DEF CommitCompletion, TypeOK, Checked, Fileable
  <2>3. CASE g # job[c].file
    <3>1. status'[g] = status[g] /\ sha'[g] = sha[g]
      BY <1>0, <2>3 DEF CommitCompletion, TypeOK
    <3> QED
      BY <1>c, <2>1, <3>1 DEF FilingStaysPossible, ToFile, Fileable
  <2> QED
    BY <2>2, <2>3
<1>9. FiledAsCompleted'
  BY <1>0, <1>c, <1>g DEF FiledAsCompleted, CommitCompletion, Holds, cloud, claims,
     uploads, owner
<1>10. UploadKeysStandForContent'
  <2> SUFFICES ASSUME NEW g \in Files, upload'[g] # Null, action'[g] = Null
               PROVE  version'[g] = hash'[g]
    BY DEF UploadKeysStandForContent
  <2>1. UNCHANGED <<version, upload, hash>>
    BY <1>0 DEF CommitCompletion, uploads
  <2>2. action[g] = Null
    BY <1>0, <1>j, NullAssumption DEF CommitCompletion, TypeOK, Checked
  <2> QED
    BY <1>c, <2>1, <2>2 DEF UploadKeysStandForContent
<1> QED
  BY <1>1, <1>2, <1>3, <1>4, <1>5, <1>6, <1>7, <1>8, <1>9, <1>10 DEF IInv, Safe

LEMMA MoveFileKeeps ==
  ASSUME IInv, NEW c \in Clients, NEW f \in Files, MoveFile(c, f)
  PROVE  IInv'
<1>0. TypeOK /\ Safe /\ MoveFile(c, f)
  BY DEF IInv
<1>c. ItemsHaveFiles /\ OnePerConnection /\ Completing /\ Filing /\ LocksHeld /\
      OneRecordPerOriginal /\ FilingStaysPossible /\ FiledAsCompleted /\
      UploadKeysStandForContent
  BY <1>0 DEF Safe
<1>h. \A d \in Clients : InTransaction(d) =>
            job[d].file \in Files /\ where[job[d].file] # "NONE" /\ status[job[d].file] # "NONE"
  BY TransactionHasItem
<1>f. \A d \in Clients : InTransaction(d) => job[d].file # f
  BY <1>0 DEF MoveFile, Free, Locked, InTransaction
<1>g. /\ pc' \in [Clients -> {"idle", "completing", "moving", "failing"}]
      /\ job' \in [Clients -> Job]
      /\ pc'[c] = "moving" /\ job'[c] = [NoJob EXCEPT !.file = f]
      /\ \A d \in Clients \ {c} : pc'[d] = pc[d] /\ job'[d] = job[d]
  BY <1>0, GotoMoves, NoJobIsJob DEF MoveFile
<1>1. TypeOK'
  BY <1>0, <1>c, <1>g DEF TypeOK, Maybe, MoveFile, Fileable, cloud, claims, result,
     uploads, clients, owner, Job, Action, Place
<1>2. ItemsHaveFiles'
  BY <1>0, <1>c, <1>g DEF ItemsHaveFiles, MoveFile, Fileable, cloud, claims, result,
     uploads, clients, owner
<1>3. OnePerConnection'
  <2>1. job'[c].file = f /\ UNCHANGED home
    BY <1>0, <1>g, NoJobIsJob DEF MoveFile
  <2>2. \A d \in Clients \ {c} : InTransaction(d) => home[job[d].file] # home[f]
    BY <1>0 DEF MoveFile, Free, Locked, InTransaction
  <2>3. \A d \in Clients \ {c} : InTransaction(d)' <=> InTransaction(d)
    BY <1>g DEF InTransaction
  <2>4. ASSUME NEW d \in Clients, NEW e \in Clients, d # e, InTransaction(d)', InTransaction(e)'
        PROVE  home'[job'[d].file] # home'[job'[e].file]
    <3>1. CASE d = c
      BY <1>g, <2>1, <2>2, <2>3, <2>4, <3>1
    <3>2. CASE e = c
      BY <1>g, <2>1, <2>2, <2>3, <2>4, <3>2
    <3>3. CASE d # c /\ e # c
      BY <1>c, <1>g, <2>1, <2>3, <2>4, <3>3 DEF OnePerConnection
    <3> QED
      BY <3>1, <3>2, <3>3
  <2> QED
    BY <2>4 DEF OnePerConnection
<1>4. Completing'
  BY <1>0, <1>c, <1>g DEF Completing, Checked, Recording, MoveFile, Fileable, cloud,
     claims, result, uploads, clients, owner, ToFile
<1>5. Filing'
  <2>1. job'[c].file = f /\ UNCHANGED <<status, action>>
    BY <1>0, <1>g, NoJobIsJob DEF MoveFile, claims, result
  <2>2. ToFile(f) /\ action[f] # Null
    BY <1>0 DEF MoveFile, ToFile, TypeOK, Completed
  <2> QED
    BY <1>c, <1>g, <2>1, <2>2, FilingKept
<1>6. LocksHeld'
  BY <1>0, <1>c, <1>g DEF LocksHeld, MoveFile, Fileable, cloud, claims, result, uploads,
     clients, owner
<1>7. FilingStaysPossible'
  BY <1>0, <1>c, <1>g DEF FilingStaysPossible, ToFile, Fileable, MoveFile, cloud, claims,
     result, uploads, clients, owner
<1>8. FiledAsCompleted'
  BY <1>0, <1>c, <1>g DEF FiledAsCompleted, MoveFile, Fileable, cloud, claims, result,
     uploads, clients, owner
<1>9. OneRecordPerOriginal' /\ UploadKeysStandForContent'
  BY <1>0, <1>c, <1>g DEF OneRecordPerOriginal, UploadKeysStandForContent, MoveFile,
     cloud, claims, result, uploads, clients, owner
<1> QED
  BY <1>1, <1>2, <1>3, <1>4, <1>5, <1>6, <1>7, <1>8, <1>9 DEF IInv, Safe

LEMMA CommitFilingKeeps ==
  ASSUME IInv, NEW c \in Clients, CommitFiling(c)
  PROVE  IInv'
<1>0. TypeOK /\ Safe /\ CommitFiling(c)
  BY DEF IInv
<1>c. ItemsHaveFiles /\ OnePerConnection /\ Completing /\ Filing /\ LocksHeld /\
      OneRecordPerOriginal /\ FilingStaysPossible /\ FiledAsCompleted /\
      UploadKeysStandForContent
  BY <1>0 DEF Safe
<1>h. \A d \in Clients : InTransaction(d) =>
            job[d].file \in Files /\ where[job[d].file] # "NONE" /\ status[job[d].file] # "NONE"
  BY TransactionHasItem
<1>j. /\ ToFile(job[c].file)
      /\ job[c].file \in Files
      /\ \A d \in Clients \ {c} : InTransaction(d) => job[d].file # job[c].file
  BY <1>0, <1>c DEF CommitFiling, Filing, OnePerConnection, InTransaction
<1>g. /\ pc' \in [Clients -> {"idle", "completing", "moving", "failing"}]
      /\ job' \in [Clients -> Job]
      /\ pc'[c] = "idle" /\ job'[c] = NoJob
      /\ \A d \in Clients \ {c} : pc'[d] = pc[d] /\ job'[d] = job[d]
  BY <1>0, GotoMoves, NoJobIsJob DEF CommitFiling
<1>1. TypeOK'
  BY <1>0, <1>c, <1>j, <1>g DEF TypeOK, InTransaction, CommitFiling, StillAsCompleted,
     cloud, claims, result, uploads, clients, owner, Open, Completed, NoJob, ToFile
<1>2. ItemsHaveFiles'
  BY <1>0, <1>c, <1>g DEF ItemsHaveFiles, CommitFiling, StillAsCompleted, cloud, claims,
     result, uploads, clients, owner
<1>3. OnePerConnection'
  BY <1>0, <1>c, <1>g DEF OnePerConnection, InTransaction, CommitFiling, StillAsCompleted,
     cloud, claims, result, uploads, clients, owner, Open, Completed
<1>4. Completing'
  BY <1>0, <1>c, <1>j, <1>g DEF Completing, Checked, Recording, CommitFiling,
     StillAsCompleted, cloud, claims, result, uploads, clients, owner, ToFile
<1>5. Filing'
  BY <1>0, <1>c, <1>j, <1>g DEF Filing, ToFile, InTransaction, CommitFiling,
     StillAsCompleted, cloud, claims, result, uploads, clients, owner, Open, Completed
<1>6. LocksHeld'
  BY <1>0, <1>c, <1>g DEF LocksHeld, CommitFiling, StillAsCompleted, cloud, claims,
     result, uploads, clients, owner
<1>7. FilingStaysPossible'
  BY <1>0, <1>c, <1>g DEF FilingStaysPossible, ToFile, Fileable, CommitFiling,
     StillAsCompleted, cloud, claims, result, uploads, clients, owner
<1>8. FiledAsCompleted'
  BY <1>0, <1>c, <1>g DEF FiledAsCompleted, CommitFiling, StillAsCompleted, cloud, claims,
     result, uploads, clients, owner
<1>9. UploadKeysStandForContent'
  BY <1>0, <1>c, <1>j, <1>g DEF TypeOK, UploadKeysStandForContent, InTransaction,
     CommitFiling, StillAsCompleted, cloud, claims, result, uploads, clients, owner, Open,
     Completed, ToFile
<1>10. OneRecordPerOriginal'
  BY <1>0, <1>c, <1>g DEF OneRecordPerOriginal, CommitFiling, cloud, claims, result,
     uploads, clients, owner
<1> QED
  BY <1>1, <1>2, <1>3, <1>4, <1>5, <1>6, <1>7, <1>8, <1>9, <1>10 DEF IInv, Safe

LEMMA FilingFailsKeeps ==
  ASSUME IInv, NEW c \in Clients, NEW f \in Files, FilingFails(c, f)
  PROVE  IInv'
<1>0. TypeOK /\ Safe /\ FilingFails(c, f)
  BY DEF IInv
<1>c. ItemsHaveFiles /\ OnePerConnection /\ Completing /\ Filing /\ LocksHeld /\
      OneRecordPerOriginal /\ FilingStaysPossible /\ FiledAsCompleted /\
      UploadKeysStandForContent
  BY <1>0 DEF Safe
<1>g. /\ pc' \in [Clients -> {"idle", "completing", "moving", "failing"}]
      /\ job' \in [Clients -> Job]
      /\ pc'[c] = "failing" /\ job'[c] = [NoJob EXCEPT !.file = f]
      /\ \A d \in Clients \ {c} : pc'[d] = pc[d] /\ job'[d] = job[d]
  BY <1>0, GotoMoves, NoJobIsJob DEF FilingFails
<1>1. TypeOK'
  BY <1>0, <1>c, <1>g DEF TypeOK, FilingFails, cloud, claims, result, uploads, clients,
     owner
<1>2. OnePerConnection'
  BY <1>0, <1>c, <1>g DEF OnePerConnection, InTransaction, FilingFails, cloud, claims,
     result, uploads, clients, owner, Open, Completed
<1>3. Completing'
  BY <1>0, <1>c, <1>g DEF Completing, Checked, Recording, FilingFails, cloud, claims,
     result, uploads, clients, owner
<1>4. Filing'
  <2>1. job'[c].file = f /\ UNCHANGED <<status, action>>
    BY <1>0, <1>g, NoJobIsJob DEF FilingFails, claims, result
  <2>2. ToFile(f) /\ action[f] # Null
    BY <1>0 DEF FilingFails, ToFile, TypeOK, Completed
  <2> QED
    BY <1>c, <1>g, <2>1, <2>2, FilingKept
<1>5. LocksHeld'
  BY <1>0, <1>c, <1>g DEF LocksHeld, FilingFails, cloud, claims, result, uploads, clients,
     owner
<1>6. ItemsHaveFiles' /\ OneRecordPerOriginal' /\ FilingStaysPossible' /\
      FiledAsCompleted' /\ UploadKeysStandForContent'
  BY <1>0, <1>c, <1>g DEF ItemsHaveFiles, OneRecordPerOriginal, FilingStaysPossible,
     FiledAsCompleted, UploadKeysStandForContent, ToFile, Fileable, FilingFails, cloud,
     claims, result, uploads, clients, owner
<1> QED
  BY <1>1, <1>2, <1>3, <1>4, <1>5, <1>6 DEF IInv, Safe

LEMMA RollBackKeeps ==
  ASSUME IInv, NEW c \in Clients, RollBack(c)
  PROVE  IInv'
<1>0. TypeOK /\ Safe /\ RollBack(c)
  BY DEF IInv
<1>c. ItemsHaveFiles /\ OnePerConnection /\ Completing /\ Filing /\ LocksHeld /\
      OneRecordPerOriginal /\ FilingStaysPossible /\ FiledAsCompleted /\
      UploadKeysStandForContent
  BY <1>0 DEF Safe
<1>h. \A d \in Clients : InTransaction(d) =>
            job[d].file \in Files /\ where[job[d].file] # "NONE" /\ status[job[d].file] # "NONE"
  BY TransactionHasItem
<1>g. /\ pc' \in [Clients -> {"idle", "completing", "moving", "failing"}]
      /\ job' \in [Clients -> Job]
      /\ pc'[c] \in {"idle", "failing"}
      /\ pc'[c] = "failing" => pc[c] = "moving" /\ job'[c] = job[c]
      /\ \A d \in Clients \ {c} : pc'[d] = pc[d] /\ job'[d] = job[d]
  BY <1>0, GotoMoves, NoJobIsJob DEF RollBack, TypeOK
<1>1. TypeOK'
  BY <1>0, <1>c, <1>g DEF TypeOK, RollBack, cloud, claims, result, uploads, clients, owner
<1>2. OnePerConnection'
  BY <1>0, <1>c, <1>g DEF OnePerConnection, InTransaction, RollBack, cloud, claims,
     result, uploads, clients, owner, Open, Completed
<1>3. Completing'
  BY <1>0, <1>c, <1>g DEF Completing, Checked, Recording, RollBack, cloud, claims, result,
     uploads, clients, owner
<1>4. Filing'
  BY <1>0, <1>c, <1>g DEF TypeOK, Filing, ToFile, InTransaction, RollBack, cloud, claims,
     result, uploads, clients, owner, Open, Completed
<1>5. LocksHeld'
  BY <1>0, <1>c, <1>g DEF LocksHeld, RollBack, cloud, claims, result, uploads, clients,
     owner
<1>6. ItemsHaveFiles' /\ OneRecordPerOriginal' /\ FilingStaysPossible' /\
      FiledAsCompleted' /\ UploadKeysStandForContent'
  BY <1>0, <1>c, <1>g DEF ItemsHaveFiles, OneRecordPerOriginal, FilingStaysPossible,
     FiledAsCompleted, UploadKeysStandForContent, ToFile, Fileable, RollBack, cloud,
     claims, result, uploads, clients, owner
<1> QED
  BY <1>1, <1>2, <1>3, <1>4, <1>5, <1>6 DEF IInv, Safe

LEMMA MarkFailedKeeps ==
  ASSUME IInv, NEW c \in Clients, MarkFailed(c)
  PROVE  IInv'
<1>0. TypeOK /\ Safe /\ MarkFailed(c)
  BY DEF IInv
<1>c. ItemsHaveFiles /\ OnePerConnection /\ Completing /\ Filing /\ LocksHeld /\
      OneRecordPerOriginal /\ FilingStaysPossible /\ FiledAsCompleted /\
      UploadKeysStandForContent
  BY <1>0 DEF Safe
<1>h. \A d \in Clients : InTransaction(d) =>
            job[d].file \in Files /\ where[job[d].file] # "NONE" /\ status[job[d].file] # "NONE"
  BY TransactionHasItem
<1>j. /\ job[c].file \in Files
      /\ action[job[c].file] # Null
      /\ status[job[c].file] \in Completed
      /\ \A d \in Clients : InTransaction(d) => job[d].file # job[c].file
  BY <1>0, <1>c DEF MarkFailed, Filing, Free, Locked, InTransaction, TypeOK
<1>g. /\ pc' \in [Clients -> {"idle", "completing", "moving", "failing"}]
      /\ job' \in [Clients -> Job]
      /\ pc'[c] = "idle" /\ job'[c] = NoJob
      /\ \A d \in Clients \ {c} : pc'[d] = pc[d] /\ job'[d] = job[d]
  BY <1>0, GotoMoves, NoJobIsJob DEF MarkFailed
<1>1. TypeOK'
  BY <1>0, <1>c, <1>j, <1>g DEF TypeOK, InTransaction, MarkFailed, cloud, claims, result,
     uploads, clients, owner, Open, Completed, NoJob
<1>2. ItemsHaveFiles'
  BY <1>0, <1>c, <1>j, <1>g DEF ItemsHaveFiles, InTransaction, MarkFailed, cloud, claims,
     result, uploads, clients, owner, Open, Completed
<1>3. OnePerConnection'
  BY <1>0, <1>c, <1>g DEF OnePerConnection, InTransaction, MarkFailed, cloud, claims,
     result, uploads, clients, owner, Open, Completed
<1>4. Completing'
  BY <1>0, <1>c, <1>j, <1>g DEF Completing, Checked, Recording, MarkFailed, cloud, claims,
     result, uploads, clients, owner
<1>5. Filing'
  BY <1>0, <1>c, <1>g DEF Filing, ToFile, MarkFailed, cloud, claims, result, uploads,
     clients, owner
<1>6. LocksHeld'
  BY <1>0, <1>c, <1>g DEF LocksHeld, MarkFailed, cloud, claims, result, uploads, clients,
     owner
<1>7. FilingStaysPossible'
  BY <1>0, <1>c, <1>j, <1>g DEF FilingStaysPossible, ToFile, Fileable, InTransaction,
     MarkFailed, cloud, claims, result, uploads, clients, owner, Open, Completed
<1>8. FiledAsCompleted'
  BY <1>0, <1>c, <1>g DEF FiledAsCompleted, MarkFailed, cloud, claims, result, uploads,
     clients, owner
<1>9. OneRecordPerOriginal' /\ UploadKeysStandForContent'
  BY <1>0, <1>c, <1>g DEF OneRecordPerOriginal, UploadKeysStandForContent, MarkFailed,
     cloud, claims, result, uploads, clients, owner
<1> QED
  BY <1>1, <1>2, <1>3, <1>4, <1>5, <1>6, <1>7, <1>8, <1>9 DEF IInv, Safe

LEMMA CrashKeeps ==
  ASSUME IInv, NEW c \in Clients, Crash(c)
  PROVE  IInv'
<1>0. TypeOK /\ Safe /\ Crash(c)
  BY DEF IInv
<1>c. ItemsHaveFiles /\ OnePerConnection /\ Completing /\ Filing /\ LocksHeld /\
      OneRecordPerOriginal /\ FilingStaysPossible /\ FiledAsCompleted /\
      UploadKeysStandForContent
  BY <1>0 DEF Safe
<1>g. /\ pc' \in [Clients -> {"idle", "completing", "moving", "failing"}]
      /\ job' \in [Clients -> Job]
      /\ pc'[c] = "idle" /\ job'[c] = NoJob
      /\ \A d \in Clients \ {c} : pc'[d] = pc[d] /\ job'[d] = job[d]
  BY <1>0, GotoMoves, NoJobIsJob DEF Crash
<1>1. TypeOK'
  BY <1>0, <1>c, <1>g DEF TypeOK, Crash, cloud, claims, result, uploads, clients, owner
<1>2. OnePerConnection'
  BY <1>0, <1>c, <1>g DEF OnePerConnection, InTransaction, Crash, cloud, claims, result,
     uploads, clients, owner, Open, Completed
<1>3. Completing'
  BY <1>0, <1>c, <1>g DEF Completing, Checked, Recording, Crash, cloud, claims, result,
     uploads, clients, owner
<1>4. Filing'
  BY <1>0, <1>c, <1>g DEF Filing, ToFile, Crash, cloud, claims, result, uploads, clients,
     owner
<1>5. LocksHeld'
  BY <1>0, <1>c, <1>g DEF LocksHeld, Crash, cloud, claims, result, uploads, clients, owner
<1>6. ItemsHaveFiles' /\ OneRecordPerOriginal' /\ FilingStaysPossible' /\
      FiledAsCompleted' /\ UploadKeysStandForContent'
  BY <1>0, <1>c, <1>g DEF ItemsHaveFiles, OneRecordPerOriginal, FilingStaysPossible,
     FiledAsCompleted, UploadKeysStandForContent, ToFile, Fileable, Crash, cloud, claims,
     result, uploads, clients, owner
<1> QED
  BY <1>1, <1>2, <1>3, <1>4, <1>5, <1>6 DEF IInv, Safe
-----------------------------------------------------------------------------
(* The inductive invariant, and what follows.                              *)

LEMMA InitInvariant == Init => IInv
<1> SUFFICES ASSUME Init PROVE IInv
  OBVIOUS
<1>1. TypeOK
  BY NoJobIsJob, MaxEditsAssumption, NullAssumption
  DEF Init, TypeOK, Maybe, Place, Completed
<1>2. Safe
  BY NullAssumption DEF Init, Safe, ItemsHaveFiles, OnePerConnection, InTransaction,
     Completing,
     Filing, LocksHeld, OneRecordPerOriginal, FilingStaysPossible, ToFile, FiledAsCompleted,
     UploadKeysStandForContent, Action
<1> QED
  BY <1>1, <1>2 DEF IInv

LEMMA StutterKeeps ==
  ASSUME IInv, UNCHANGED vars
  PROVE  IInv'
<1>1. TypeOK'
  BY DEF IInv, TypeOK, vars, cloud, claims, result, uploads, clients, owner
<1>2. Safe'
  BY DEF IInv, Safe, ItemsHaveFiles, OnePerConnection, InTransaction, Completing, Checked,
     Filing, LocksHeld, OneRecordPerOriginal, FilingStaysPossible, ToFile, Fileable,
     FiledAsCompleted, UploadKeysStandForContent,
     vars, cloud, claims, result, uploads, clients, owner
<1> QED
  BY <1>1, <1>2 DEF IInv

LEMMA NextKeeps == IInv /\ [Next]_vars => IInv'
<1> SUFFICES ASSUME IInv, [Next]_vars PROVE IInv'
  OBVIOUS
<1>1. ASSUME NEW f \in Files, OfOwner(f) PROVE IInv'
  BY <1>1, DropKeeps, EditKeeps, RelocateKeeps DEF OfOwner
<1>2. ASSUME NEW f \in Files, OfUpload(f) PROVE IInv'
  BY <1>2, AdoptUploadKeeps, NewUploadKeeps, LostUploadKeeps DEF OfUpload
<1>3. ASSUME NEW c \in Clients, OfClient(c) PROVE IInv'
  <2>1. ASSUME NEW f \in Files,
               Claim(c, f) \/ Read(c, f) \/ Review(c, f) \/ MoveFile(c, f) \/ FilingFails(c, f)
        PROVE  IInv'
    BY <2>1, ClaimKeeps, ReadKeeps, ReviewKeeps, MoveFileKeeps, FilingFailsKeeps
  <2>2. ASSUME NEW f \in Files, NEW a \in Action, NEW b \in Invoices \cup {Null},
               BeginCompletion(c, f, a, b)
        PROVE  IInv'
    BY <2>2, BeginCompletionKeeps
  <2>3. CASE \/ CommitCompletion(c) \/ CommitFiling(c)
             \/ RollBack(c) \/ MarkFailed(c) \/ Crash(c)
    BY <2>3, CommitCompletionKeeps, CommitFilingKeeps, RollBackKeeps, MarkFailedKeeps,
       CrashKeeps
  <2> QED
    BY <1>3, <2>1, <2>2, <2>3 DEF OfClient
<1> QED
  BY <1>1, <1>2, <1>3, SyncKeeps, LeaseExpiresKeeps, StutterKeeps DEF Next

(* What completions have checked stays true until they commit.             *)
THEOREM Invariance == Spec => []IInv
  BY InitInvariant, NextKeeps, PTL DEF Spec

(* Types and the constraints of the table of items.                        *)
THEOREM TypeCorrect == Spec => []TypeOK
<1>1. IInv => TypeOK
  BY DEF IInv
<1> QED
  BY <1>1, Invariance, PTL

(* No original is recorded twice, in whatever connections it arrives and   *)
(* however their completions overlap.                                      *)
THEOREM OneRecord == Spec => []OneRecordPerOriginal
<1>1. IInv => OneRecordPerOriginal
  BY DEF IInv, Safe
<1> QED
  BY <1>1, Invariance, PTL

(* No lost answer of the provider leaves an item that cannot be filed.     *)
THEOREM FilingPossible == Spec => []FilingStaysPossible
<1>1. IInv => FilingStaysPossible
  BY DEF IInv, Safe
<1> QED
  BY <1>1, Invariance, PTL

(* What is filed is what was completed.                                    *)
THEOREM FiledIntact == Spec => []FiledAsCompleted
<1>1. IInv => FiledAsCompleted
  BY DEF IInv, Safe
<1> QED
  BY <1>1, Invariance, PTL

(* An upload key answers only for the content it was sent with.            *)
THEOREM UploadKeysHold == Spec => []UploadKeysStandForContent
<1>1. IInv => UploadKeysStandForContent
  BY DEF IInv, Safe
<1> QED
  BY <1>1, Invariance, PTL

-----------------------------------------------------------------------------
(* Only the commit of a completion completes an item, once.                *)

LEMMA CommitOrNot ==
  ASSUME IInv, [Next]_vars
  PROVE  \/ \E c \in Clients : CommitCompletion(c)
         \/ UNCHANGED result
<1>1. ASSUME NEW f \in Files, OfOwner(f) \/ OfUpload(f) \/ Sync(f) \/ LeaseExpires(f)
      PROVE  UNCHANGED result
  BY <1>1 DEF OfOwner, OfUpload, Drop, Edit, Relocate, Sync, AdoptUpload, NewUpload,
     LostUpload, LeaseExpires
<1>2. ASSUME NEW c \in Clients, OfClient(c), ~CommitCompletion(c) PROVE UNCHANGED result
  <2>1. ASSUME NEW f \in Files,
               Claim(c, f) \/ Read(c, f) \/ Review(c, f) \/ MoveFile(c, f) \/ FilingFails(c, f)
        PROVE  UNCHANGED result
    BY <2>1 DEF Claim, Read, Review, MoveFile, FilingFails
  <2>2. ASSUME NEW f \in Files, NEW a \in Action, NEW b \in Invoices \cup {Null},
               BeginCompletion(c, f, a, b)
        PROVE  UNCHANGED result
    BY <2>2 DEF BeginCompletion
  <2>3. CASE CommitFiling(c) \/ RollBack(c) \/ MarkFailed(c) \/ Crash(c)
    BY <2>3 DEF CommitFiling, RollBack, MarkFailed, Crash
  <2> QED
    BY <1>2, <2>1, <2>2, <2>3 DEF OfClient
<1> QED
  BY <1>1, <1>2 DEF Next, vars

LEMMA CommitCompletes ==
  ASSUME IInv, NEW c \in Clients, CommitCompletion(c)
  PROVE  LET f == job[c].file IN
         /\ f \in Files /\ action[f] = Null /\ Holds(c, f) /\ sha'[f] = seen[c][f]
         /\ \A g \in Files \ {f} : action'[g] = action[g] /\ sha'[g] = sha[g] /\ business'[g] = business[g]
<1>1. Checked(c)
  BY DEF CommitCompletion, IInv, Safe, Completing
<1> QED
  BY <1>1 DEF CommitCompletion, IInv, TypeOK, Checked

(* An item is completed by its holder, as the content the holder was       *)
(* last shown.                                                             *)
THEOREM CompletionAsRead == Spec => CompletesWhatWasRead
<1>1. IInv /\ [Next]_vars =>
        [\A f \in Files : action[f] # action'[f] =>
           \E c \in Clients : Holds(c, f) /\ sha'[f] = seen[c][f]]_vars
  BY CommitOrNot, CommitCompletes DEF result
<1> QED
  BY <1>1, Invariance, PTL DEF Spec, CompletesWhatWasRead

(* FILED is left by no step.                                               *)
LEMMA FiledStays ==
  ASSUME IInv, [Next]_vars, NEW f \in Files, status[f] = "FILED"
  PROVE  status'[f] = "FILED"
<1>0. TypeOK /\ action[f] # Null
  BY DEF IInv, TypeOK, Completed
<1>1. ASSUME NEW g \in Files, NEW x, DiscoverFile(g, x) PROVE status'[f] = "FILED"
  BY <1>0, <1>1 DEF DiscoverFile, Known, TypeOK, claims
<1>2. ASSUME NEW g \in Files, OfOwner(g) \/ OfUpload(g) \/ Sync(g) \/ LeaseExpires(g)
      PROVE  status'[f] = "FILED"
  BY <1>1, <1>2 DEF OfOwner, OfUpload, Drop, Edit, Relocate, Sync, LeaseExpires,
     AdoptUpload, NewUpload, LostUpload, claims
<1>3. ASSUME NEW c \in Clients, OfClient(c) PROVE status'[f] = "FILED"
  <2>1. ASSUME NEW g \in Files, Claim(c, g) \/ Review(c, g) PROVE status'[f] = "FILED"
    BY <1>0, <2>1 DEF Claim, Review, Holds, Open, TypeOK
  <2>2. CASE CommitCompletion(c)
    BY <1>0, <2>2, CommitCompletes DEF CommitCompletion, Holds, TypeOK
  <2>3. CASE CommitFiling(c) \/ MarkFailed(c)
    BY <1>0, <2>3 DEF CommitFiling, MarkFailed, TypeOK
  <2> QED
    BY <1>3, <2>1, <2>2, <2>3 DEF OfClient, Read, BeginCompletion, MoveFile, FilingFails,
       RollBack, Crash, claims
<1> QED
  BY <1>2, <1>3 DEF Next, vars, claims

(* Nothing changes what an item was completed with or reopens a filed one. *)
THEOREM Stands == Spec => CompletionStands
<1>1. ASSUME IInv, [Next]_vars, NEW f \in Files, action[f] # Null
      PROVE  /\ action'[f] = action[f] /\ sha'[f] = sha[f] /\ business'[f] = business[f]
             /\ status[f] = "FILED" => status'[f] = "FILED"
  BY <1>1, CommitOrNot, CommitCompletes, FiledStays DEF result
<1>2. IInv /\ [Next]_vars =>
        [\A f \in Files : action[f] # Null =>
           /\ action'[f] = action[f] /\ sha'[f] = sha[f] /\ business'[f] = business[f]
           /\ status[f] = "FILED" => status'[f] = "FILED"]_vars
  BY <1>1
<1> QED
  BY <1>2, Invariance, PTL DEF Spec, CompletionStands

-----------------------------------------------------------------------------
(* The refinement of DocumentRegister.                                     *)

(* The documents in the register.                                          *)
InRegister == {f \in Files : action[f] # Null}
EntryOf(f) == [action |-> action[f], content |-> sha[f], key |-> business[f]]

(* The register stays when no item is completed, filed or shown.           *)
LEMMA RegisterStays ==
  ASSUME UNCHANGED result, UNCHANGED seen,
         \A f \in Files : (status'[f] = "FILED") <=> (status[f] = "FILED")
  PROVE  UNCHANGED Register!registerVars
<1>1. UNCHANGED Entries
  BY DEF Entries, result
<1>2. UNCHANGED FiledFiles
  BY DEF FiledFiles
<1> QED
  BY <1>1, <1>2 DEF Register!registerVars

(* Discovery files nothing and reopens nothing that is filed.              *)
LEMMA DiscoveryFilesNothing ==
  ASSUME TypeOK, NEW f \in Files, NEW x, DiscoverFile(f, x), NEW g \in Files
  PROVE  (status'[g] = "FILED") <=> (status[g] = "FILED")
<1>1. CASE UNCHANGED status
  BY <1>1
<1>2. CASE ~Known(f, x) /\ status' = [status EXCEPT ![f] =
                 IF x \in Supported THEN "PENDING" ELSE "NEEDS_REVIEW"]
  <2>1. status[f] # "FILED"
    BY <1>2 DEF Known, TypeOK, Completed
  <2> QED
    BY <1>2, <2>1 DEF TypeOK
<1> QED
  BY <1>1, <1>2 DEF DiscoverFile, claims

LEMMA FilesStayRegistered ==
  ASSUME IInv, NEW f \in Files, OfOwner(f) \/ Sync(f) \/ OfUpload(f) \/ LeaseExpires(f)
  PROVE  UNCHANGED Register!registerVars
<1>0. TypeOK
  BY DEF IInv
<1>1. UNCHANGED result /\ UNCHANGED seen
  BY DEF OfOwner, OfUpload, Drop, Edit, Relocate, Sync, AdoptUpload, NewUpload, LostUpload,
     LeaseExpires, clients
<1>2. ASSUME NEW g \in Files PROVE (status'[g] = "FILED") <=> (status[g] = "FILED")
  <2>1. CASE OfOwner(f) \/ LeaseExpires(f)
    BY <2>1 DEF OfOwner, Drop, Edit, Relocate, LeaseExpires, claims
  <2>2. CASE Sync(f)
    BY <1>0, <2>2, DiscoveryFilesNothing DEF Sync
  <2>3. CASE OfUpload(f)
    BY <1>0, <2>3, DiscoveryFilesNothing DEF OfUpload, AdoptUpload, NewUpload, LostUpload, claims
  <2> QED
    BY <2>1, <2>2, <2>3
<1> QED
  BY <1>1, <1>2, RegisterStays

(* A claim, a review, and what a client does but for a read, the commit of *)
(* a completion and the commit of a filing.                                *)
LEMMA ClientStaysRegistered ==
  ASSUME IInv, NEW c \in Clients, OfClient(c), ~CommitCompletion(c), ~CommitFiling(c),
         \A f \in Files : ~Read(c, f)
  PROVE  UNCHANGED Register!registerVars
<1>0. TypeOK
  BY DEF IInv
<1>1. ASSUME NEW f \in Files, Claim(c, f) \/ Review(c, f) PROVE UNCHANGED Register!registerVars
  <2>1. status[f] # "FILED" /\ UNCHANGED result /\ UNCHANGED seen
    BY <1>1 DEF Claim, Review, Holds, Open, clients
  <2>2. ASSUME NEW g \in Files PROVE (status'[g] = "FILED") <=> (status[g] = "FILED")
    BY <1>0, <1>1, <2>1 DEF Claim, Review, TypeOK
  <2> QED
    BY <2>1, <2>2, RegisterStays
<1>2. ASSUME NEW f \in Files, MoveFile(c, f) \/ FilingFails(c, f)
      PROVE  UNCHANGED Register!registerVars
  BY <1>2, RegisterStays DEF MoveFile, FilingFails, claims
<1>3. ASSUME NEW f \in Files, NEW a \in Action, NEW b \in Invoices \cup {Null},
             BeginCompletion(c, f, a, b)
      PROVE  UNCHANGED Register!registerVars
  BY <1>3, RegisterStays DEF BeginCompletion, claims
<1>4. CASE RollBack(c) \/ Crash(c)
  BY <1>4, RegisterStays DEF RollBack, Crash, claims
<1>5. CASE MarkFailed(c)
  <2>1. UNCHANGED result /\ UNCHANGED seen
    BY <1>5 DEF MarkFailed
  <2>2. ASSUME NEW g \in Files PROVE (status'[g] = "FILED") <=> (status[g] = "FILED")
    BY <1>0, <1>5 DEF MarkFailed, TypeOK
  <2> QED
    BY <2>1, <2>2, RegisterStays
<1> QED
  BY <1>1, <1>2, <1>3, <1>4, <1>5 DEF OfClient

(* A read shows a document that has no entry.                              *)
LEMMA ReadShows ==
  ASSUME IInv, NEW c \in Clients, NEW f \in Files, Read(c, f)
  PROVE  Register!Show(c, f, content[f]) /\ content[f] \in Contents
<1>1. action[f] = Null /\ content[f] \in Contents
  BY SupportedAssumption DEF IInv, TypeOK, Read, Holds, AsDiscovered, Completed
<1>2. UNCHANGED <<Entries, FiledFiles>>
  BY DEF Read, claims, result, Entries, FiledFiles
<1> QED
  BY <1>1, <1>2 DEF Read, Register!Show, Register!Entered, Entries

(* The commit of a filing puts away a document that has an entry, once.    *)
LEMMA FilingPutsAway ==
  ASSUME IInv, NEW c \in Clients, CommitFiling(c)
  PROVE  \E f \in Files : Register!PutAway(f)
<1>1. job[c].file \in Files
  BY DEF IInv, Safe, Filing, CommitFiling
<1> SUFFICES ASSUME NEW f \in Files, f = job[c].file PROVE Register!PutAway(f)
  BY <1>1
<1>2. action[f] # Null /\ status[f] # "FILED"
  BY DEF IInv, Safe, Filing, ToFile, CommitFiling, TypeOK, Completed
<1>3. /\ UNCHANGED <<action, sha, business, seen>>
      /\ status'[f] = "FILED" /\ \A g \in Files \ {f} : status'[g] = status[g]
  BY DEF CommitFiling, IInv, TypeOK, result
<1>4. UNCHANGED Entries /\ FiledFiles' = FiledFiles \cup {f}
  BY <1>3 DEF Entries, FiledFiles
<1>5. f \in DOMAIN Entries /\ f \notin FiledFiles
  BY <1>2 DEF Entries, FiledFiles
<1> QED
  BY <1>3, <1>4, <1>5 DEF Register!PutAway, Register!Entered

(* The commit of a completion enters a document as it was shown, and no    *)
(* entry is of the same original.                                          *)
LEMMA CompletionEnters ==
  ASSUME IInv, NEW c \in Clients, CommitCompletion(c)
  PROVE  \E f \in Files, a \in Action : \E b \in Register!KeysFor(a) : Register!Enter(c, f, a, b)
<1>1. Checked(c) /\ TypeOK /\ OneRecordPerOriginal'
  BY CommitCompletionKeeps DEF CommitCompletion, IInv, Safe, Completing
<1>2. job[c].file \in Files /\ job[c] \in Job
  BY <1>1 DEF Checked, TypeOK
<1> SUFFICES ASSUME NEW j \in Job, j = job[c], NEW f \in Files, f = j.file,
                    NEW x, x = seen[c][f]
             PROVE  /\ j.action \in Action /\ j.business \in Register!KeysFor(j.action)
                    /\ Register!Enter(c, f, j.action, j.business)
  BY <1>2
<1> DEFINE new == [action |-> j.action, content |-> x, key |-> j.business]
<1>3. /\ j.action \in Action /\ action[f] = Null /\ status[f] = "CLAIMED"
      /\ x = j.sha /\ x \in Contents
      /\ j.business \in Register!KeysFor(j.action)
  BY <1>1 DEF Checked, TypeOK, Job, Maybe, Register!KeysFor
<1>4. j.action # Null /\ x # Null
  BY <1>3, NullAssumption
<1>5. /\ action'[f] = j.action /\ sha'[f] = x /\ business'[f] = j.business
      /\ status'[f] = "READY_TO_FILE"
      /\ \A g \in Files \ {f} : /\ action'[g] = action[g] /\ sha'[g] = sha[g]
                                /\ business'[g] = business[g] /\ status'[g] = status[g]
      /\ seen' = [d \in Clients |-> [seen[d] EXCEPT ![f] = Null]]
  BY <1>1, <1>3 DEF CommitCompletion, TypeOK
<1>6. InRegister' = InRegister \cup {f} /\ f \notin InRegister /\ UNCHANGED FiledFiles
  BY <1>3, <1>4, <1>5 DEF InRegister, FiledFiles
<1>7. Entries = [g \in InRegister |-> EntryOf(g)]
  BY DEF Entries, InRegister, EntryOf
<1>8. Entries' = [g \in InRegister \cup {f} |-> IF g = f THEN new ELSE Entries[g]]
  <2>1. EntryOf(f)' = new /\ \A g \in InRegister : g # f /\ EntryOf(g)' = EntryOf(g)
    BY <1>5, <1>6 DEF EntryOf, InRegister
  <2>2. Entries' = [g \in InRegister' |-> EntryOf(g)']
    BY DEF Entries, InRegister, EntryOf
  <2> HIDE DEF new
  <2> QED
    BY <1>6, <1>7, <2>1, <2>2
<1>9. ASSUME NEW g \in InRegister PROVE ~Register!Twins(Entries[g], new)
  <2>1. g \in Files /\ g # f /\ Entries[g] = EntryOf(g)
    BY <1>6, <1>7 DEF InRegister
  <2>2. action'[g] \in Recording /\ action'[f] \in Recording =>
          /\ sha'[g] # sha'[f]
          /\ action'[g] = "CREATE" /\ action'[f] = "CREATE" => business'[g] # business'[f]
    BY <1>1, <2>1 DEF OneRecordPerOriginal, Recording
  <2> QED
    BY <1>5, <2>1, <2>2 DEF Register!Twins, Register!Recording, Recording, EntryOf
<1> QED
  BY <1>3, <1>4, <1>5, <1>6, <1>7, <1>8, <1>9 DEF Register!Enter, Register!Fresh, Register!Entered

LEMMA InitRegister == Init => Register!RegisterInit
<1> SUFFICES ASSUME Init PROVE Register!RegisterInit
  OBVIOUS
<1>1. InRegister = {}
  BY DEF Init, InRegister
<1> QED
  BY <1>1 DEF Init, Register!RegisterInit, InRegister, Entries, FiledFiles

LEMMA StepRegister ==
  ASSUME IInv, [Next]_vars
  PROVE  [Register!RegisterNext]_Register!registerVars
<1>1. ASSUME NEW f \in Files, OfOwner(f) \/ Sync(f) \/ OfUpload(f) \/ LeaseExpires(f)
      PROVE  UNCHANGED Register!registerVars
  BY <1>1, FilesStayRegistered
<1>2. ASSUME NEW c \in Clients, OfClient(c)
      PROVE  [Register!RegisterNext]_Register!registerVars
  <2>1. CASE CommitCompletion(c)
    BY <2>1, CompletionEnters DEF Register!RegisterNext
  <2>2. CASE CommitFiling(c)
    BY <2>2, FilingPutsAway DEF Register!RegisterNext
  <2>3. ASSUME NEW f \in Files, Read(c, f) PROVE Register!RegisterNext
    BY <2>3, ReadShows DEF Register!RegisterNext
  <2> QED
    BY <1>2, <2>1, <2>2, <2>3, ClientStaysRegistered
<1>3. CASE UNCHANGED vars
  BY <1>3, RegisterStays DEF vars, claims, clients
<1> QED
  BY <1>1, <1>2, <1>3 DEF Next

(* The inbox of any number of files, connections and clients is a          *)
(* register: a document is entered at one moment, once for its original,   *)
(* as the client that enters it was shown it, the entry is never changed,  *)
(* and the document is put away for good.                                  *)
THEOREM KeepsRegister == Spec => ImplementsRegister
<1>1. Init => Register!RegisterInit
  BY InitRegister
<1>2. IInv /\ [Next]_vars => [Register!RegisterNext]_Register!registerVars
  BY StepRegister
<1> QED
  BY <1>1, <1>2, Invariance, PTL DEF Spec, ImplementsRegister, Register!Spec
=============================================================================
