--------------------------- MODULE DocumentInbox ---------------------------
(***************************************************************************)
(* The document inbox: files of a connected cloud drive, the inbox items   *)
(* that record them, their completion and their filing in the archive.     *)
(*                                                                         *)
(* Every request locks the row of its connection and then its item, so     *)
(* requests of one connection exclude each other, and a short one is one   *)
(* action.  Completion and filing are split: a completion also excludes    *)
(* completions of other connections by advisory locks and may outlive its  *)
(* claim; filing moves the file before it commits, and a move is not       *)
(* undone by a rollback.  The owner of the drive may change or move files  *)
(* at any time.                                                            *)
(*                                                                         *)
(* The version of a file stands for its content (Google's md5Checksum; the *)
(* cTag of OneDrive also tells a content from the same content restored,   *)
(* which refuses more).  A client is an actor, a session and a claim id.   *)
(***************************************************************************)
EXTENDS FiniteSets, Naturals

CONSTANTS
  Files,         \* provider file ids
  Connections,   \* storage connections of one organization
  Clients,
  Contents,      \* file contents; sha256 tells them apart
  Supported,     \* contents of a supported format
  Invoices,      \* business keys of invoices
  Keys,          \* idempotency keys of uploads
  MaxEdits,      \* bound: changes and moves made by the owner of the drive
  Null

(* What an item may be completed with.  CREATE: a draft, or a zero invoice *)
(* that needs none; each has a business key.  ATTACH: archived, linked to  *)
(* a draft or imported as a bank statement.                                *)
Action == {"CREATE", "LINK_POSTED", "ATTACH"}

ASSUME SupportedAssumption == Supported \subseteq Contents
ASSUME NullAssumption ==
  /\ Null \notin Files \cup Connections \cup Clients \cup Contents \cup Invoices \cup Keys
  /\ Null \notin Action
ASSUME MaxEditsAssumption == MaxEdits \in Nat

VARIABLES
  where,         \* "NONE", "INBOX", "ARCHIVE" (its final folder and name), "AWAY"
  content,       \* content of each file
  name,          \* the upload key the name of the file is made of
  home,          \* connection_id of each file
  status,        \* document_inbox_items.status, "NONE" without an item
  version,       \* content_version
  claim, live,   \* the claimant; lease_until is in the future
  action,        \* what the item was completed with (completion_hash)
  sha, business, \* sha256, business_key
  upload, hash,  \* upload_key, upload_hash (the content of the command)
  pc, job,       \* the transaction each client has open
  seen,          \* the content each client was last shown of each file
  touched,       \* files changed or moved by the owner since their completion
                 \* was checked or their filing done (history)
  edits          \* changes made by the owner so far, for MaxEdits

cloud == <<where, content, name, home>>
claims == <<status, claim, live>>
result == <<action, sha, business>>
uploads == <<version, upload, hash>>
clients == <<pc, job, seen>>
owner == <<touched, edits>>
vars == <<cloud, claims, result, uploads, clients, owner>>

Place == {"NONE", "INBOX", "ARCHIVE", "AWAY"}
Open == {"PENDING", "CLAIMED", "NEEDS_REVIEW"}
Completed == {"READY_TO_FILE", "FILED", "FILING_FAILED"}
Job == [file : Files \cup {Null}, action : Action \cup {Null},
        sha : Contents \cup {Null}, business : Invoices \cup {Null}]
NoJob == [file |-> Null, action |-> Null, sha |-> Null, business |-> Null]

Holds(c, f) == status[f] = "CLAIMED" /\ claim[f] = c /\ live[f]
Locked(p) == \E c \in Clients : pc[c] \in {"completing", "moving"} /\ home[job[c].file] = p
Free(f) == ~Locked(home[f])
Goto(c, place, j) == pc' = [pc EXCEPT ![c] = place] /\ job' = [job EXCEPT ![c] = j]

Init ==
  /\ where = [f \in Files |-> "NONE"]
  /\ content = [f \in Files |-> Null] /\ name = [f \in Files |-> Null]
  /\ home = [f \in Files |-> Null]
  /\ status = [f \in Files |-> "NONE"] /\ version = [f \in Files |-> Null]
  /\ claim = [f \in Files |-> Null] /\ live = [f \in Files |-> FALSE]
  /\ action = [f \in Files |-> Null] /\ sha = [f \in Files |-> Null]
  /\ business = [f \in Files |-> Null]
  /\ upload = [f \in Files |-> Null] /\ hash = [f \in Files |-> Null]
  /\ pc = [c \in Clients |-> "idle"] /\ job = [c \in Clients |-> NoJob]
  /\ seen = [c \in Clients |-> [f \in Files |-> Null]]
  /\ touched = {} /\ edits = 0

-----------------------------------------------------------------------------
(* The owner of the drive.                                                 *)

Create(f, p, x, k) ==
  /\ where[f] = "NONE"
  /\ where' = [where EXCEPT ![f] = "INBOX"]
  /\ content' = [content EXCEPT ![f] = x]
  /\ name' = [name EXCEPT ![f] = k]
  /\ home' = [home EXCEPT ![f] = p]

Drop(f, p, x) ==
  /\ Create(f, p, x, Null)
  /\ UNCHANGED <<claims, result, uploads, clients, owner>>

Touch(f) == /\ edits < MaxEdits /\ edits' = edits + 1
            /\ touched' = touched \cup {f}

Edit(f, x) ==
  /\ where[f] # "NONE" /\ content[f] # x /\ Touch(f)
  /\ content' = [content EXCEPT ![f] = x]
  /\ UNCHANGED <<where, name, home, claims, result, uploads, clients>>

Relocate(f, place) ==
  /\ where[f] # "NONE" /\ where[f] # place /\ Touch(f)
  /\ where' = [where EXCEPT ![f] = place]
  /\ UNCHANGED <<content, name, home, claims, result, uploads, clients>>

-----------------------------------------------------------------------------
(* Discovery and upload.                                                   *)

(* Without an item there is no version: Known is false.                    *)
Known(f, x) == action[f] # Null \/ version[f] = x

(* A new item, or one whose content changed, starts again.                 *)
DiscoverFile(f, x) ==
  IF Known(f, x) THEN UNCHANGED <<claims, version>>
  ELSE /\ status' = [status EXCEPT ![f] =
                       IF x \in Supported THEN "PENDING" ELSE "NEEDS_REVIEW"]
       /\ version' = [version EXCEPT ![f] = x]
       /\ claim' = [claim EXCEPT ![f] = Null]
       /\ live' = [live EXCEPT ![f] = FALSE]

SetUpload(f, k, x) == /\ upload' = [upload EXCEPT ![f] = k]
                      /\ hash' = [hash EXCEPT ![f] = x]

\* Mutant: a changed item keeps its upload key.
SyncKeepsKey(f) ==
  /\ where[f] = "INBOX" /\ Free(f)
  /\ DiscoverFile(f, content[f])
  /\ UNCHANGED <<cloud, result, upload, hash, clients, owner>>

Sync(f) ==
  /\ where[f] = "INBOX" /\ Free(f)
  /\ DiscoverFile(f, content[f])
  /\ IF Known(f, content[f]) THEN UNCHANGED <<upload, hash>> ELSE SetUpload(f, Null, Null)
  /\ UNCHANGED <<cloud, result, clients, owner>>

Uploaded(p, k) == \E f \in Files : home[f] = p /\ upload[f] = k
FoundUploads(p, k) == {f \in Files : where[f] = "INBOX" /\ home[f] = p /\ name[f] = k}

(* An earlier attempt stored the file, but its answer or commit was lost.  *)
AdoptUpload(f, p, k, x) ==
  /\ ~Locked(p) /\ ~Uploaded(p, k) /\ FoundUploads(p, k) = {f}
  /\ content[f] = x
  /\ DiscoverFile(f, x) /\ SetUpload(f, k, x)
  /\ UNCHANGED <<cloud, result, clients, owner>>

NewUpload(f, p, k, x) ==
  /\ ~Locked(p) /\ ~Uploaded(p, k) /\ FoundUploads(p, k) = {}
  /\ Create(f, p, x, k)
  /\ DiscoverFile(f, x) /\ SetUpload(f, k, x)
  /\ UNCHANGED <<result, clients, owner>>

(* The file is stored, but the transaction rolls back.                     *)
LostUpload(f, p, k, x) ==
  /\ ~Locked(p) /\ ~Uploaded(p, k) /\ FoundUploads(p, k) = {}
  /\ Create(f, p, x, k)
  /\ UNCHANGED <<claims, result, uploads, clients, owner>>

-----------------------------------------------------------------------------
(* Claims.                                                                 *)

(* A claimant may renew its claim, anyone may take over an expired one.    *)
Claim(c, f) ==
  /\ pc[c] = "idle" /\ status[f] \in Open /\ Free(f)
  /\ status[f] = "CLAIMED" /\ live[f] => claim[f] = c
  /\ status' = [status EXCEPT ![f] = "CLAIMED"]
  /\ claim' = [claim EXCEPT ![f] = c]
  /\ live' = [live EXCEPT ![f] = TRUE]
  /\ UNCHANGED <<cloud, result, uploads, clients, owner>>

LeaseExpires(f) ==
  /\ live[f]
  /\ live' = [live EXCEPT ![f] = FALSE]
  /\ UNCHANGED <<cloud, status, claim, result, uploads, clients, owner>>

AsDiscovered(f) == where[f] = "INBOX" /\ content[f] = version[f] /\ content[f] \in Supported

Read(c, f) ==
  /\ pc[c] = "idle" /\ Free(f) /\ Holds(c, f) /\ AsDiscovered(f)
  /\ seen' = [seen EXCEPT ![c][f] = content[f]]
  /\ UNCHANGED <<cloud, claims, result, uploads, pc, job, owner>>

\* Mutant: the lease outlives the claim.
ReviewKeepsLease(c, f) ==
  /\ pc[c] = "idle" /\ Free(f) /\ Holds(c, f)
  /\ status' = [status EXCEPT ![f] = "NEEDS_REVIEW"]
  /\ UNCHANGED <<cloud, claim, live, result, uploads, clients, owner>>

Review(c, f) ==
  /\ pc[c] = "idle" /\ Free(f) /\ Holds(c, f)
  /\ status' = [status EXCEPT ![f] = "NEEDS_REVIEW"]
  /\ live' = [live EXCEPT ![f] = FALSE]
  /\ UNCHANGED <<cloud, claim, result, uploads, clients, owner>>

-----------------------------------------------------------------------------
(* Completion.  Its checks and its writes are one transaction; another     *)
(* connection's may run between them unless an advisory lock forbids it.   *)

\* Mutant: only the business key is locked.
LocksKeyOnly(a, x, b) == IF a = "CREATE" THEN {<<"duplicate", b>>} ELSE {}
Locks(a, x, b) ==
  CASE a = "CREATE" -> {<<"checksum", x>>, <<"duplicate", b>>}
    [] a = "LINK_POSTED" -> {<<"checksum", x>>}
    [] OTHER -> {}
LocksOf(c) == IF pc[c] = "completing"
              THEN Locks(job[c].action, job[c].sha, job[c].business) ELSE {}

Duplicates(a, f, x, b) ==
  {g \in Files \ {f} : /\ action[g] # Null
                       /\ \/ a \in {"CREATE", "LINK_POSTED"} /\ sha[g] = x
                          \/ a = "CREATE" /\ business[g] = b}

\* Mutant: the checksum of the command is not compared.
AsReadUnchecked(c, f) == TRUE
(* The checksum of the command is the one the client was shown.            *)
AsRead(c, f) == content[f] = seen[c][f]

BeginCompletion(c, f, a, b) ==
  /\ pc[c] = "idle" /\ Free(f) /\ Holds(c, f) /\ AsDiscovered(f) /\ AsRead(c, f)
  /\ a = "CREATE" <=> b # Null
  /\ \A d \in Clients : LocksOf(d) \cap Locks(a, content[f], b) = {}
  /\ Duplicates(a, f, content[f], b) = {}
  /\ Goto(c, "completing", [file |-> f, action |-> a, sha |-> content[f], business |-> b])
  /\ touched' = touched \ {f}
  /\ UNCHANGED <<cloud, claims, result, uploads, seen, edits>>

(* The lease is looked at again, against the clock of now.  What clients   *)
(* were shown of a completed item has no use any more.                     *)
CommitCompletion(c) ==
  LET f == job[c].file IN
  /\ pc[c] = "completing" /\ Holds(c, f)
  /\ status' = [status EXCEPT ![f] = "READY_TO_FILE"]
  /\ live' = [live EXCEPT ![f] = FALSE]
  /\ action' = [action EXCEPT ![f] = job[c].action]
  /\ sha' = [sha EXCEPT ![f] = job[c].sha]
  /\ business' = [business EXCEPT ![f] = job[c].business]
  /\ Goto(c, "idle", NoJob)
  /\ seen' = [d \in Clients |-> [seen[d] EXCEPT ![f] = Null]]
  /\ UNCHANGED <<cloud, claim, uploads, owner>>

-----------------------------------------------------------------------------
(* Filing, right after the completion or retried by anyone later.          *)

ToFile(f) == status[f] \in {"READY_TO_FILE", "FILING_FAILED"}

\* Mutant: a file that was moved already cannot be filed.
FileableFromInbox(f) == where[f] = "INBOX" /\ content[f] = sha[f]
Fileable(f) == where[f] \in {"INBOX", "ARCHIVE"} /\ content[f] = sha[f]

(* The provider moves and renames the file, or finds it there already.     *)
MoveFile(c, f) ==
  /\ pc[c] = "idle" /\ ToFile(f) /\ Free(f) /\ Fileable(f)
  /\ where' = [where EXCEPT ![f] = "ARCHIVE"]
  /\ name' = [name EXCEPT ![f] = Null]
  /\ Goto(c, "moving", [NoJob EXCEPT !.file = f])
  /\ UNCHANGED <<content, home, claims, result, uploads, seen, owner>>

\* Mutant: the moved file is not read again.
StillAsCompletedUnread(f) == TRUE
StillAsCompleted(f) == where[f] = "ARCHIVE" /\ content[f] = sha[f]

CommitFiling(c) ==
  LET f == job[c].file IN
  /\ pc[c] = "moving" /\ StillAsCompleted(f)
  /\ status' = [status EXCEPT ![f] = "FILED"]
  /\ version' = [version EXCEPT ![f] = content[f]]
  /\ touched' = touched \ {f}
  /\ Goto(c, "idle", NoJob)
  /\ UNCHANGED <<cloud, claim, live, result, upload, hash, seen, edits>>

(* Filing fails before the move: the file changed or went, or the provider *)
(* did not answer.                                                         *)
FilingFails(c, f) ==
  /\ pc[c] = "idle" /\ ToFile(f) /\ Free(f)
  /\ Goto(c, "failing", [NoJob EXCEPT !.file = f])
  /\ UNCHANGED <<cloud, claims, result, uploads, seen, owner>>

(* An error, a lost answer or commit: the transaction rolls back.          *)
RollBack(c) ==
  /\ pc[c] \in {"completing", "moving"}
  /\ IF pc[c] = "moving" THEN Goto(c, "failing", job[c]) ELSE Goto(c, "idle", NoJob)
  /\ UNCHANGED <<cloud, claims, result, uploads, seen, owner>>

\* Mutant: the failure is recorded whatever happened meanwhile.
MarkFailedAlways(c) ==
  LET f == job[c].file IN
  /\ pc[c] = "failing" /\ Free(f)
  /\ status' = [status EXCEPT ![f] = "FILING_FAILED"]
  /\ Goto(c, "idle", NoJob)
  /\ UNCHANGED <<cloud, claim, live, result, uploads, seen, owner>>

(* The failure is recorded by a transaction of its own.                    *)
MarkFailed(c) ==
  LET f == job[c].file IN
  /\ pc[c] = "failing" /\ Free(f)
  /\ status' = [status EXCEPT ![f] = IF @ = "FILED" THEN @ ELSE "FILING_FAILED"]
  /\ Goto(c, "idle", NoJob)
  /\ UNCHANGED <<cloud, claim, live, result, uploads, seen, owner>>

Crash(c) ==
  /\ pc[c] \in {"moving", "failing"}
  /\ Goto(c, "idle", NoJob)
  /\ UNCHANGED <<cloud, claims, result, uploads, seen, owner>>

-----------------------------------------------------------------------------
OfOwner(f) ==
  \/ \E p \in Connections, x \in Contents : Drop(f, p, x)
  \/ \E x \in Contents : Edit(f, x)
  \/ \E place \in {"INBOX", "AWAY"} : Relocate(f, place)

OfUpload(f) ==
  \E p \in Connections, k \in Keys, x \in Supported :
    AdoptUpload(f, p, k, x) \/ NewUpload(f, p, k, x) \/ LostUpload(f, p, k, x)

OfClient(c) ==
  \/ \E f \in Files : \/ Claim(c, f)
                      \/ Read(c, f)
                      \/ Review(c, f)
                      \/ \E a \in Action, b \in Invoices \cup {Null} : BeginCompletion(c, f, a, b)
                      \/ MoveFile(c, f)
                      \/ FilingFails(c, f)
  \/ CommitCompletion(c) \/ CommitFiling(c)
  \/ RollBack(c) \/ MarkFailed(c) \/ Crash(c)

Next ==
  \/ \E f \in Files : OfOwner(f) \/ Sync(f) \/ OfUpload(f) \/ LeaseExpires(f)
  \/ \E c \in Clients : OfClient(c)

Spec == Init /\ [][Next]_vars
-----------------------------------------------------------------------------
(* Properties.                                                             *)

Maybe(S) == S \cup {Null}

(* Types, with the constraints of the table: an item is in a filing status *)
(* exactly when it is completed, and only a claim has a lease.             *)
TypeOK ==
  /\ where \in [Files -> Place] /\ content \in [Files -> Maybe(Contents)]
  /\ name \in [Files -> Maybe(Keys)] /\ home \in [Files -> Maybe(Connections)]
  /\ status \in [Files -> Open \cup Completed \cup {"NONE"}]
  /\ version \in [Files -> Maybe(Contents)]
  /\ claim \in [Files -> Maybe(Clients)] /\ live \in [Files -> BOOLEAN]
  /\ action \in [Files -> Maybe(Action)] /\ sha \in [Files -> Maybe(Contents)]
  /\ business \in [Files -> Maybe(Invoices)]
  /\ upload \in [Files -> Maybe(Keys)] /\ hash \in [Files -> Maybe(Contents)]
  /\ pc \in [Clients -> {"idle", "completing", "moving", "failing"}]
  /\ job \in [Clients -> Job]
  /\ seen \in [Clients -> [Files -> Maybe(Contents)]]
  /\ touched \subseteq Files /\ edits \in 0 .. MaxEdits
  /\ \A f \in Files : /\ status[f] \in Completed <=> action[f] # Null
                      /\ live[f] => status[f] = "CLAIMED"

(* No two items completed by creating a record or by linking posted        *)
(* journals have the same content, and no two created ones have the same   *)
(* business key: also when the file reached the inbox twice, by a lost     *)
(* upload that was filed and then retried, or through two connections      *)
(* whose completions overlap.                                              *)
OneRecordPerOriginal ==
  \A f, g \in Files :
    f # g /\ action[f] \in {"CREATE", "LINK_POSTED"} /\ action[g] \in {"CREATE", "LINK_POSTED"}
    => sha[f] # sha[g] /\ (action[f] = action[g] /\ action[f] = "CREATE"
                           => business[f] # business[g])

(* An item is completed by the client that holds it, as the content that   *)
(* client was last shown: never one that replaced it since, whoever edited *)
(* the file, synchronised or claimed the item in between.                  *)
CompletesWhatWasRead ==
  [][\A f \in Files : action[f] # action'[f] =>
       \E c \in Clients : Holds(c, f) /\ sha'[f] = seen[c][f]]_vars

(* What an item was completed with stays, and a filed item stays filed:    *)
(* no sync, claim, upload or late failure of another attempt reopens it.   *)
CompletionStands ==
  [][\A f \in Files : action[f] # Null =>
       /\ action'[f] = action[f] /\ sha'[f] = sha[f] /\ business'[f] = business[f]
       /\ status[f] = "FILED" => status'[f] = "FILED"]_vars

(* The inbox as those who keep it see it: every document is entered once,  *)
(* at one moment, as the client that enters it was shown it, and is put    *)
(* away for good, although duplicates are looked for before the entry is   *)
(* written and files move before that is known.                            *)
Entries ==
  [f \in {g \in Files : action[g] # Null} |->
     [action |-> action[f], content |-> sha[f], key |-> business[f]]]
FiledFiles == {f \in Files : status[f] = "FILED"}
Register == INSTANCE DocumentRegister
              WITH Documents <- Files, Readers <- Clients, Actions <- Action, Nothing <- Null,
                   entry <- Entries, away <- FiledFiles, shown <- seen
ImplementsRegister == Register!Spec

(* Whatever moves and answers were lost, a completed item that is not yet  *)
(* filed can still be, unless the owner changed or moved its file.         *)
FilingStaysPossible ==
  \A f \in Files : ToFile(f) /\ f \notin touched => Fileable(f)

(* A filed item is in the archive with the content it was completed with,  *)
(* unless the owner changed or moved it after the filing: an edit made     *)
(* while the file was being moved is noticed.                              *)
FiledAsCompleted ==
  \A f \in Files : status[f] = "FILED" /\ f \notin touched =>
    where[f] = "ARCHIVE" /\ content[f] = sha[f]

(* An upload that is sent again is answered with an item of the content it *)
(* was sent with: the key of an open item whose file changed is gone.      *)
UploadKeysStandForContent ==
  \A f \in Files : upload[f] # Null /\ action[f] = Null => version[f] = hash[f]
=============================================================================
