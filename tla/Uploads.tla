------------------------------ MODULE Uploads ------------------------------
(***************************************************************************)
(* Uploaded files: FileService of core/files/file.service.ts behind        *)
(* routes/public/files.ts, the object store the browser writes to          *)
(* (external), and the linking of files by routes/public/submit.ts.        *)
(*                                                                         *)
(* The store keeps an object per key and takes what the browser puts while *)
(* the presigned URL lasts; sizes are small numbers.                       *)
(***************************************************************************)
EXTENDS Naturals

CONSTANTS
    Files,         \* ids of form_files
    MaxBytes,      \* the limit in force: of the field, the plan, or the default
    BrowserBytes,  \* sizes a browser may announce or send
    Confirmations, \* requests of /public/files/confirm that overlap
    LinkTargets    \* submissions

ASSUME UploadAssumption ==
    /\ Files # {}
    /\ MaxBytes \in Nat /\ BrowserBytes \subseteq Nat /\ 0 \notin LinkTargets

VARIABLES
    file,      \* the rows
    object,    \* size of the stored object, Absent without one
    url,       \* whether the presigned URL still works
    confirm,   \* what each confirmation has read
    had        \* the sizes of the objects that a key has held

uploadVars == <<file, object, url, confirm, had>>

-----------------------------------------------------------------------------
Absent == 0
NoOwner == 0

\* confirmed: sha256 is not empty.
File == [row : BOOLEAN, size : BrowserBytes \cup {0}, confirmed : BOOLEAN,
         owner : LinkTargets \cup {NoOwner}]

NoFile == [row |-> FALSE, size |-> 0, confirmed |-> FALSE, owner |-> NoOwner]

Confirmation == [step : {"idle", "head", "update"}, file : Files]

UploadTypeOK ==
    /\ file \in [Files -> File]
    /\ object \in [Files -> BrowserBytes \cup {Absent}]
    /\ url \in [Files -> BOOLEAN]
    /\ DOMAIN confirm = Confirmations
    /\ \A c \in Confirmations : confirm[c] \in Confirmation
    /\ had \in [Files -> SUBSET BrowserBytes]
    /\ \A f \in Files : file[f].size <= MaxBytes /\ (object[f] # Absent => file[f].row)

WithinLimit(n) == n > 0 /\ n <= MaxBytes

\* presignUpload
Presign(f, n) ==
    /\ ~file[f].row
    /\ WithinLimit(n)
    /\ file' = [file EXCEPT ![f] = [NoFile EXCEPT !.row = TRUE, !.size = n]]
    /\ url' = [url EXCEPT ![f] = TRUE]
    /\ UNCHANGED <<object, confirm, had>>

\* The browser puts an object, of whatever size, once or again.
PutObject(f, n) ==
    /\ url[f]
    /\ object' = [object EXCEPT ![f] = n]
    /\ had' = [had EXCEPT ![f] = @ \cup {n}]
    /\ UNCHANGED <<file, url, confirm>>

UrlExpires(f) ==
    /\ url[f]
    /\ url' = [url EXCEPT ![f] = FALSE]
    /\ UNCHANGED <<file, object, confirm, had>>

\* confirmUpload: the row is found, its object looked at, the row updated.
FindFile(c, f) ==
    /\ confirm[c].step = "idle"
    /\ file[f].row
    /\ confirm' = [confirm EXCEPT ![c] = [step |-> "head", file |-> f]]
    /\ UNCHANGED <<file, object, url, had>>

\* Mutant: any object will do.
MatchesMutant(f) == object[f] # Absent

Matches(f) == object[f] # Absent /\ object[f] = file[f].size

HeadObject(c) ==
    /\ confirm[c].step = "head"
    /\ confirm' = [confirm EXCEPT ![c].step = IF Matches(confirm[c].file) THEN "update"
                                              ELSE "idle"]
    /\ UNCHANGED <<file, object, url, had>>

StoreHash(c) ==
    /\ confirm[c].step = "update"
    /\ file' = [file EXCEPT ![confirm[c].file].confirmed = TRUE]
    /\ confirm' = [confirm EXCEPT ![c].step = "idle"]
    /\ UNCHANGED <<object, url, had>>

\* linkToSubmission: every row among the ids the payload names, whoever made
\* it, confirmed or not, linked already or not.
LinkToSubmission(s, ids) ==
    /\ file' = [f \in Files |-> IF f \in ids /\ file[f].row THEN [file[f] EXCEPT !.owner = s]
                                ELSE file[f]]
    /\ UNCHANGED <<object, url, confirm, had>>

\* A submission's row is deleted, which sets its files free.
FreeFiles(s) ==
    /\ file' = [f \in Files |-> IF file[f].owner = s THEN [file[f] EXCEPT !.owner = NoOwner]
                                ELSE file[f]]
    /\ UNCHANGED <<object, url, confirm, had>>

-----------------------------------------------------------------------------
UploadInit ==
    /\ file = [f \in Files |-> NoFile]
    /\ object = [f \in Files |-> Absent]
    /\ url = [f \in Files |-> FALSE]
    /\ confirm = [c \in Confirmations |-> [step |-> "idle", file |-> CHOOSE f \in Files : TRUE]]
    /\ had = [f \in Files |-> {}]

UploadNext ==
    \/ \E f \in Files, n \in BrowserBytes : Presign(f, n) \/ PutObject(f, n)
    \/ \E f \in Files : UrlExpires(f)
    \/ \E c \in Confirmations, f \in Files : FindFile(c, f)
    \/ \E c \in Confirmations : HeadObject(c) \/ StoreHash(c)
    \/ \E s \in LinkTargets, ids \in SUBSET Files : LinkToSubmission(s, ids)
    \/ \E s \in LinkTargets : FreeFiles(s)

UploadSpec == UploadInit /\ [][UploadNext]_uploadVars

-----------------------------------------------------------------------------
\* Properties

\* A confirmed file was in the store with the size it was presigned for, and
\* so within the limit, though the browser may put another object over it
\* while a confirmation is under way.
ConfirmedWasStored == \A f \in Files : file[f].confirmed => file[f].size \in had[f]

=============================================================================
