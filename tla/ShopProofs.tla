------------------------------ MODULE ShopProofs ------------------------------
(***************************************************************************)
(* Theorems about DocumentStore and StoreCart for every value of their     *)
(* constants.                                                              *)
(***************************************************************************)
EXTENDS ShopMC, SumTheorems

-----------------------------------------------------------------------------
(* The inductive invariant of DocumentStore *)

\* A request in flight has the fields of its kind.
UploadJob == [op : {"save", "insert", "discard"}, student : Enrolled, key : Nat]
ImageJob == [op : {"saveImage", "setImage", "dropImage", "discard"}, old : Nat, key : Nat]
RemovalJob ==
  [op : {"backup", "drop", "mark", "restore"}, id : Nat, path : Int, backup : BOOLEAN]
ExpelJob == [op : {"expel"}, student : Enrolled]
Job == {NoJob} \cup UploadJob \cup ImageJob \cup RemovalJob \cup ExpelJob

Typed ==
  /\ students \subseteq Enrolled /\ history \subseteq students
  /\ nextId \in Nat \ {0} /\ nextKey \in Nat \ {0}
  /\ DOMAIN documents \subseteq 1..(nextId - 1)
  /\ documents \in [DOMAIN documents -> Document]
  /\ \A i \in DOMAIN documents : documents[i].student \in students
  /\ files \subseteq 1..(nextKey - 1) /\ told \subseteq FileKeys \cap 1..(nextKey - 1)
  /\ image \in {NoKey} \cup told
  /\ job \in [Jobs -> Job]
  /\ quiet \in BOOLEAN /\ taken \in BOOLEAN

\* A key that clients are not told has one owner: a request that holds the file it
\* has saved; or a document, and the requests that remove it.  The keys of images
\* are told, and any document may name them.
Holding(c) == job[c].op \in {"insert", "discard", "setImage"}
Removing(c) == job[c].op \in {"backup", "drop", "mark", "restore"}
Replacing(c) == job[c].op \in {"saveImage", "setImage", "dropImage"}

HeldOnce ==
  \A c \in Jobs : Holding(c) =>
    /\ job[c].key \in (files \cap FileKeys) \ told
    /\ \A i \in DOMAIN documents : documents[i].path # job[c].key
    /\ \A d \in Jobs : /\ Holding(d) /\ d # c => job[d].key # job[c].key
                       /\ Removing(d) => job[d].path # job[c].key

PathsOwned ==
  \A i \in DOMAIN documents :
    /\ documents[i].path < nextKey
    /\ \A k \in DOMAIN documents \ {i} :
         documents[k].path = documents[i].path => documents[i].path \in Nameable

RemovalsOwn ==
  \A c \in Jobs : Removing(c) =>
    /\ job[c].id < nextId /\ job[c].path \in FileKeys \cup {Outside}
    /\ job[c].path < nextKey
    /\ job[c].op \in {"drop", "restore"} => job[c].backup
    /\ job[c].backup => job[c].path # Outside
    /\ \A i \in DOMAIN documents \ {job[c].id} :
         documents[i].path = job[c].path => job[c].path \in Nameable

ImagesOwn ==
  \A c \in Jobs : Replacing(c) =>
    /\ job[c].old \in {NoKey} \cup told
    /\ job[c].op = "dropImage" => job[c].old # image /\ job[c].old # NoKey

Owners == HeldOnce /\ PathsOwned /\ RemovalsOwn /\ ImagesOwn

\* With no overlap there is one request, and what it has read is still so.
OneJob == \A c, d \in Jobs : job[c] # NoJob /\ job[d] # NoJob => c = d

Undisturbed(c) ==
  /\ job[c].op \in {"saveImage", "setImage"} => job[c].old = image
  /\ job[c].op = "expel" =>
       \A i \in DocumentsOf(job[c].student) : documents[i].path \in Nameable
  /\ Removing(c) =>
       /\ job[c].id \in DOMAIN documents /\ documents[job[c].id].path = job[c].path
       /\ job[c].backup => \/ job[c].path = image
                           \/ job[c].path \notin told /\ documents[job[c].id].status # "DELETED"
       /\ job[c].op = "mark" => job[c].path \notin files

QuietStore == quiet => OneJob /\ \A c \in Jobs : Undisturbed(c)

StoreInv == Typed /\ Owners /\ NamedFilesExist /\ QuietStore /\ NoStrayFiles

-----------------------------------------------------------------------------
(* What a step does to the requests in flight *)

\* One request changes, the others do not.
LEMMA OneChanges ==
  ASSUME job \in [Jobs -> Job], NEW c \in Jobs, NEW j \in Job, job' = [job EXCEPT ![c] = j]
  PROVE  /\ job' \in [Jobs -> Job] /\ job'[c] = j
         /\ \A d \in Jobs \ {c} : job'[d] = job[d]
  OBVIOUS

\* The step of a request tells its kind.
LEMMA JobKind ==
  ASSUME job \in [Jobs -> Job], NEW c \in Jobs
  PROVE  /\ job[c].op \in {"save", "insert"} => job[c] \in UploadJob
         /\ job[c].op = "discard" => job[c] \in UploadJob \cup ImageJob
         /\ Replacing(c) => job[c] \in ImageJob
         /\ Removing(c) => job[c] \in RemovalJob
         /\ job[c].op = "expel" => job[c] \in ExpelJob
  BY DEF Job, NoJob, UploadJob, ImageJob, RemovalJob, ExpelJob, Replacing, Removing

\* What each handler does to its request; the others are as they were.
Becomes(c) == job' \in [Jobs -> Job] /\ \A d \in Jobs \ {c} : job'[d] = job[d]

LEMMA BeginEffect ==
  ASSUME Typed, NEW c \in Jobs, NEW j \in Job, Begin(c, j)
  PROVE  Becomes(c) /\ job[c] = NoJob /\ job'[c] = j
  BY DEF Typed, Begin, Becomes

LEMMA SettleEffect ==
  ASSUME Typed, NEW c \in Jobs, job' = [job EXCEPT ![c] = NoJob]
  PROVE  Becomes(c) /\ job'[c] = NoJob
<1>1. NoJob \in Job /\ job \in [Jobs -> Job]
  BY DEF Job, Typed
<1> QED BY <1>1, OneChanges DEF Becomes

LEMMA SaveFileEffect ==
  ASSUME Typed, NEW c \in Jobs, SaveFile(c)
  PROVE  /\ Becomes(c) /\ job[c].op = "save"
         /\ job'[c].op = "insert" /\ job'[c].key = nextKey
<1>1. job[c] \in UploadJob /\ nextKey \in Nat /\ job \in [Jobs -> Job] /\ job[c].op = "save"
  BY JobKind DEF Typed, SaveFile
<1> DEFINE w == [[job[c] EXCEPT !.op = "insert"] EXCEPT !.key = nextKey]
<1>2. job' = [job EXCEPT ![c] = w]
  BY <1>1 DEF SaveFile, SaveKey
<1>3. w \in UploadJob /\ w.op = "insert" /\ w.key = nextKey
  BY <1>1 DEF UploadJob
<1> HIDE DEF w
<1> QED BY <1>1, <1>2, <1>3, OneChanges DEF Becomes, Job

LEMMA SaveImageEffect ==
  ASSUME Typed, NEW c \in Jobs, SaveImage(c)
  PROVE  /\ Becomes(c) /\ job[c].op = "saveImage"
         /\ job'[c].op = "setImage" /\ job'[c].key = nextKey /\ job'[c].old = job[c].old
<1>1. job[c] \in ImageJob /\ nextKey \in Nat /\ job \in [Jobs -> Job] /\ job[c].op = "saveImage"
  BY JobKind DEF Typed, SaveImage, Replacing
<1> DEFINE w == [[job[c] EXCEPT !.op = "setImage"] EXCEPT !.key = nextKey]
<1>2. job' = [job EXCEPT ![c] = w]
  BY <1>1 DEF SaveImage, SaveKey
<1>3. w \in ImageJob /\ w.op = "setImage" /\ w.key = nextKey /\ w.old = job[c].old
  BY <1>1 DEF ImageJob
<1> HIDE DEF w
<1> QED BY <1>1, <1>2, <1>3, OneChanges DEF Becomes, Job

LEMMA UploadProceeds ==
  ASSUME Typed, NEW c \in Jobs, InsertFails(c)
  PROVE  /\ Becomes(c) /\ job[c].op = "insert"
         /\ job'[c].op = "discard" /\ job'[c].key = job[c].key
<1>1. job[c] \in UploadJob /\ job \in [Jobs -> Job] /\ job[c].op = "insert"
  BY JobKind DEF Typed, InsertFails
<1> DEFINE w == [job[c] EXCEPT !.op = "discard"]
<1>2. job' = [job EXCEPT ![c] = w]
  BY DEF InsertFails, Proceed
<1>3. w \in UploadJob /\ w.op = "discard" /\ w.key = job[c].key
  BY <1>1 DEF UploadJob
<1> HIDE DEF w
<1> QED BY <1>1, <1>2, <1>3, OneChanges DEF Becomes, Job

LEMMA ImageProceeds ==
  ASSUME Typed, NEW c \in Jobs, job[c].op = "setImage", NEW x \in {"dropImage", "discard"},
         job' = [job EXCEPT ![c].op = x]
  PROVE  /\ Becomes(c)
         /\ job'[c].op = x /\ job'[c].key = job[c].key /\ job'[c].old = job[c].old
<1>1. job[c] \in ImageJob /\ job \in [Jobs -> Job]
  BY JobKind DEF Typed, Replacing
<1> DEFINE w == [job[c] EXCEPT !.op = x]
<1>2. job' = [job EXCEPT ![c] = w]
  OBVIOUS
<1>3. w \in ImageJob /\ w.op = x /\ w.key = job[c].key /\ w.old = job[c].old
  BY <1>1 DEF ImageJob
<1> HIDE DEF w
<1> QED BY <1>1, <1>2, <1>3, OneChanges DEF Becomes, Job

LEMMA RemovalProceeds ==
  ASSUME Typed, NEW c \in Jobs, Removing(c), NEW x \in {"mark", "restore"},
         job' = [job EXCEPT ![c].op = x]
  PROVE  /\ Becomes(c) /\ job'[c].op = x /\ job'[c].id = job[c].id
         /\ job'[c].path = job[c].path /\ job'[c].backup = job[c].backup
<1>1. job[c] \in RemovalJob /\ job \in [Jobs -> Job]
  BY JobKind DEF Typed
<1> DEFINE w == [job[c] EXCEPT !.op = x]
<1>2. job' = [job EXCEPT ![c] = w]
  OBVIOUS
<1>3. /\ w \in RemovalJob /\ w.op = x /\ w.id = job[c].id
      /\ w.path = job[c].path /\ w.backup = job[c].backup
  BY <1>1 DEF RemovalJob
<1> HIDE DEF w
<1> QED BY <1>1, <1>2, <1>3, OneChanges DEF Becomes, Job

LEMMA BackupEffect ==
  ASSUME Typed, NEW c \in Jobs, BackupFile(c)
  PROVE  /\ Becomes(c) /\ job[c].op = "backup" /\ job'[c].id = job[c].id
         /\ job'[c].path = job[c].path /\ job'[c].backup = (job[c].path \in files)
         /\ job'[c].op = IF job[c].path \in files THEN "drop" ELSE "mark"
<1>1. job[c] \in RemovalJob /\ job \in [Jobs -> Job] /\ job[c].op = "backup"
  BY JobKind DEF Typed, BackupFile, Removing
<1> DEFINE x == IF job[c].path \in files THEN "drop" ELSE "mark"
           b == job[c].path \in files
           v == [job[c] EXCEPT !.op = x]
           w == [v EXCEPT !.backup = b]
<1>2. x \in {"drop", "mark"} /\ b \in BOOLEAN
  OBVIOUS
<1>3. job' = [job EXCEPT ![c] = w]
  BY Zenon DEF BackupFile
<1>4. x = IF b THEN "drop" ELSE "mark"
  OBVIOUS
<1> HIDE DEF x, b
<1>5. v \in RemovalJob /\ v.op = x /\ v.id = job[c].id /\ v.path = job[c].path
  BY <1>1, <1>2 DEF RemovalJob
<1> HIDE DEF v
<1>6. w \in RemovalJob /\ w.op = x /\ w.id = job[c].id /\ w.path = job[c].path /\ w.backup = b
  BY <1>2, <1>5 DEF RemovalJob
<1> HIDE DEF w
<1> QED BY <1>1, <1>3, <1>6, OneChanges DEF Becomes, Job, x, b

LEMMA SetImageEffect ==
  ASSUME Typed, NEW c \in Jobs, SetImage(c)
  PROVE  /\ Becomes(c) /\ job[c] \in ImageJob /\ job[c].op = "setImage"
         /\ IF job[c].old = NoKey THEN job'[c] = NoJob
            ELSE /\ job'[c].op = "dropImage" /\ job'[c].key = job[c].key
                 /\ job'[c].old = job[c].old
<1>1. job[c].op = "setImage" /\ job \in [Jobs -> Job]
  BY DEF SetImage, Typed
<1>2. job[c] \in ImageJob
  BY <1>1, JobKind DEF Replacing
<1>3. CASE job[c].old = NoKey
  BY <1>1, <1>2, <1>3, SettleEffect DEF SetImage, Settle
<1>4. CASE job[c].old # NoKey
  BY <1>1, <1>2, <1>4, ImageProceeds DEF SetImage
<1> QED BY <1>3, <1>4

LEMMA MarkFailsEffect ==
  ASSUME Typed, NEW c \in Jobs, MarkFails(c)
  PROVE  /\ Becomes(c) /\ job[c] \in RemovalJob /\ job[c].op = "mark"
         /\ IF job[c].backup
            THEN /\ job'[c].op = "restore" /\ job'[c].id = job[c].id
                 /\ job'[c].path = job[c].path /\ job'[c].backup = job[c].backup
            ELSE job'[c] = NoJob
<1>1. job[c].op = "mark" /\ job \in [Jobs -> Job]
  BY DEF MarkFails, Typed
<1>2. job[c] \in RemovalJob /\ Removing(c)
  BY <1>1, JobKind DEF Removing
<1>3. CASE job[c].backup
  BY <1>1, <1>2, <1>3, RemovalProceeds DEF MarkFails, Proceed
<1>4. CASE ~job[c].backup
  BY <1>1, <1>2, <1>4, SettleEffect DEF MarkFails, Settle
<1> QED BY <1>3, <1>4

-----------------------------------------------------------------------------
(* Types *)

LEMMA InsertedTyped ==
  ASSUME Typed, NEW row \in Document, Inserted(row)
  PROVE  /\ DOMAIN documents' = DOMAIN documents \cup {nextId} /\ nextId \notin DOMAIN documents
         /\ documents' \in [DOMAIN documents' -> Document] /\ documents'[nextId] = row
         /\ \A i \in DOMAIN documents : documents'[i] = documents[i]
         /\ nextId' = nextId + 1 /\ students' = students /\ history' = history
         /\ row.student \in students
  BY DEF Typed, Inserted

\* What is typed about the keys of requests, documents and the image.
LEMMA KeyTypes ==
  ASSUME Typed
  PROVE  /\ nextKey \in Nat \ {0} /\ nextId \in Nat \ {0} /\ image \in Nat /\ image < nextKey
         /\ \A i \in DOMAIN documents : i \in Nat /\ i < nextId
         /\ \A i \in DOMAIN documents : documents[i].path \in FileKeys \cup {Outside}
         /\ \A k \in files : k \in Nat /\ k < nextKey /\ k # NoKey
         /\ \A d \in Jobs : Holding(d) => job[d].key \in Nat
         /\ \A d \in Jobs : Removing(d) => job[d].id \in Nat /\ job[d].path \in Int
         /\ \A d \in Jobs : Replacing(d) => job[d].old \in Nat
         /\ \A k \in Nameable : k \in FileKeys \cup {Outside} /\ k < nextKey
         /\ Outside \notin files /\ NoKey \notin told
<1>1. \A d \in Jobs : Holding(d) => job[d].key \in Nat
  BY JobKind DEF Typed, Holding, UploadJob, ImageJob, Replacing
<1>2. \A d \in Jobs : Removing(d) => job[d].id \in Nat /\ job[d].path \in Int
  BY JobKind DEF Typed, RemovalJob
<1>3. \A d \in Jobs : Replacing(d) => job[d].old \in Nat
  BY JobKind DEF Typed, ImageJob
<1> QED BY <1>1, <1>2, <1>3 DEF Typed, Document, NoKey, Nameable, Outside

LEMMA TypeStep ==
  ASSUME Typed, Owners, [DocumentsNext]_documentVars
  PROVE  Typed'
<1> USE DEF rows, storage, product, ghosts
<1>1. ASSUME NEW c \in Jobs, UploadProductImage(c)
      PROVE  Typed'
  <2> DEFINE j == [op |-> "saveImage", old |-> image, key |-> NoKey]
  <2>1. j \in Job
    BY DEF Typed, Job, ImageJob, NoKey
  <2>2. Begin(c, j) /\ UNCHANGED <<rows, storage, product>>
    BY <1>1 DEF UploadProductImage
  <2> HIDE DEF j
  <2> QED BY <2>1, <2>2, BeginEffect DEF Typed, Becomes, Begin
<1>2. ASSUME NEW c \in Jobs, SaveFile(c) \/ SaveImage(c)
      PROVE  Typed'
  <2>1. Becomes(c)
    BY <1>2, SaveFileEffect, SaveImageEffect
  <2> QED BY <1>2, <2>1 DEF Typed, Becomes, SaveFile, SaveImage, SaveKey
<1>3. ASSUME NEW c \in Jobs, InsertDocument(c)
      PROVE  Typed'
  <2> DEFINE row == [student |-> job[c].student, status |-> "ACTIVE", path |-> job[c].key]
  <2>1. Becomes(c) /\ UNCHANGED <<files, nextKey, product, quiet, taken>> /\ Inserted(row)
    BY <1>3, SettleEffect DEF InsertDocument, Settle
  <2>2. row \in Document
    <3>1. job[c] \in UploadJob /\ Holding(c)
      BY <1>3, JobKind DEF InsertDocument, Typed, Holding
    <3>2. job[c].key \in FileKeys
      BY <3>1 DEF Owners, HeldOnce
    <3> QED BY <3>1, <3>2 DEF UploadJob, Document, DocumentStatus
  <2> HIDE DEF row
  <2> QED BY <2>1, <2>2, InsertedTyped DEF Typed, Becomes
<1>4. ASSUME NEW c \in Jobs, InsertFails(c)
      PROVE  Typed'
  BY <1>4, UploadProceeds DEF InsertFails, Proceed, Typed, Becomes
<1>5. ASSUME NEW c \in Jobs, DiscardFile(c) \/ DropImage(c) \/ EndJob(c)
      PROVE  Typed'
  <2>1. Becomes(c)
    BY <1>5, SettleEffect DEF DiscardFile, DropImage, EndJob, Settle
  <2>2. UNCHANGED <<rows, nextKey, product, taken>> /\ files' \subseteq files /\ quiet' \in BOOLEAN
    BY <1>5 DEF DiscardFile, DropImage, EndJob, Settle, Typed
  <2> QED BY <2>1, <2>2 DEF Typed, Becomes
<1>6. ASSUME NEW c \in Jobs, BackupFile(c)
      PROVE  Typed'
  BY <1>6, BackupEffect DEF BackupFile, Typed, Becomes
<1>7. ASSUME NEW c \in Jobs, DropFile(c)
      PROVE  Typed'
  <2>1. Becomes(c)
    BY <1>7, RemovalProceeds DEF DropFile, Removing
  <2> QED BY <1>7, <2>1 DEF DropFile, Proceed, Typed, Becomes
<1>8. ASSUME NEW c \in Jobs, MarkDeleted(c)
      PROVE  Typed'
  <2>1. Becomes(c)
    BY <1>8, SettleEffect DEF MarkDeleted, Settle
  <2> DEFINE i == job[c].id  row == [documents[i] EXCEPT !.status = "DELETED"]
  <2>2. i \in DOMAIN documents /\ documents' = [documents EXCEPT ![i] = row]
    BY <1>8, Zenon DEF MarkDeleted
  <2>3. row \in Document /\ row.student = documents[i].student
    BY <2>2 DEF Typed, Document, DocumentStatus
  <2>4. UNCHANGED <<students, history, nextId, storage, product, quiet, taken>>
    BY <1>8 DEF MarkDeleted, Settle
  <2> HIDE DEF row, i
  <2> QED BY <2>1, <2>2, <2>3, <2>4 DEF Typed, Becomes
<1>9. ASSUME NEW c \in Jobs, MarkFails(c)
      PROVE  Typed'
  <2>1. Becomes(c) /\ UNCHANGED <<rows, storage, product, quiet, taken>>
    BY <1>9, MarkFailsEffect DEF MarkFails, Settle, Proceed
  <2> QED BY <2>1 DEF Typed, Becomes
<1>10. ASSUME NEW c \in Jobs, RestoreFile(c)
       PROVE  Typed'
  <2>1. /\ Becomes(c) /\ UNCHANGED <<rows, nextKey, product, quiet>>
        /\ files' = files \cup {job[c].path} /\ taken' \in BOOLEAN
    BY <1>10, SettleEffect DEF RestoreFile, Typed
  <2>2. Removing(c) /\ job[c].op = "restore"
    BY <1>10 DEF RestoreFile, Removing
  <2>3. job[c].path \in FileKeys /\ job[c].path < nextKey
    BY <2>2 DEF Owners, RemovalsOwn
  <2>4. job[c].path \in 1..(nextKey - 1)
    BY <2>3 DEF FileKeys, Typed
  <2> QED BY <2>4, <2>1, <2>2 DEF Typed, Becomes
<1>11. ASSUME NEW c \in Jobs, SetImage(c)
       PROVE  Typed'
  <2>1. /\ Becomes(c) /\ UNCHANGED <<rows, storage, quiet>>
        /\ image' = job[c].key /\ told' = told \cup {job[c].key} /\ taken' = FALSE
    BY <1>11, SetImageEffect DEF SetImage
  <2>2. job[c].key \in files
    BY <1>11 DEF SetImage, Owners, HeldOnce, Holding
  <2> QED BY <2>1, <2>2 DEF Typed, Becomes
<1>12. ASSUME NEW c \in Jobs, SetImageFails(c)
       PROVE  Typed'
  <2>1. Becomes(c)
    BY <1>12, ImageProceeds DEF SetImageFails, Proceed
  <2> QED BY <1>12, <2>1 DEF SetImageFails, Proceed, Typed, Becomes
<1>13. ASSUME NEW c \in Jobs, DeleteStudent(c)
       PROVE  Typed'
  <2>1. Becomes(c)
    BY <1>13, SettleEffect DEF DeleteStudent, Settle
  <2> QED BY <1>13, <2>1 DEF DeleteStudent, Settle, Typed, Becomes, DocumentsOf
<1>14. ASSUME NEW c \in Jobs, NEW s \in Enrolled, Upload(c, s)
       PROVE  Typed'
  <2> DEFINE j == [op |-> "save", student |-> s, key |-> NoKey]
  <2>1. j \in Job
    BY DEF Job, UploadJob, NoKey
  <2>2. Begin(c, j) /\ UNCHANGED <<rows, storage, product>>
    BY <1>14 DEF Upload
  <2> HIDE DEF j
  <2> QED BY <2>1, <2>2, BeginEffect DEF Typed, Becomes, Begin
<1>15. ASSUME NEW c \in Jobs, NEW s \in Enrolled, RemoveStudent(c, s)
       PROVE  Typed'
  <2> DEFINE j == [op |-> "expel", student |-> s]
  <2>1. j \in Job
    BY DEF Job, ExpelJob
  <2>2. Begin(c, j) /\ UNCHANGED <<rows, storage, product>>
    BY <1>15 DEF RemoveStudent
  <2> HIDE DEF j
  <2> QED BY <2>1, <2>2, BeginEffect DEF Typed, Becomes, Begin
<1>16. ASSUME NEW c \in Jobs, NEW i \in DOMAIN documents, RemoveDocument(c, i)
       PROVE  Typed'
  <2> DEFINE j == [op |-> "backup", id |-> i, path |-> documents[i].path, backup |-> FALSE]
  <2>1. j \in Job
    BY <1>16 DEF Typed, Job, RemovalJob, Document, FileKeys, Outside
  <2>2. Begin(c, j) /\ UNCHANGED <<rows, storage, product>>
    BY <1>16 DEF RemoveDocument
  <2> HIDE DEF j
  <2> QED BY <2>1, <2>2, BeginEffect DEF Typed, Becomes, Begin
<1>17. ASSUME NEW s \in Enrolled, Involve(s)
       PROVE  Typed'
  BY <1>17 DEF Involve, Typed
<1>18. ASSUME NEW s \in Enrolled, NEW status \in DocumentStatus, NEW path \in Nameable,
              CreateDocument(s, status, path)
       PROVE  Typed'
  <2> DEFINE row == [student |-> s, status |-> status, path |-> path]
  <2>1. row \in Document
    BY KeyTypes DEF Document
  <2>2. Inserted(row) /\ UNCHANGED <<storage, product, job, quiet, taken>>
    BY <1>18 DEF CreateDocument
  <2> HIDE DEF row
  <2> QED BY <2>1, <2>2, InsertedTyped DEF Typed
<1>19. ASSUME NEW i \in DOMAIN documents, NEW row \in Document, UpdateDocument(i, row)
       PROVE  Typed'
  BY <1>19 DEF UpdateDocument, Typed
<1>20. CASE UNCHANGED documentVars
  BY <1>20 DEF documentVars, Typed
<1> QED
  BY <1>1, <1>2, <1>3, <1>4, <1>5, <1>6, <1>7, <1>8, <1>9, <1>10, <1>11, <1>12, <1>13, <1>14,
     <1>15, <1>16, <1>17, <1>18, <1>19, <1>20
     DEF DocumentsNext, UploadSteps, RemovalSteps, ImageSteps

-----------------------------------------------------------------------------
(* Owners *)

\* Nobody comes to own a key: requests end or go on, rows go or lose their path.
KeysKept ==
  /\ UNCHANGED <<product, nextKey>> /\ nextId <= nextId' /\ nextId' \in Nat
  /\ \A d \in Jobs :
       /\ Holding(d)' => Holding(d) /\ job'[d].key = job[d].key /\ job[d].key \in files'
       /\ Removing(d)' => /\ Removing(d) /\ job'[d].id = job[d].id /\ job'[d].path = job[d].path
                          /\ job'[d].op \in {"drop", "restore"} => job'[d].backup
                          /\ job'[d].backup => job'[d].path # Outside
       /\ Replacing(d)' => /\ Replacing(d) /\ job'[d].old = job[d].old
                           /\ job'[d].op = "dropImage" => job[d].old # image /\ job[d].old # NoKey
  /\ \A i \in DOMAIN documents' :
       documents'[i].path \in Nameable
         \/ (i \in DOMAIN documents /\ documents'[i].path = documents[i].path)

LEMMA OwnersKept ==
  ASSUME Typed, Owners, KeysKept
  PROVE  Owners'
<1> USE KeyTypes DEF Outside, NoKey, Nameable, product
<1>1. HeldOnce'
  BY DEF Owners, HeldOnce, KeysKept, FileKeys
<1>2. PathsOwned'
  BY DEF Owners, PathsOwned, KeysKept, FileKeys
<1>3. RemovalsOwn'
  BY DEF Owners, RemovalsOwn, KeysKept, FileKeys
<1>4. ImagesOwn'
  BY DEF Owners, ImagesOwn, KeysKept
<1> QED BY <1>1, <1>2, <1>3, <1>4 DEF Owners

\* Of one request; the others are as they were.
LEMMA OthersKept ==
  ASSUME Typed, Owners, NEW c \in Jobs, \A d \in Jobs \ {c} : job'[d] = job[d],
         UNCHANGED <<product, nextKey>>, nextId <= nextId', nextId' \in Nat,
         \A d \in Jobs \ {c} : Holding(d) => job[d].key \in files',
         \A i \in DOMAIN documents' :
           documents'[i].path \in Nameable
             \/ (i \in DOMAIN documents /\ documents'[i].path = documents[i].path),
         \/ job'[c] = NoJob
         \/ /\ job'[c].op = "discard" /\ Holding(c) /\ job'[c].key = job[c].key
            /\ job[c].key \in files'
         \/ /\ Removing(c) /\ Removing(c)' /\ job'[c].id = job[c].id /\ job'[c].path = job[c].path
            /\ job'[c].op \in {"drop", "restore"} => job'[c].backup
            /\ job'[c].backup => job'[c].path # Outside
  PROVE  Owners'
<1>1. KeysKept
  <2> SUFFICES ASSUME NEW d \in Jobs
      PROVE
       /\ Holding(d)' => Holding(d) /\ job'[d].key = job[d].key /\ job[d].key \in files'
       /\ Removing(d)' => /\ Removing(d) /\ job'[d].id = job[d].id /\ job'[d].path = job[d].path
                          /\ job'[d].op \in {"drop", "restore"} => job'[d].backup
                          /\ job'[d].backup => job'[d].path # Outside
       /\ Replacing(d)' => /\ Replacing(d) /\ job'[d].old = job[d].old
                           /\ job'[d].op = "dropImage" => job[d].old # image /\ job[d].old # NoKey
    BY DEF KeysKept
  <2>1. CASE d = c
    BY <2>1 DEF Holding, Removing, Replacing, NoJob
  <2>2. CASE d # c
    BY <2>2 DEF Owners, RemovalsOwn, ImagesOwn, Holding, Removing, Replacing
  <2> QED BY <2>1, <2>2
<1> QED BY <1>1, OwnersKept

\* A request saves a file under a key of its own.
LEMMA FreshKey ==
  ASSUME Typed, Owners, NEW c \in Jobs,
         ~Holding(c), ~Removing(c), Holding(c)', ~Removing(c)', job'[c].key = nextKey,
         Replacing(c)' => Replacing(c) /\ job'[c].old = job[c].old /\ job'[c].op # "dropImage",
         \A d \in Jobs \ {c} : job'[d] = job[d],
         nextKey \in FileKeys, nextKey' = nextKey + 1, files' = files \cup {nextKey},
         UNCHANGED <<rows, product>>
  PROVE  Owners'
<1> USE DEF rows, product, Nameable
<1>1. /\ nextKey \notin told
      /\ \A i \in DOMAIN documents : documents[i].path # nextKey
      /\ \A d \in Jobs : /\ Holding(d) => job[d].key \in files /\ job[d].key # nextKey
                         /\ Removing(d) => job[d].path # nextKey
  BY KeyTypes DEF Typed, Owners, HeldOnce, PathsOwned, RemovalsOwn
<1>2. HeldOnce'
  <2> SUFFICES ASSUME NEW d \in Jobs, Holding(d)'
               PROVE  /\ job'[d].key \in (files' \cap FileKeys) \ told
                      /\ \A i \in DOMAIN documents : documents[i].path # job'[d].key
                      /\ \A e \in Jobs : /\ Holding(e)' /\ e # d => job'[e].key # job'[d].key
                                         /\ Removing(e)' => job'[e].path # job'[d].key
    BY DEF HeldOnce
  <2>1. CASE d = c
    BY <1>1, <2>1 DEF Holding, Removing, Replacing
  <2>2. CASE d # c
    <3>1. Holding(d) /\ job'[d] = job[d]
      BY <2>2 DEF Holding
    <3>2. /\ job[d].key \in (files \cap FileKeys) \ told
          /\ \A i \in DOMAIN documents : documents[i].path # job[d].key
          /\ \A e \in Jobs : /\ Holding(e) /\ e # d => job[e].key # job[d].key
                             /\ Removing(e) => job[e].path # job[d].key
      BY <3>1 DEF Owners, HeldOnce
    <3> QED BY <1>1, <2>2, <3>1, <3>2 DEF Holding, Removing, Replacing
  <2> QED BY <2>1, <2>2
<1>3. PathsOwned'
  <2>1. \A i \in DOMAIN documents : documents[i].path < nextKey'
    BY KeyTypes DEF Owners, PathsOwned, FileKeys, Outside
  <2> QED BY <2>1 DEF Owners, PathsOwned
<1>4. RemovalsOwn'
  BY <1>1, KeyTypes DEF Owners, RemovalsOwn, Removing, Replacing
<1>5. ImagesOwn'
  BY <1>1, KeyTypes DEF Owners, ImagesOwn, Replacing
<1> QED BY <1>2, <1>3, <1>4, <1>5 DEF Owners

LEMMA OwnersStep ==
  ASSUME Typed, Owners, [DocumentsNext]_documentVars
  PROVE  Owners'
<1> USE DEF rows, storage, product, ghosts, Nameable
<1>t. Typed'
  BY TypeStep
<1>1. ASSUME NEW c \in Jobs, UploadProductImage(c)
      PROVE  Owners'
  <2> DEFINE j == [op |-> "saveImage", old |-> image, key |-> NoKey]
  <2>1. j \in Job
    BY DEF Typed, Job, ImageJob, NoKey
  <2>2. Begin(c, j) /\ UNCHANGED <<rows, storage, product>>
    BY <1>1 DEF UploadProductImage
  <2>3. j.op = "saveImage" /\ j.old = image
    OBVIOUS
  <2> HIDE DEF j
  <2>4. /\ job'[c] = j /\ \A d \in Jobs \ {c} : job'[d] = job[d]
    BY <2>1, <2>2, BeginEffect DEF Becomes
  <2>5. HeldOnce' /\ PathsOwned'
    BY <2>2, <2>3, <2>4, KeyTypes DEF Owners, HeldOnce, PathsOwned, Holding, Removing, Replacing
  <2>6. RemovalsOwn'
    BY <2>2, <2>3, <2>4 DEF Owners, RemovalsOwn, Removing
  <2>7. image \in {NoKey} \cup told
    BY DEF Typed
  <2>8. ImagesOwn'
    BY <2>2, <2>3, <2>4, <2>7 DEF Owners, ImagesOwn, Replacing
  <2> QED BY <2>5, <2>6, <2>8 DEF Owners
<1>2. ASSUME NEW c \in Jobs, SaveFile(c)
      PROVE  Owners'
  <2>1. /\ job[c].op = "save" /\ job'[c].op = "insert" /\ job'[c].key = nextKey
        /\ \A d \in Jobs \ {c} : job'[d] = job[d]
    BY <1>2, SaveFileEffect DEF Becomes
  <2>2. /\ nextKey \in FileKeys /\ nextKey' = nextKey + 1 /\ files' = files \cup {nextKey}
        /\ UNCHANGED <<rows, product>>
    BY <1>2 DEF SaveFile, SaveKey
  <2> QED BY <2>1, <2>2, FreshKey DEF Holding, Removing, Replacing
<1>3. ASSUME NEW c \in Jobs, SaveImage(c)
      PROVE  Owners'
  <2>1. /\ job[c].op = "saveImage" /\ job'[c].op = "setImage" /\ job'[c].key = nextKey
        /\ job'[c].old = job[c].old /\ \A d \in Jobs \ {c} : job'[d] = job[d]
    BY <1>3, SaveImageEffect DEF Becomes
  <2>2. /\ nextKey \in FileKeys /\ nextKey' = nextKey + 1 /\ files' = files \cup {nextKey}
        /\ UNCHANGED <<rows, product>>
    BY <1>3 DEF SaveImage, SaveKey
  <2> QED BY <2>1, <2>2, FreshKey DEF Holding, Removing, Replacing
<1>4. ASSUME NEW c \in Jobs, InsertDocument(c)
      PROVE  Owners'
  <2> DEFINE row == [student |-> job[c].student, status |-> "ACTIVE", path |-> job[c].key]
  <2>1. Becomes(c) /\ job'[c] = NoJob /\ UNCHANGED <<files, nextKey, product>> /\ Inserted(row)
    BY <1>4, SettleEffect DEF InsertDocument, Settle
  <2>2. row.path = job[c].key /\ Holding(c)
    BY <1>4 DEF InsertDocument, Holding
  <2>3. row \in Document
    <3>1. job[c] \in UploadJob
      BY <1>4, JobKind DEF InsertDocument, Typed
    <3>2. job[c].key \in FileKeys
      BY <2>2 DEF Owners, HeldOnce
    <3> QED BY <3>1, <3>2 DEF UploadJob, Document, DocumentStatus
  <2> HIDE DEF row
  <2>4. /\ DOMAIN documents' = DOMAIN documents \cup {nextId} /\ nextId \notin DOMAIN documents
        /\ documents'[nextId].path = job[c].key /\ nextId' = nextId + 1
        /\ \A i \in DOMAIN documents : documents'[i].path = documents[i].path
    BY <2>1, <2>2, <2>3, InsertedTyped
  <2>5. ~Holding(c)' /\ ~Removing(c)' /\ ~Replacing(c)' /\ \A d \in Jobs \ {c} : job'[d] = job[d]
    BY <2>1 DEF NoJob, Holding, Removing, Replacing, Becomes
  <2>6. job[c].key # Outside
    BY <2>2, KeyTypes DEF Outside
  <2>7. HeldOnce'
    BY <2>1, <2>2, <2>4, <2>5, KeyTypes DEF Owners, HeldOnce, Holding, Removing, Replacing
  <2>8. PathsOwned'
    BY <2>1, <2>2, <2>4, <2>5, KeyTypes DEF Owners, HeldOnce, PathsOwned, Nameable
  <2>9. RemovalsOwn' /\ ImagesOwn'
    BY <2>1, <2>2, <2>4, <2>5, KeyTypes DEF Owners, HeldOnce, RemovalsOwn, ImagesOwn, Replacing, Removing, Nameable
  <2> QED BY <2>7, <2>8, <2>9 DEF Owners
<1>5. ASSUME NEW c \in Jobs, SetImage(c)
      PROVE  Owners'
  <2>1. /\ job[c].op = "setImage" /\ \A d \in Jobs \ {c} : job'[d] = job[d]
        /\ ~Holding(c)' /\ ~Removing(c)'
        /\ Replacing(c)' => job'[c].old = job[c].old /\ job[c].old # NoKey
    BY <1>5, SetImageEffect DEF Becomes, NoJob, Holding, Removing, Replacing
  <2>2. /\ image' = job[c].key /\ told' = told \cup {job[c].key}
        /\ UNCHANGED <<rows, storage>> /\ Holding(c) /\ Replacing(c)
    BY <1>5 DEF SetImage, Holding, Replacing
  <2>3. HeldOnce'
    BY <2>1, <2>2, KeyTypes DEF Owners, HeldOnce, Holding, Removing, Replacing
  <2>4. PathsOwned' /\ RemovalsOwn'
    BY <2>1, <2>2, KeyTypes DEF Owners, HeldOnce, PathsOwned, RemovalsOwn, Removing, Nameable
  <2>5. ImagesOwn'
    BY <2>1, <2>2, KeyTypes DEF Owners, HeldOnce, ImagesOwn, Holding, Replacing
  <2> QED BY <2>3, <2>4, <2>5 DEF Owners
<1>6. ASSUME NEW c \in Jobs, NEW i \in DOMAIN documents, RemoveDocument(c, i)
      PROVE  Owners'
  <2> DEFINE j == [op |-> "backup", id |-> i, path |-> documents[i].path, backup |-> FALSE]
  <2>1. j \in Job
    BY <1>6 DEF Typed, Job, RemovalJob, Document, FileKeys, Outside
  <2>2. Begin(c, j) /\ UNCHANGED <<rows, storage, product>>
    BY <1>6 DEF RemoveDocument
  <2>3. j.op = "backup" /\ j.path = documents[i].path /\ j.id = i /\ ~j.backup
    OBVIOUS
  <2> HIDE DEF j
  <2>4. job'[c] = j /\ \A d \in Jobs \ {c} : job'[d] = job[d]
    BY <2>1, <2>2, BeginEffect DEF Becomes
  <2>5. HeldOnce' /\ PathsOwned' /\ ImagesOwn'
    BY <2>2, <2>3, <2>4, KeyTypes
       DEF Owners, HeldOnce, PathsOwned, ImagesOwn, Holding, Removing, Replacing
  <2>6. RemovalsOwn'
    BY <2>2, <2>3, <2>4, KeyTypes DEF Owners, PathsOwned, RemovalsOwn, Removing, Replacing
  <2> QED BY <2>5, <2>6 DEF Owners
<1>7. ASSUME NEW c \in Jobs, InsertFails(c)
      PROVE  Owners'
  <2>1. /\ job[c].op = "insert" /\ job'[c].op = "discard" /\ job'[c].key = job[c].key
        /\ \A d \in Jobs \ {c} : job'[d] = job[d]
    BY <1>7, UploadProceeds DEF Becomes
  <2>2. UNCHANGED <<rows, storage, product>>
    BY <1>7 DEF InsertFails
  <2> QED BY <2>1, <2>2, KeyTypes, OthersKept DEF Owners, HeldOnce, Holding
<1>8. ASSUME NEW c \in Jobs, SetImageFails(c)
      PROVE  Owners'
  <2>1. /\ job[c].op = "setImage" /\ job'[c].op = "discard" /\ job'[c].key = job[c].key
        /\ \A d \in Jobs \ {c} : job'[d] = job[d]
    BY <1>8, ImageProceeds DEF Becomes, SetImageFails, Proceed
  <2>2. UNCHANGED <<rows, storage, product>>
    BY <1>8 DEF SetImageFails
  <2> QED BY <2>1, <2>2, KeyTypes, OthersKept DEF Owners, HeldOnce, Holding
<1>9. ASSUME NEW c \in Jobs, DiscardFile(c)
      PROVE  Owners'
  <2>1. job'[c] = NoJob /\ \A d \in Jobs \ {c} : job'[d] = job[d]
    BY <1>9, SettleEffect DEF DiscardFile, Settle, Becomes
  <2>2. files' = files \ {job[c].key} /\ UNCHANGED <<rows, nextKey, product>> /\ Holding(c)
    BY <1>9 DEF DiscardFile, Holding
  <2>3. \A d \in Jobs \ {c} : Holding(d) => job[d].key \in files'
    BY <2>2 DEF Owners, HeldOnce
  <2> QED BY <2>1, <2>2, <2>3, KeyTypes, OthersKept
<1>10. ASSUME NEW c \in Jobs, DropImage(c)
       PROVE  Owners'
  <2>1. job'[c] = NoJob /\ \A d \in Jobs \ {c} : job'[d] = job[d]
    BY <1>10, SettleEffect DEF DropImage, Settle, Becomes
  <2>2. files' = files \ {job[c].old} /\ UNCHANGED <<rows, nextKey, product>> /\ Replacing(c)
    BY <1>10 DEF DropImage, Replacing
  <2>3. job[c].old \in {NoKey} \cup told
    BY <2>2 DEF Owners, ImagesOwn
  <2>4. \A d \in Jobs \ {c} : Holding(d) => job[d].key \in files'
    BY <2>2, <2>3, KeyTypes DEF Owners, HeldOnce
  <2> QED BY <2>1, <2>2, <2>4, KeyTypes, OthersKept
<1>11. ASSUME NEW c \in Jobs, EndJob(c) \/ RestoreFile(c) \/ MarkDeleted(c) \/ DeleteStudent(c)
       PROVE  Owners'
  <2>1. job'[c] = NoJob /\ \A d \in Jobs \ {c} : job'[d] = job[d]
    BY <1>11, SettleEffect
       DEF EndJob, RestoreFile, MarkDeleted, DeleteStudent, Settle, Becomes
  <2>2. UNCHANGED <<product, nextKey, nextId>> /\ files \subseteq files'
    BY <1>11 DEF EndJob, RestoreFile, MarkDeleted, DeleteStudent
  <2>3. \A i \in DOMAIN documents' :
          i \in DOMAIN documents /\ documents'[i].path = documents[i].path
    <3>1. CASE EndJob(c) \/ RestoreFile(c)
      BY <3>1 DEF EndJob, RestoreFile
    <3>2. CASE MarkDeleted(c)
      <4> DEFINE i == job[c].id  row == [documents[i] EXCEPT !.status = "DELETED"]
      <4>1. i \in DOMAIN documents /\ documents' = [documents EXCEPT ![i] = row]
        BY <3>2, Zenon DEF MarkDeleted
      <4>2. row.path = documents[i].path
        BY <4>1 DEF Typed, Document
      <4> HIDE DEF i, row
      <4> QED BY <4>1, <4>2 DEF Typed
    <3>3. CASE DeleteStudent(c)
      BY <3>3 DEF DeleteStudent
    <3> QED BY <1>11, <3>1, <3>2, <3>3
  <2>4. \A d \in Jobs \ {c} : Holding(d) => job[d].key \in files'
    BY <2>2 DEF Owners, HeldOnce
  <2> QED BY <2>1, <2>2, <2>3, <2>4, KeyTypes, OthersKept
<1>12. ASSUME NEW c \in Jobs, BackupFile(c)
       PROVE  Owners'
  <2>1. /\ Removing(c) /\ Removing(c)' /\ job'[c].id = job[c].id /\ job'[c].path = job[c].path
        /\ job'[c].op \in {"drop", "restore"} => job'[c].backup
        /\ job'[c].backup => job'[c].path \in files
        /\ \A d \in Jobs \ {c} : job'[d] = job[d]
    BY <1>12, BackupEffect DEF Becomes, Removing
  <2>2. UNCHANGED <<rows, storage, product>>
    BY <1>12 DEF BackupFile
  <2> QED BY <2>1, <2>2, KeyTypes, OthersKept DEF Owners, HeldOnce, Outside
<1>13. ASSUME NEW c \in Jobs, DropFile(c)
       PROVE  Owners'
  <2>1. /\ Removing(c) /\ Removing(c)' /\ job'[c].id = job[c].id /\ job'[c].path = job[c].path
        /\ job'[c].op = "mark" /\ job'[c].backup = job[c].backup
        /\ \A d \in Jobs \ {c} : job'[d] = job[d]
    BY <1>13, RemovalProceeds DEF DropFile, Becomes, Removing
  <2>2. files' = files \ {job[c].path} /\ UNCHANGED <<rows, nextKey, product>>
    BY <1>13 DEF DropFile
  <2>3. \A d \in Jobs \ {c} : Holding(d) => job[d].key \in files'
    BY <2>1, <2>2 DEF Owners, HeldOnce
  <2>4. job'[c].backup => job'[c].path # Outside
    BY <2>1 DEF Owners, RemovalsOwn
  <2> QED BY <2>1, <2>2, <2>3, <2>4, KeyTypes, OthersKept
<1>14. ASSUME NEW c \in Jobs, MarkFails(c)
       PROVE  Owners'
  <2>1. /\ Removing(c) /\ \A d \in Jobs \ {c} : job'[d] = job[d]
        /\ \/ job'[c] = NoJob
           \/ /\ Removing(c)' /\ job'[c].id = job[c].id /\ job'[c].path = job[c].path
              /\ job[c].backup /\ job'[c].backup
    BY <1>14, MarkFailsEffect DEF Becomes, Removing
  <2>2. UNCHANGED <<rows, storage, product>>
    BY <1>14 DEF MarkFails
  <2>3. job[c].backup => job[c].path # Outside
    BY <2>1 DEF Owners, RemovalsOwn
  <2> QED BY <2>1, <2>2, <2>3, KeyTypes, OthersKept DEF Owners, HeldOnce
<1>15. ASSUME NEW c \in Jobs, NEW s \in Enrolled, Upload(c, s) \/ RemoveStudent(c, s)
       PROVE  Owners'
  <2> DEFINE upload == [op |-> "save", student |-> s, key |-> NoKey]
             removal == [op |-> "expel", student |-> s]
  <2>1. \E j \in {upload, removal} : Begin(c, j)
    BY <1>15 DEF Upload, RemoveStudent
  <2>2. upload \in Job /\ removal \in Job
    BY DEF Job, UploadJob, ExpelJob, NoKey
  <2>3. upload.op = "save" /\ removal.op = "expel"
    OBVIOUS
  <2>4. UNCHANGED <<rows, storage, product>>
    BY <1>15 DEF Upload, RemoveStudent
  <2> HIDE DEF upload, removal
  <2>5. ~Holding(c)' /\ ~Removing(c)' /\ ~Replacing(c)' /\ \A d \in Jobs \ {c} : job'[d] = job[d]
    BY <2>1, <2>2, <2>3, BeginEffect DEF Becomes, Holding, Removing, Replacing
  <2>6. KeysKept
    BY <2>4, <2>5, KeyTypes
       DEF KeysKept, Owners, HeldOnce, RemovalsOwn, ImagesOwn, Holding, Removing, Replacing
  <2> QED BY <2>6, OwnersKept
<1>16. ASSUME NEW s \in Enrolled, Involve(s)
       PROVE  Owners'
  BY <1>16 DEF Involve, Owners, HeldOnce, PathsOwned, RemovalsOwn, ImagesOwn,
     Holding, Removing, Replacing
<1>17. ASSUME NEW s \in Enrolled, NEW status \in DocumentStatus, NEW path \in Nameable,
              CreateDocument(s, status, path)
       PROVE  Owners'
  <2> DEFINE row == [student |-> s, status |-> status, path |-> path]
  <2>1. row \in Document /\ row.path \in Nameable
    BY KeyTypes DEF Document
  <2>2. Inserted(row) /\ UNCHANGED <<storage, product, job>>
    BY <1>17 DEF CreateDocument
  <2> HIDE DEF row
  <2>3. KeysKept
    BY <2>1, <2>2, InsertedTyped, KeyTypes
       DEF KeysKept, Owners, HeldOnce, RemovalsOwn, ImagesOwn, Holding, Removing, Replacing
  <2> QED BY <2>3, OwnersKept
<1>18. ASSUME NEW i \in DOMAIN documents, NEW row \in Document, UpdateDocument(i, row)
       PROVE  Owners'
  <2>1. KeysKept
    BY <1>18, KeyTypes
       DEF UpdateDocument, Typed,
       KeysKept, Owners, HeldOnce, RemovalsOwn, ImagesOwn, Holding, Removing, Replacing
  <2> QED BY <2>1, OwnersKept
<1>19. CASE UNCHANGED documentVars
  BY <1>19 DEF documentVars, Owners, HeldOnce, PathsOwned, RemovalsOwn, ImagesOwn,
     Holding, Removing, Replacing
<1> QED
  BY <1>1, <1>2, <1>3, <1>4, <1>5, <1>6, <1>7, <1>8, <1>9, <1>10, <1>11, <1>12, <1>13, <1>14,
     <1>15, <1>16, <1>17, <1>18, <1>19
     DEF DocumentsNext, UploadSteps, RemovalSteps, ImageSteps

-----------------------------------------------------------------------------
(* Whatever names a file has it *)

\* A removal that has the file away.
Away(c) == job[c].op \in {"mark", "restore"} /\ job[c].backup

\* The image has its file as before, the files of documents are there as before, and
\* no removal that has one away ends.
LEMMA NamedKept ==
  ASSUME Typed, NamedFilesExist, torn \subseteq torn', told \subseteq told',
         ImageHasFile' \/ (UNCHANGED <<image, taken>> /\ image \notin files \ files'),
         \A k \in files \ files' :
           \/ k \in told
           \/ \A i \in DOMAIN documents : documents[i].path = k =>
                \E c \in Jobs : Away(c)' /\ job'[c].path = k,
         \A c \in Jobs : Away(c) => \/ Away(c)' /\ job'[c].path = job[c].path
                                    \/ job[c].path \in torn' \cup files'
                                    \/ \A i \in DOMAIN documents' :
                                         documents'[i].path = job[c].path =>
                                           documents'[i].path \in Nameable \/ documents'[i].status = "DELETED",
         \A i \in DOMAIN documents' :
           \/ documents'[i].path \in files' \cup torn' \cup Nameable
           \/ documents'[i].status = "DELETED"
           \/ /\ i \in DOMAIN documents /\ documents'[i].path = documents[i].path
              /\ documents[i].status # "DELETED"
  PROVE  NamedFilesExist'
<1>1. ImageHasFile'
  BY DEF NamedFilesExist, ImageHasFile
<1>2. DocumentsHaveFiles'
  <2> SUFFICES ASSUME NEW i \in DOMAIN documents', documents'[i].status # "DELETED",
                      documents'[i].path \in FileKeys \ (torn' \cup told'),
                      documents'[i].path \notin files'
               PROVE  \E c \in Jobs : Away(c)' /\ job'[c].path = documents'[i].path
    BY DEF DocumentsHaveFiles, Away
  <2>1. documents'[i].path \notin Nameable
    BY KeyTypes DEF Outside, FileKeys, Nameable
  <2>2. /\ i \in DOMAIN documents /\ documents'[i].path = documents[i].path
        /\ documents[i].status # "DELETED"
    BY <2>1
  <2>3. CASE documents[i].path \in files
    BY <2>1, <2>2, <2>3 DEF Nameable
  <2>4. CASE documents[i].path \notin files
    <3>1. PICK c \in Jobs : Away(c) /\ job[c].path = documents[i].path
      BY <2>2, <2>4 DEF NamedFilesExist, DocumentsHaveFiles, Away
    <3> QED BY <2>1, <2>2, <3>1
  <2> QED BY <2>3, <2>4
<1> QED BY <1>1, <1>2 DEF NamedFilesExist

LEMMA NamedStep ==
  ASSUME Typed, Owners, NamedFilesExist, [DocumentsNext]_documentVars
  PROVE  NamedFilesExist'
<1> USE DEF rows, storage, product, ghosts
<1>1. ASSUME NEW c \in Jobs, NEW j, j.op \notin {"mark", "restore"}, j \in Job, Begin(c, j),
             UNCHANGED <<rows, storage, product>>
      PROVE  NamedFilesExist'
  <2>1. job[c] = NoJob /\ job'[c] = j /\ \A d \in Jobs \ {c} : job'[d] = job[d]
    BY <1>1, BeginEffect DEF Becomes
  <2>2. \A d \in Jobs : Away(d) => Away(d)' /\ job'[d].path = job[d].path
    BY <2>1 DEF Away, NoJob
  <2>3. UNCHANGED <<torn, taken>>
    BY <1>1 DEF Begin
  <2> QED BY <1>1, <2>2, <2>3, NamedKept
<1>2. ASSUME NEW c \in Jobs, UploadProductImage(c)
      PROVE  NamedFilesExist'
  <2>1. [op |-> "saveImage", old |-> image, key |-> NoKey] \in Job
    BY DEF Typed, Job, ImageJob, NoKey
  <2> QED BY <1>1, <1>2, <2>1 DEF UploadProductImage
<1>3. ASSUME NEW c \in Jobs, NEW s \in Enrolled, Upload(c, s) \/ RemoveStudent(c, s)
      PROVE  NamedFilesExist'
  <2>1. [op |-> "save", student |-> s, key |-> NoKey] \in Job
        /\ [op |-> "expel", student |-> s] \in Job
    BY DEF Job, UploadJob, ExpelJob, NoKey
  <2> QED BY <1>1, <1>3, <2>1 DEF Upload, RemoveStudent
<1>4. ASSUME NEW c \in Jobs, NEW i \in DOMAIN documents, RemoveDocument(c, i)
      PROVE  NamedFilesExist'
  <2>1. [op |-> "backup", id |-> i, path |-> documents[i].path, backup |-> FALSE] \in Job
    BY DEF Typed, Job, RemovalJob, Document, FileKeys, Outside
  <2> QED BY <1>1, <1>4, <2>1 DEF RemoveDocument
<1>5. ASSUME NEW c \in Jobs, SaveFile(c) \/ SaveImage(c)
      PROVE  NamedFilesExist'
  <2>1. job[c].op \in {"save", "saveImage"} /\ \A d \in Jobs \ {c} : job'[d] = job[d]
    BY <1>5, SaveFileEffect, SaveImageEffect DEF Becomes
  <2>2. \A d \in Jobs : Away(d) => Away(d)' /\ job'[d].path = job[d].path
    BY <2>1 DEF Away
  <2>3. UNCHANGED <<rows, product, torn, taken>> /\ files \subseteq files'
    BY <1>5 DEF SaveFile, SaveImage, SaveKey
  <2> QED BY <2>2, <2>3, NamedKept
<1>6. ASSUME NEW c \in Jobs, InsertDocument(c)
      PROVE  NamedFilesExist'
  <2> DEFINE row == [student |-> job[c].student, status |-> "ACTIVE", path |-> job[c].key]
  <2>1. /\ UNCHANGED <<files, product, torn, taken>> /\ Inserted(row)
        /\ job[c].op = "insert" /\ \A d \in Jobs \ {c} : job'[d] = job[d]
    BY <1>6, SettleEffect DEF InsertDocument, Settle, Becomes
  <2>2. row.path \in files
    BY <2>1 DEF Owners, HeldOnce, Holding
  <2>3. row \in Document
    BY <2>1, JobKind DEF Typed, Owners, HeldOnce, Holding, UploadJob, Document, DocumentStatus
  <2> HIDE DEF row
  <2>4. \A d \in Jobs : Away(d) => Away(d)' /\ job'[d].path = job[d].path
    BY <2>1 DEF Away
  <2>5. \A i \in DOMAIN documents' :
          \/ documents'[i].path \in files'
          \/ i \in DOMAIN documents /\ documents'[i] = documents[i]
    BY <2>1, <2>2, <2>3, InsertedTyped
  <2> QED BY <2>1, <2>4, <2>5, NamedKept
<1>7. ASSUME NEW c \in Jobs, InsertFails(c) \/ SetImageFails(c)
      PROVE  NamedFilesExist'
  <2>1. job[c].op \in {"insert", "setImage"} /\ \A d \in Jobs \ {c} : job'[d] = job[d]
    BY <1>7, UploadProceeds, ImageProceeds DEF Becomes, SetImageFails, Proceed
  <2>2. \A d \in Jobs : Away(d) => Away(d)' /\ job'[d].path = job[d].path
    BY <2>1 DEF Away
  <2>3. UNCHANGED <<rows, storage, product, torn, taken>>
    BY <1>7 DEF InsertFails, SetImageFails, Proceed
  <2> QED BY <2>2, <2>3, NamedKept
<1>8. ASSUME NEW c \in Jobs, DiscardFile(c)
      PROVE  NamedFilesExist'
  <2>1. /\ job[c].op = "discard" /\ \A d \in Jobs \ {c} : job'[d] = job[d]
        /\ files' = files \ {job[c].key} /\ UNCHANGED <<rows, product, torn, taken>>
    BY <1>8, SettleEffect DEF DiscardFile, Settle, Becomes
  <2>2. job[c].key # image /\ \A i \in DOMAIN documents : documents[i].path # job[c].key
    BY <2>1, KeyTypes DEF Owners, HeldOnce, Holding, Typed
  <2>3. \A d \in Jobs : Away(d) => Away(d)' /\ job'[d].path = job[d].path
    BY <2>1 DEF Away
  <2> QED BY <2>1, <2>2, <2>3, NamedKept
<1>9. ASSUME NEW c \in Jobs, DropImage(c)
      PROVE  NamedFilesExist'
  <2>1. /\ job[c].op = "dropImage" /\ \A d \in Jobs \ {c} : job'[d] = job[d]
        /\ files' = files \ {job[c].old} /\ UNCHANGED <<rows, product, torn, taken>>
    BY <1>9, SettleEffect DEF DropImage, Settle, Becomes
  <2>2. job[c].old # image /\ job[c].old \in told
    BY <2>1 DEF Owners, ImagesOwn, Replacing
  <2>3. \A d \in Jobs : Away(d) => Away(d)' /\ job'[d].path = job[d].path
    BY <2>1 DEF Away
  <2> QED BY <2>1, <2>2, <2>3, NamedKept
<1>10. ASSUME NEW c \in Jobs, EndJob(c)
       PROVE  NamedFilesExist'
  <2>1. /\ \A d \in Jobs \ {c} : job'[d] = job[d]
        /\ UNCHANGED <<rows, storage, product, taken>> /\ torn \subseteq torn'
        /\ Away(c) => job[c].path \in torn' \cup Nameable
    BY <1>10, SettleEffect DEF EndJob, Becomes, Away
  <2>2. \A d \in Jobs \ {c} : Away(d) => Away(d)' /\ job'[d].path = job[d].path
    BY <2>1 DEF Away
  <2> QED BY <2>1, <2>2, NamedKept
<1>11. ASSUME NEW c \in Jobs, BackupFile(c)
       PROVE  NamedFilesExist'
  <2>1. /\ job[c].op = "backup" /\ \A d \in Jobs \ {c} : job'[d] = job[d]
        /\ UNCHANGED <<rows, storage, product, torn, taken>>
    BY <1>11, BackupEffect DEF BackupFile, Becomes
  <2>2. \A d \in Jobs : Away(d) => Away(d)' /\ job'[d].path = job[d].path
    BY <2>1 DEF Away
  <2> QED BY <2>1, <2>2, NamedKept
<1>12. ASSUME NEW c \in Jobs, DropFile(c)
       PROVE  NamedFilesExist'
  <2>1. /\ job[c].op = "drop" /\ \A d \in Jobs \ {c} : job'[d] = job[d]
        /\ job'[c].op = "mark" /\ job'[c].path = job[c].path /\ job'[c].backup = job[c].backup
        /\ files' = files \ {job[c].path} /\ UNCHANGED <<rows, product, torn>>
        /\ taken' = (taken \/ job[c].path = image)
    BY <1>12, RemovalProceeds DEF DropFile, Removing, Becomes
  <2>2. job[c].backup
    BY <2>1 DEF Owners, RemovalsOwn, Removing
  <2>3. \A d \in Jobs : Away(d) => Away(d)' /\ job'[d].path = job[d].path
    BY <2>1 DEF Away
  <2>4. Away(c)'
    BY <2>1, <2>2 DEF Away
  <2>5. ImageHasFile'
    BY <2>1 DEF NamedFilesExist, ImageHasFile
  <2> QED BY <2>1, <2>3, <2>4, <2>5, NamedKept
<1>13. ASSUME NEW c \in Jobs, MarkDeleted(c)
       PROVE  NamedFilesExist'
  <2> DEFINE n == job[c].id  row == [documents[n] EXCEPT !.status = "DELETED"]
  <2>1. /\ n \in DOMAIN documents /\ documents' = [documents EXCEPT ![n] = row]
    BY <1>13, Zenon DEF MarkDeleted
  <2>2. /\ job[c].op = "mark" /\ \A d \in Jobs \ {c} : job'[d] = job[d]
        /\ UNCHANGED <<files, product, torn, taken>>
    BY <1>13, SettleEffect DEF MarkDeleted, Settle, Becomes
  <2>3. row.status = "DELETED"
    BY <2>1 DEF Typed, Document
  <2>4. \A i \in DOMAIN documents \ {n} :
          documents[i].path = job[c].path => job[c].path \in Nameable
    BY <2>2 DEF Owners, RemovalsOwn, Removing
  <2> HIDE DEF n, row
  <2>5. \A i \in DOMAIN documents' :
          /\ i \in DOMAIN documents
          /\ \/ i = n /\ documents'[i].status = "DELETED"
             \/ i # n /\ documents'[i] = documents[i]
    BY <2>1, <2>3
  <2>6. \A d \in Jobs \ {c} : Away(d) => Away(d)' /\ job'[d].path = job[d].path
    BY <2>2 DEF Away
  <2> QED BY <2>2, <2>4, <2>5, <2>6, NamedKept
<1>14. ASSUME NEW c \in Jobs, MarkFails(c)
       PROVE  NamedFilesExist'
  <2>1. /\ \A d \in Jobs \ {c} : job'[d] = job[d]
        /\ Away(c) => Away(c)' /\ job'[c].path = job[c].path
    BY <1>14, MarkFailsEffect DEF Becomes, Away
  <2>2. UNCHANGED <<rows, storage, product, torn, taken>>
    BY <1>14 DEF MarkFails, Settle, Proceed
  <2>3. \A d \in Jobs : Away(d) => Away(d)' /\ job'[d].path = job[d].path
    BY <2>1 DEF Away
  <2> QED BY <2>2, <2>3, NamedKept
<1>15. ASSUME NEW c \in Jobs, RestoreFile(c)
       PROVE  NamedFilesExist'
  <2>1. /\ \A d \in Jobs \ {c} : job'[d] = job[d]
        /\ files' = files \cup {job[c].path} /\ UNCHANGED <<rows, product, torn>>
        /\ taken' = (taken /\ job[c].path # image)
    BY <1>15, SettleEffect DEF RestoreFile, Becomes
  <2>2. \A d \in Jobs \ {c} : Away(d) => Away(d)' /\ job'[d].path = job[d].path
    BY <2>1 DEF Away
  <2>3. ImageHasFile'
    BY <2>1 DEF NamedFilesExist, ImageHasFile
  <2> QED BY <2>1, <2>2, <2>3, NamedKept
<1>16. ASSUME NEW c \in Jobs, SetImage(c)
       PROVE  NamedFilesExist'
  <2>1. job[c].op = "setImage" /\ \A d \in Jobs \ {c} : job'[d] = job[d]
    BY <1>16, SetImageEffect DEF Becomes
  <2>2. /\ image' = job[c].key /\ told \subseteq told' /\ job[c].key \in files
        /\ UNCHANGED <<rows, storage, torn>>
    BY <1>16, <2>1 DEF SetImage, Owners, HeldOnce, Holding
  <2>3. \A d \in Jobs : Away(d) => Away(d)' /\ job'[d].path = job[d].path
    BY <2>1 DEF Away
  <2>4. ImageHasFile'
    BY <2>2 DEF ImageHasFile
  <2> QED BY <2>2, <2>3, <2>4, NamedKept
<1>17. ASSUME NEW c \in Jobs, DeleteStudent(c)
       PROVE  NamedFilesExist'
  <2>1. /\ job[c].op = "expel" /\ \A d \in Jobs \ {c} : job'[d] = job[d]
        /\ UNCHANGED <<storage, product, torn, taken>>
    BY <1>17, SettleEffect DEF DeleteStudent, Settle, Becomes
  <2>2. \A i \in DOMAIN documents' : i \in DOMAIN documents /\ documents'[i] = documents[i]
    BY <1>17 DEF DeleteStudent
  <2>3. \A d \in Jobs : Away(d) => Away(d)' /\ job'[d].path = job[d].path
    BY <2>1 DEF Away
  <2> QED BY <2>1, <2>2, <2>3, NamedKept
<1>18. ASSUME NEW s \in Enrolled, NEW status \in DocumentStatus, NEW path \in Nameable,
              CreateDocument(s, status, path)
       PROVE  NamedFilesExist'
  <2> DEFINE row == [student |-> s, status |-> status, path |-> path]
  <2>1. row \in Document /\ row.path \in Nameable
    BY KeyTypes DEF Document
  <2>2. Inserted(row) /\ UNCHANGED <<storage, product, job, torn, taken>>
    BY <1>18 DEF CreateDocument
  <2> HIDE DEF row
  <2>3. \A i \in DOMAIN documents' :
          documents'[i].path \in Nameable \/ (i \in DOMAIN documents /\ documents'[i] = documents[i])
    BY <2>1, <2>2, InsertedTyped
  <2>4. \A d \in Jobs : Away(d) => Away(d)' /\ job'[d].path = job[d].path
    BY <2>2 DEF Away
  <2> QED BY <2>2, <2>3, <2>4, NamedKept
<1>19. ASSUME NEW i \in DOMAIN documents, NEW row \in Document, UpdateDocument(i, row)
       PROVE  NamedFilesExist'
  <2>1. /\ UNCHANGED <<storage, product, job, taken>> /\ torn \subseteq torn'
        /\ documents' = [documents EXCEPT ![i] = row]
        /\ row.path = documents[i].path \/ row.path \in Nameable
        /\ documents[i].status = "DELETED" => documents[i].path \in torn' \cup Nameable
    BY <1>19 DEF UpdateDocument
  <2>2. \A k \in DOMAIN documents' :
           \/ documents'[k].path \in torn' \cup Nameable
           \/ /\ k \in DOMAIN documents /\ documents'[k].path = documents[k].path
              /\ documents[k].status # "DELETED" \/ documents'[k].status = "DELETED"
    BY <2>1 DEF Typed
  <2>3. \A d \in Jobs : Away(d) => Away(d)' /\ job'[d].path = job[d].path
    BY <2>1 DEF Away
  <2> QED BY <2>1, <2>2, <2>3, NamedKept
<1>20. CASE UNCHANGED documentVars \/ \E s \in Enrolled : Involve(s)
  BY <1>20 DEF documentVars, Involve, NamedFilesExist, DocumentsHaveFiles, ImageHasFile
<1> QED
  BY <1>2, <1>3, <1>4, <1>5, <1>6, <1>7, <1>8, <1>9, <1>10, <1>11, <1>12, <1>13, <1>14,
     <1>15, <1>16, <1>17, <1>18, <1>19, <1>20
     DEF DocumentsNext, UploadSteps, RemovalSteps, ImageSteps

-----------------------------------------------------------------------------
(* No stray files, while requests do not overlap *)

QuietInv == QuietStore /\ NoStrayFiles

\* A file is accounted for by the image, a document of its own, or the request in flight.
Named(k) ==
  /\ k \notin told
  /\ \E i \in DOMAIN documents : documents[i].path = k /\ documents[i].status # "DELETED"
Accounted(c) == \A k \in files : k = image \/ Named(k) \/ k \in Held(c)

LEMMA NoJobOp == NoJob.op = "none"
  BY DEF NoJob

LEMMA HeldKey ==
  ASSUME NEW c \in Jobs
  PROVE  /\ Holding(c) => Held(c) = {job[c].key}
         /\ job[c].op = "dropImage" => Held(c) = {job[c].old}
         /\ ~Holding(c) /\ job[c].op # "dropImage" => Held(c) = {}
  BY DEF Held, Holding

\* While there is no overlap one request is enough to look at, before a step ...
LEMMA OneBefore ==
  ASSUME QuietInv, quiet, NEW c \in Jobs, job[c] # NoJob
  PROVE  Undisturbed(c) /\ Accounted(c) /\ \A d \in Jobs \ {c} : job[d] = NoJob
<1>1. Undisturbed(c) /\ \A d \in Jobs \ {c} : job[d] = NoJob
  BY DEF QuietInv, QuietStore, OneJob
<1>2. \A d \in Jobs \ {c} : Held(d) = {}
  BY <1>1, NoJobOp, HeldKey DEF Holding
<1>3. Accounted(c)
  BY <1>2 DEF QuietInv, NoStrayFiles, Accounted, Named
<1> QED BY <1>1, <1>3

\* ... and after it.
LEMMA OneAfter ==
  ASSUME NEW c \in Jobs, \A d \in Jobs \ {c} : job'[d] = NoJob, Undisturbed(c)', Accounted(c)'
  PROVE  QuietInv'
<1>1. \A d \in Jobs \ {c} : Undisturbed(d)'
  BY NoJobOp DEF Undisturbed, Removing
<1>2. QuietStore'
  BY <1>1 DEF QuietStore, OneJob
<1>3. NoStrayFiles'
  BY DEF NoStrayFiles, Accounted, Named
<1> QED BY <1>2, <1>3 DEF QuietInv

LEMMA SettledAfter ==
  ASSUME NEW c \in Jobs, \A d \in Jobs : job'[d] = NoJob, \A k \in files' : k = image' \/ Named(k)'
  PROVE  QuietInv'
  BY OneAfter, NoJobOp DEF Undisturbed, Removing, Accounted

LEMMA BeginsQuietly ==
  ASSUME Typed, QuietInv, NEW c \in Jobs, NEW j \in Job, Begin(c, j), quiet',
         UNCHANGED <<rows, storage, product>>
  PROVE  /\ quiet /\ \A d \in Jobs : job[d] = NoJob
         /\ job'[c] = j /\ \A d \in Jobs \ {c} : job'[d] = NoJob
         /\ Accounted(c)'
<1>1. quiet /\ \A d \in Jobs : job[d] = NoJob
  BY DEF Begin, Busy
<1>2. job'[c] = j /\ \A d \in Jobs \ {c} : job'[d] = NoJob
  BY <1>1, BeginEffect DEF Becomes
<1>3. \A d \in Jobs : Held(d) = {}
  BY <1>1, NoJobOp, HeldKey DEF Holding
<1>4. Accounted(c)'
  BY <1>1, <1>3 DEF QuietInv, NoStrayFiles, Accounted, Named, rows, storage, product
<1> QED BY <1>1, <1>2, <1>4

LEMMA QuietStep ==
  ASSUME Typed, Owners, QuietInv, [DocumentsNext]_documentVars
  PROVE  QuietInv'
<1> USE DEF rows, storage, product, ghosts
<1> SUFFICES ASSUME quiet' PROVE QuietInv'
  BY DEF QuietInv, QuietStore, NoStrayFiles
<1>1. ASSUME NEW c \in Jobs, UploadProductImage(c)
      PROVE  QuietInv'
  <2> DEFINE j == [op |-> "saveImage", old |-> image, key |-> NoKey]
  <2>1. j \in Job /\ j.op = "saveImage" /\ j.old = image
    BY DEF Typed, Job, ImageJob, NoKey
  <2>2. Begin(c, j) /\ UNCHANGED <<rows, storage, product>>
    BY <1>1 DEF UploadProductImage
  <2> HIDE DEF j
  <2>3. job'[c] = j /\ (\A d \in Jobs \ {c} : job'[d] = NoJob) /\ Accounted(c)'
    BY <2>1, <2>2, BeginsQuietly
  <2>4. Undisturbed(c)'
    BY <2>1, <2>2, <2>3 DEF Undisturbed, Removing
  <2> QED BY <2>3, <2>4, OneAfter
<1>2. ASSUME NEW c \in Jobs, NEW s \in Enrolled, Upload(c, s)
      PROVE  QuietInv'
  <2> DEFINE j == [op |-> "save", student |-> s, key |-> NoKey]
  <2>1. j \in Job /\ j.op = "save"
    BY DEF Job, UploadJob, NoKey
  <2>2. Begin(c, j) /\ UNCHANGED <<rows, storage, product>>
    BY <1>2 DEF Upload
  <2> HIDE DEF j
  <2>3. job'[c] = j /\ (\A d \in Jobs \ {c} : job'[d] = NoJob) /\ Accounted(c)'
    BY <2>1, <2>2, BeginsQuietly
  <2>4. Undisturbed(c)'
    BY <2>1, <2>2, <2>3 DEF Undisturbed, Removing
  <2> QED BY <2>3, <2>4, OneAfter
<1>3. ASSUME NEW c \in Jobs, NEW s \in Enrolled, RemoveStudent(c, s)
      PROVE  QuietInv'
  <2> DEFINE j == [op |-> "expel", student |-> s]
  <2>1. j \in Job /\ j.op = "expel" /\ j.student = s
    BY DEF Job, ExpelJob
  <2>2. Begin(c, j) /\ UNCHANGED <<rows, storage, product>> /\ DocumentsOf(s) = {}
    BY <1>3 DEF RemoveStudent
  <2> HIDE DEF j
  <2>3. job'[c] = j /\ (\A d \in Jobs \ {c} : job'[d] = NoJob) /\ Accounted(c)'
    BY <2>1, <2>2, BeginsQuietly
  <2>4. Undisturbed(c)'
    BY <2>1, <2>2, <2>3 DEF Undisturbed, Removing, DocumentsOf
  <2> QED BY <2>3, <2>4, OneAfter
<1>4. ASSUME NEW c \in Jobs, NEW i \in DOMAIN documents, RemoveDocument(c, i)
      PROVE  QuietInv'
  <2> DEFINE j == [op |-> "backup", id |-> i, path |-> documents[i].path, backup |-> FALSE]
  <2>1. /\ j \in Job /\ j.op = "backup" /\ j.id = i /\ j.path = documents[i].path
        /\ j.backup = FALSE
    BY DEF Typed, Job, RemovalJob, Document, FileKeys, Outside
  <2>2. Begin(c, j) /\ UNCHANGED <<rows, storage, product>>
    BY <1>4 DEF RemoveDocument
  <2> HIDE DEF j
  <2>3. job'[c] = j /\ (\A d \in Jobs \ {c} : job'[d] = NoJob) /\ Accounted(c)'
    BY <2>1, <2>2, BeginsQuietly
  <2>4. Undisturbed(c)'
    BY <2>1, <2>2, <2>3 DEF Undisturbed, Removing
  <2> QED BY <2>3, <2>4, OneAfter
<1>5. ASSUME NEW c \in Jobs, SaveFile(c) \/ SaveImage(c)
      PROVE  QuietInv'
  <2>1. /\ \/ job[c].op = "save" /\ job'[c].op = "insert"
           \/ job[c].op = "saveImage" /\ job'[c].op = "setImage" /\ job'[c].old = job[c].old
        /\ job'[c].key = nextKey /\ \A d \in Jobs \ {c} : job'[d] = job[d]
    BY <1>5, SaveFileEffect, SaveImageEffect DEF Becomes
  <2>2. UNCHANGED <<rows, product, quiet>> /\ files' = files \cup {nextKey}
    BY <1>5 DEF SaveFile, SaveImage, SaveKey
  <2>3. Undisturbed(c) /\ Accounted(c) /\ \A d \in Jobs \ {c} : job'[d] = NoJob
    BY <2>1, <2>2, NoJobOp, OneBefore
  <2>4. Undisturbed(c)'
    BY <2>1, <2>2, <2>3 DEF Undisturbed, Removing
  <2>5. Held(c) = {} /\ Held(c)' = {nextKey}
    BY <2>1, HeldKey DEF Holding, Held
  <2>6. Accounted(c)'
    BY <2>2, <2>3, <2>5 DEF Accounted, Named
  <2> QED BY <2>3, <2>4, <2>6, OneAfter
<1>6. ASSUME NEW c \in Jobs, InsertDocument(c)
      PROVE  QuietInv'
  <2> DEFINE row == [student |-> job[c].student, status |-> "ACTIVE", path |-> job[c].key]
  <2>1. /\ UNCHANGED <<files, product, quiet>> /\ Inserted(row)
        /\ job[c].op = "insert" /\ job'[c] = NoJob /\ \A d \in Jobs \ {c} : job'[d] = job[d]
    BY <1>6, SettleEffect DEF InsertDocument, Settle, Becomes
  <2>2. row \in Document
    BY <2>1, JobKind DEF Typed, Owners, HeldOnce, Holding, UploadJob, Document, DocumentStatus
  <2>3. row.status # "DELETED" /\ row.path = job[c].key /\ job[c].key \notin told
    BY <2>1 DEF Owners, HeldOnce, Holding
  <2> HIDE DEF row
  <2>4. Accounted(c) /\ \A d \in Jobs : job'[d] = NoJob
    BY <2>1, NoJobOp, OneBefore
  <2>5. Held(c) = {job[c].key}
    BY <2>1, HeldKey DEF Holding
  <2>6. \A k : Named(k) \/ k = job[c].key => Named(k)'
    BY <2>1, <2>2, <2>3, InsertedTyped DEF Named
  <2>7. \A k \in files' : k = image' \/ Named(k)'
    BY <2>1, <2>4, <2>5, <2>6 DEF Accounted
  <2> QED BY <2>4, <2>7, SettledAfter
<1>7. ASSUME NEW c \in Jobs, InsertFails(c) \/ SetImageFails(c)
      PROVE  QuietInv'
  <2>1. /\ job[c].op \in {"insert", "setImage"} /\ \A d \in Jobs \ {c} : job'[d] = job[d]
        /\ job'[c].op = "discard" /\ job'[c].key = job[c].key
    BY <1>7, UploadProceeds, ImageProceeds DEF Becomes, SetImageFails, Proceed
  <2>2. UNCHANGED <<rows, storage, product, quiet>>
    BY <1>7 DEF InsertFails, SetImageFails, Proceed
  <2>3. Undisturbed(c) /\ Accounted(c) /\ \A d \in Jobs \ {c} : job'[d] = NoJob
    BY <2>1, <2>2, NoJobOp, OneBefore
  <2>4. Undisturbed(c)'
    BY <2>1 DEF Undisturbed, Removing
  <2>5. Held(c)' = Held(c)
    BY <2>1 DEF Held
  <2>6. Accounted(c)'
    BY <2>2, <2>3, <2>5 DEF Accounted, Named
  <2> QED BY <2>3, <2>4, <2>6, OneAfter
<1>8. ASSUME NEW c \in Jobs, DiscardFile(c) \/ DropImage(c)
      PROVE  QuietInv'
  <2>1. /\ job[c].op \in {"discard", "dropImage"} /\ job'[c] = NoJob
        /\ \A d \in Jobs \ {c} : job'[d] = job[d]
        /\ files' = files \ Held(c) /\ UNCHANGED <<rows, product, quiet>>
    BY <1>8, SettleEffect, HeldKey DEF DiscardFile, DropImage, Settle, Becomes, Holding
  <2>2. Accounted(c) /\ \A d \in Jobs : job'[d] = NoJob
    BY <2>1, NoJobOp, OneBefore
  <2> QED BY <2>1, <2>2, SettledAfter DEF Accounted, Named
<1>9. ASSUME NEW c \in Jobs, BackupFile(c)
      PROVE  QuietInv'
  <2>1. /\ job[c].op = "backup" /\ \A d \in Jobs \ {c} : job'[d] = job[d]
        /\ job'[c].id = job[c].id /\ job'[c].path = job[c].path
        /\ job'[c].op = IF job[c].path \in files THEN "drop" ELSE "mark"
        /\ job'[c].backup = (job[c].path \in files)
        /\ UNCHANGED <<rows, storage, product, quiet>>
    BY <1>9, BackupEffect DEF BackupFile, Becomes
  <2>2. Undisturbed(c) /\ Accounted(c) /\ \A d \in Jobs \ {c} : job'[d] = NoJob
    BY <2>1, NoJobOp, OneBefore
  <2>3. Held(c) = {} /\ Held(c)' = {}
    BY <2>1 DEF Held
  <2>4. job[c].path \in files =>
          \/ job[c].path = image
          \/ job[c].path \notin told /\ documents[job[c].id].status # "DELETED"
    <3>1. \A i \in DOMAIN documents \ {job[c].id} :
            documents[i].path = job[c].path => job[c].path \in Nameable
      BY <2>1 DEF Owners, RemovalsOwn, Removing
    <3> QED BY <2>2, <2>3, <3>1, KeyTypes DEF Accounted, Named, Nameable
  <2>5. Undisturbed(c)'
    <3>1. CASE job[c].path \in files
      <4>1. job'[c].op = "drop" /\ job'[c].backup
        BY <2>1, <3>1
      <4> QED BY <2>1, <2>2, <2>4, <3>1, <4>1 DEF Undisturbed, Removing
    <3>2. CASE job[c].path \notin files
      <4>1. job'[c].op = "mark" /\ ~job'[c].backup
        BY <2>1, <3>2
      <4> QED BY <2>1, <2>2, <3>2, <4>1 DEF Undisturbed, Removing
    <3> QED BY <3>1, <3>2
  <2>6. Accounted(c)'
    BY <2>1, <2>2, <2>3 DEF Accounted, Named
  <2> QED BY <2>2, <2>5, <2>6, OneAfter
<1>10. ASSUME NEW c \in Jobs, DropFile(c)
       PROVE  QuietInv'
  <2>1. /\ job[c].op = "drop" /\ \A d \in Jobs \ {c} : job'[d] = job[d]
        /\ job'[c].id = job[c].id /\ job'[c].path = job[c].path
        /\ job'[c].op = "mark" /\ job'[c].backup = job[c].backup
        /\ files' = files \ {job[c].path} /\ UNCHANGED <<rows, product, quiet>>
    BY <1>10, RemovalProceeds DEF DropFile, Removing, Becomes
  <2>2. Undisturbed(c) /\ Accounted(c) /\ \A d \in Jobs \ {c} : job'[d] = NoJob
    BY <2>1, NoJobOp, OneBefore
  <2>3. Held(c) = {} /\ Held(c)' = {}
    BY <2>1 DEF Held
  <2>4. Undisturbed(c)'
    BY <2>1, <2>2 DEF Undisturbed, Removing
  <2>5. Accounted(c)'
    BY <2>1, <2>2, <2>3 DEF Accounted, Named
  <2> QED BY <2>2, <2>4, <2>5, OneAfter
<1>11. ASSUME NEW c \in Jobs, MarkDeleted(c)
       PROVE  QuietInv'
  <2> DEFINE n == job[c].id  row == [documents[n] EXCEPT !.status = "DELETED"]
  <2>1. n \in DOMAIN documents /\ documents' = [documents EXCEPT ![n] = row]
    BY <1>11, Zenon DEF MarkDeleted
  <2>2. /\ job[c].op = "mark" /\ job'[c] = NoJob /\ \A d \in Jobs \ {c} : job'[d] = job[d]
        /\ UNCHANGED <<files, product, quiet>>
    BY <1>11, SettleEffect DEF MarkDeleted, Settle, Becomes
  <2>3. Undisturbed(c) /\ Accounted(c) /\ \A d \in Jobs : job'[d] = NoJob
    BY <2>2, NoJobOp, OneBefore
  <2>4. Held(c) = {}
    BY <2>2 DEF Held
  <2>5. documents[n].path \notin files
    BY <2>2, <2>3 DEF Undisturbed, Removing
  <2> HIDE DEF n, row
  <2>6. \A k \in files : Named(k) => Named(k)'
    BY <2>1, <2>2, <2>5 DEF Named
  <2>7. \A k \in files' : k = image' \/ Named(k)'
    BY <2>2, <2>3, <2>4, <2>6 DEF Accounted
  <2> QED BY <2>3, <2>7, SettledAfter
<1>12. ASSUME NEW c \in Jobs, MarkFails(c)
       PROVE  QuietInv'
  <2>1. /\ job[c].op = "mark" /\ \A d \in Jobs \ {c} : job'[d] = job[d]
        /\ \/ job'[c] = NoJob
           \/ /\ job'[c].op = "restore" /\ job'[c].id = job[c].id /\ job'[c].path = job[c].path
              /\ job'[c].backup = job[c].backup
    BY <1>12, MarkFailsEffect DEF Becomes
  <2>2. UNCHANGED <<rows, storage, product, quiet>>
    BY <1>12 DEF MarkFails, Settle, Proceed
  <2>3. Undisturbed(c) /\ Accounted(c) /\ \A d \in Jobs \ {c} : job'[d] = NoJob
    BY <2>1, <2>2, NoJobOp, OneBefore
  <2>4. Held(c) = {} /\ Held(c)' = {}
    BY <2>1, NoJobOp DEF Held
  <2>5. Undisturbed(c)'
    BY <2>1, <2>2, <2>3, NoJobOp DEF Undisturbed, Removing
  <2>6. Accounted(c)'
    BY <2>2, <2>3, <2>4 DEF Accounted, Named
  <2> QED BY <2>3, <2>5, <2>6, OneAfter
<1>13. ASSUME NEW c \in Jobs, RestoreFile(c)
       PROVE  QuietInv'
  <2>1. /\ job[c].op = "restore" /\ job'[c] = NoJob /\ \A d \in Jobs \ {c} : job'[d] = job[d]
        /\ files' = files \cup {job[c].path} /\ UNCHANGED <<rows, product, quiet>>
    BY <1>13, SettleEffect DEF RestoreFile, Becomes
  <2>2. Undisturbed(c) /\ Accounted(c) /\ \A d \in Jobs : job'[d] = NoJob
    BY <2>1, NoJobOp, OneBefore
  <2>3. Held(c) = {}
    BY <2>1 DEF Held
  <2>4. job[c].backup
    BY <2>1 DEF Owners, RemovalsOwn, Removing
  <2>5. job[c].path = image \/ Named(job[c].path)
    BY <2>1, <2>2, <2>4 DEF Undisturbed, Removing, Named
  <2>6. \A k \in files' : k = image' \/ Named(k)'
    BY <2>1, <2>2, <2>3, <2>5 DEF Accounted, Named
  <2> QED BY <2>2, <2>6, SettledAfter
<1>14. ASSUME NEW c \in Jobs, SetImage(c)
       PROVE  QuietInv'
  <2>1. /\ job[c].op = "setImage" /\ \A d \in Jobs \ {c} : job'[d] = job[d]
        /\ \/ job[c].old = NoKey /\ job'[c] = NoJob
           \/ job'[c].op = "dropImage" /\ job'[c].old = job[c].old
    BY <1>14, SetImageEffect DEF Becomes
  <2>2. /\ image' = job[c].key /\ told' = told \cup {job[c].key}
        /\ UNCHANGED <<rows, storage, quiet>>
    BY <1>14, <2>1 DEF SetImage
  <2>3. Undisturbed(c) /\ Accounted(c) /\ \A d \in Jobs \ {c} : job'[d] = NoJob
    BY <2>1, <2>2, NoJobOp, OneBefore
  <2>4. Held(c) = {job[c].key} /\ job[c].old = image
    BY <2>1, <2>3 DEF Held, Undisturbed
  <2>5. Undisturbed(c)'
    BY <2>1, NoJobOp DEF Undisturbed, Removing
  <2>6. image = NoKey \/ image \in Held(c)'
    BY <2>1, <2>4 DEF Held
  <2>7. \A k : Named(k) => Named(k)'
    BY <2>1, <2>2 DEF Named, Owners, HeldOnce, Holding
  <2>8. Accounted(c)'
    BY <2>2, <2>3, <2>4, <2>6, <2>7, KeyTypes DEF Accounted
  <2> QED BY <2>3, <2>5, <2>8, OneAfter
<1>15. ASSUME NEW c \in Jobs, DeleteStudent(c)
       PROVE  QuietInv'
  <2>1. /\ job[c].op = "expel" /\ job'[c] = NoJob /\ \A d \in Jobs \ {c} : job'[d] = job[d]
        /\ UNCHANGED <<storage, product, quiet>>
    BY <1>15, SettleEffect DEF DeleteStudent, Settle, Becomes
  <2>2. Undisturbed(c) /\ Accounted(c) /\ \A d \in Jobs : job'[d] = NoJob
    BY <2>1, NoJobOp, OneBefore
  <2>3. \A i \in DocumentsOf(job[c].student) : documents[i].path \notin files \ told
    BY <2>1, <2>2, KeyTypes DEF Undisturbed, Nameable
  <2>4. documents' = [i \in DOMAIN documents \ DocumentsOf(job[c].student) |-> documents[i]]
    BY <1>15 DEF DeleteStudent
  <2>5. \A k \in files : Named(k) => Named(k)'
    BY <2>1, <2>3, <2>4 DEF Named
  <2>6. Held(c) = {}
    BY <2>1 DEF Held
  <2>7. \A k \in files' : k = image' \/ Named(k)'
    BY <2>1, <2>2, <2>5, <2>6 DEF Accounted
  <2> QED BY <2>2, <2>7, SettledAfter
<1>16. ASSUME NEW s \in Enrolled, NEW status \in DocumentStatus, NEW path \in Nameable,
              CreateDocument(s, status, path)
       PROVE  QuietInv'
  <2> DEFINE row == [student |-> s, status |-> status, path |-> path]
  <2>1. row \in Document /\ row.path \in Nameable
    BY KeyTypes DEF Document
  <2>2. Inserted(row) /\ UNCHANGED <<storage, product, job, quiet>>
    BY <1>16 DEF CreateDocument
  <2> HIDE DEF row
  <2>3. /\ \A i \in DOMAIN documents : i \in DOMAIN documents' /\ documents'[i] = documents[i]
        /\ \A i \in DOMAIN documents' : i \in DOMAIN documents \/ documents'[i].path \in Nameable
    BY <2>1, <2>2, InsertedTyped
  <2>4. QuietStore'
    BY <2>2, <2>3 DEF QuietInv, QuietStore, OneJob, Undisturbed, Removing, DocumentsOf, Nameable
  <2>5. NoStrayFiles'
    BY <2>2, <2>3 DEF QuietInv, NoStrayFiles, Held
  <2> QED BY <2>4, <2>5 DEF QuietInv
<1>17. ASSUME NEW i \in DOMAIN documents, NEW row \in Document, UpdateDocument(i, row)
       PROVE  QuietInv'
  <2>1. /\ UNCHANGED <<storage, product, job>> /\ quiet /\ Busy = {}
        /\ documents' = [documents EXCEPT ![i] = row]
        /\ row.path = documents[i].path \/ documents[i].path \in Nameable
        /\ row.status # "DELETED"
    BY <1>17 DEF UpdateDocument
  <2>2. \A c \in Jobs : job[c] = NoJob /\ job'[c] = NoJob
    BY <2>1 DEF Busy
  <2>3. \A c \in Jobs : Held(c) = {} /\ ~Removing(c)'
    BY <2>2, NoJobOp DEF Held, Removing
  <2>4. QuietStore'
    BY <2>2, <2>3, NoJobOp DEF QuietStore, OneJob, Undisturbed
  <2>5. \A k \in files : Named(k) => Named(k)'
    BY <2>1, KeyTypes DEF Named, Nameable
  <2>6. NoStrayFiles'
    BY <2>1, <2>3, <2>5 DEF QuietInv, NoStrayFiles, Named
  <2> QED BY <2>4, <2>6 DEF QuietInv
<1>18. CASE UNCHANGED documentVars \/ \E s \in Enrolled : Involve(s)
  <2>1. UNCHANGED <<documents, storage, product, job, quiet>>
    BY <1>18 DEF documentVars, Involve
  <2> QED BY <2>1
    DEF QuietInv, QuietStore, OneJob, Undisturbed, Removing, DocumentsOf, NoStrayFiles, Held, Nameable
<1>19. ASSUME NEW c \in Jobs, EndJob(c)
       PROVE  QuietInv'
  BY <1>19 DEF EndJob
<1> QED
  BY <1>1, <1>2, <1>3, <1>4, <1>5, <1>6, <1>7, <1>8, <1>9, <1>10, <1>11, <1>12, <1>13, <1>14,
     <1>15, <1>16, <1>17, <1>18, <1>19
     DEF DocumentsNext, UploadSteps, RemovalSteps, ImageSteps

-----------------------------------------------------------------------------
(* Theorems about the files *)

LEMMA StoreStart ==
  ASSUME DocumentsInit
  PROVE  StoreInv
<1>1. Typed
  <2>1. nextKey = image + 1 /\ image \in {0, 1} /\ told = {image} \ {0}
    BY DEF DocumentsInit, NoKey
  <2>2. /\ told \subseteq FileKeys /\ told \subseteq 1..(nextKey - 1)
        /\ image \in {NoKey} \cup told /\ nextKey \in Nat \ {0}
    BY <2>1, KeysAssumption DEF NoKey, FileKeys
  <2>3. /\ files = told /\ students = Enrolled /\ history = {} /\ DOMAIN documents = {}
        /\ documents \in [DOMAIN documents -> Document] /\ nextId = 1
        /\ quiet \in BOOLEAN /\ taken \in BOOLEAN
    BY DEF DocumentsInit
  <2>4. job \in [Jobs -> Job]
    BY DEF DocumentsInit, Job
  <2> QED BY <2>2, <2>3, <2>4 DEF Typed
<1>2. Owners
  BY NoJobOp DEF DocumentsInit, Owners, HeldOnce, PathsOwned, RemovalsOwn, ImagesOwn,
     Holding, Removing, Replacing
<1>3. NamedFilesExist
  BY DEF DocumentsInit, NamedFilesExist, DocumentsHaveFiles, ImageHasFile, NoKey
<1>4. QuietStore /\ NoStrayFiles
  BY NoJobOp DEF DocumentsInit, QuietStore, OneJob, Undisturbed, Removing, NoStrayFiles
<1> QED BY <1>1, <1>2, <1>3, <1>4 DEF StoreInv

\* The inductive invariant: every key that clients are not told has one owner, the
\* keys of images may be named by documents too; whatever names a file has it, but for
\* an image whose file a document's removal took; and while requests do not overlap
\* nothing is left over.
THEOREM StoreInvariant == DocumentsSpec => []StoreInv
<1>1. StoreInv /\ [DocumentsNext]_documentVars => StoreInv'
  BY TypeStep, OwnersStep, NamedStep, QuietStep DEF StoreInv, QuietInv
<1> QED BY <1>1, StoreStart, PTL DEF DocumentsSpec

\* The rows, the files and the requests in flight have the types of the schema.
THEOREM DocumentTypes == DocumentsSpec => []DocumentsTypeOK
<1>1. StoreInv => DocumentsTypeOK
  <2> SUFFICES ASSUME Typed PROVE DocumentsTypeOK
    BY DEF StoreInv
  <2>1. \A c \in Jobs : job[c].op \in Steps
    BY DEF Typed, Job, NoJob, UploadJob, ImageJob, RemovalJob, ExpelJob, Steps
  <2> QED BY <2>1 DEF Typed, DocumentsTypeOK, NoKey
<1> QED BY <1>1, StoreInvariant, PTL

\* A document that was uploaded and is not deleted has its file; so has a product's
\* image, unless a document registered under its key has been removed.
THEOREM FilesExist == DocumentsSpec => []NamedFilesExist
<1>1. StoreInv => NamedFilesExist
  BY DEF StoreInv
<1> QED BY <1>1, StoreInvariant, PTL

\* Requests that do not overlap leave no file but the image and those of the
\* documents that were uploaded and are not deleted.
THEOREM NothingStray == DocumentsSpec => []NoStrayFiles
<1>1. StoreInv => NoStrayFiles
  BY DEF StoreInv
<1> QED BY <1>1, StoreInvariant, PTL

-----------------------------------------------------------------------------
(* The inductive invariant of StoreCart *)

\* A request in flight has the fields of its kind.
AddCall == [op : {"add"}, variant : Variants, quantity : Quantities, row : Shelf, alone : BOOLEAN]
PutCall ==
  [op : {"put"}, variant : Variants, quantity : Quantities, next : 1..MaxLine, alone : BOOLEAN]
UpdateCall == [op : {"update"}, item : 1..MaxItems, quantity : Quantities, alone : BOOLEAN]
CheckoutCall ==
  [op : {"checkout"}, lines : Carts, amount : Nat, seen : BOOLEAN, since : 0..MaxEdits,
   alone : BOOLEAN]
Call == {Ready} \cup AddCall \cup PutCall \cup UpdateCall \cup CheckoutCall

CartTyped ==
  /\ student \in StudentStatus /\ shelf \in [Variants -> Shelf]
  /\ cart \in Carts /\ \A v, w \in DOMAIN cart : cart[v].id = cart[w].id => v = w
  /\ \A v \in DOMAIN cart : cart[v].id < nextItem
  /\ call \in [Calls -> Call]
  /\ page \in {NotLoaded} \cup View
  /\ nextItem \in Nat \ {0} /\ placed \in Nat /\ edits \in 0..MaxEdits

\* A checkout that nothing overlaps still has the lines of the cart.
Undivided ==
  \A c \in Calls : call[c] # Ready /\ call[c].alone =>
    /\ \A d \in Calls \ {c} : call[d] = Ready
    /\ call[c].op = "checkout" => call[c].lines = cart

\* A page as old as the catalogue shows it.
PageCurrent ==
  page # NotLoaded => page.since <= edits /\ (page.since = edits => page.shelf = shelf)

\* What a checkout from such a page pays, and finds available.
Agreed(lines, amount) ==
  /\ amount = CartTotal(lines, shelf)
  /\ \A v \in DOMAIN lines : ItemAvailable(lines[v], shelf[v])
CheckoutsAgree ==
  \A c \in Calls : call[c].op = "checkout" =>
    call[c].since <= edits /\ (Unchanged(c) => Agreed(call[c].lines, call[c].amount))

CartInv == CartTyped /\ Undivided /\ PageCurrent /\ CheckoutsAgree

-----------------------------------------------------------------------------
(* What a step does to the cart and to the requests *)

LEMMA CartsAre ==
  ASSUME NEW lines
  PROVE  lines \in Carts <=> lines \in [DOMAIN lines -> Line] /\ DOMAIN lines \subseteq Variants
  BY DEF Carts

LEMMA EmptyCart == Empty \in Carts /\ DOMAIN Empty = {}
  BY CartsAre DEF Empty

\* What the lines of a cart come to is a natural number.
LEMMA TotalNat ==
  ASSUME NEW lines \in Carts, NEW shown \in [Variants -> Shelf]
  PROVE  CartTotal(lines, shown) \in Nat
<1> DEFINE f == [v \in DOMAIN lines |-> shown[v].price * lines[v].quantity]
<1>1. lines \in [DOMAIN lines -> Line] /\ DOMAIN lines \subseteq Variants
  BY CartsAre
<1>2. IsFiniteSet(DOMAIN lines)
  BY <1>1, CartAssumption, FS_Subset
<1>3. \A v \in DOMAIN lines : shown[v].price \in Nat /\ lines[v].quantity \in Nat
  BY <1>1, CartAssumption DEF Shelf, Line
<1>4. f \in [DOMAIN lines -> Nat] /\ DOMAIN f = DOMAIN lines
  BY <1>3
<1> HIDE DEF f
<1>5. SumFunctionOnSet(f, DOMAIN lines) \in Nat
  BY <1>2, <1>4, SumNat
<1> QED BY <1>4, <1>5 DEF CartTotal, SumFunction, f

\* The step of a request tells its kind.
LEMMA CallKind ==
  ASSUME CartTyped, NEW c \in Calls
  PROVE  /\ call[c] = Ready \/ call[c].alone \in BOOLEAN
         /\ call[c].op = "add" => call[c] \in AddCall
         /\ call[c].op = "put" => call[c] \in PutCall
         /\ call[c].op = "update" => call[c] \in UpdateCall
         /\ call[c].op = "checkout" => call[c] \in CheckoutCall
  BY DEF CartTyped, Call, Ready, AddCall, PutCall, UpdateCall, CheckoutCall

LEMMA ReadyOp == Ready.op = "ready"
  BY DEF Ready

\* A request that another overlaps is not alone any more, and is otherwise the same.
LEMMA Overlapped ==
  ASSUME NEW j \in Call, j # Ready
  PROVE  LET w == [j EXCEPT !.alone = FALSE] IN
         /\ w \in Call /\ w # Ready /\ ~w.alone /\ w.op = j.op
         /\ w.op = "checkout" =>
              w.lines = j.lines /\ w.amount = j.amount /\ w.seen = j.seen /\ w.since = j.since
<1> DEFINE w == [j EXCEPT !.alone = FALSE]
<1>1. CASE j \in AddCall
  BY <1>1 DEF AddCall, Call, Ready
<1>2. CASE j \in PutCall
  BY <1>2 DEF PutCall, Call, Ready
<1>3. CASE j \in UpdateCall
  BY <1>3 DEF UpdateCall, Call, Ready
<1>4. CASE j \in CheckoutCall
  BY <1>4 DEF CheckoutCall, Call, Ready
<1> QED BY <1>1, <1>2, <1>3, <1>4 DEF Call

\* A request starts.
LEMMA StartEffect ==
  ASSUME CartTyped, NEW c \in Calls, NEW j \in Call, j # Ready, call[c] = Ready, Start(c, j)
  PROVE  /\ call' \in [Calls -> Call] /\ call'[c] = j
         /\ \A d \in Calls \ {c} :
              \/ call[d] = Ready /\ call'[d] = Ready
              \/ /\ call[d] # Ready /\ call'[d] # Ready
                 /\ ~call'[d].alone /\ call'[d].op = call[d].op
                 /\ call'[d].op = "checkout" =>
                      /\ call'[d].lines = call[d].lines /\ call'[d].amount = call[d].amount
                      /\ call'[d].seen = call[d].seen /\ call'[d].since = call[d].since
<1>1. \A d \in Calls : call[d] \in Call
  BY DEF CartTyped
<1>2. \A d \in Calls : call'[d] = IF d = c THEN j
                                  ELSE IF call[d] # Ready THEN [call[d] EXCEPT !.alone = FALSE]
                                       ELSE call[d]
  BY DEF Start
<1>3. call'[c] = j
  BY <1>2
<1>4. ASSUME NEW d \in Calls \ {c}, call[d] = Ready
      PROVE  call'[d] = Ready
  BY <1>2, <1>4
<1>5. ASSUME NEW d \in Calls \ {c}, call[d] # Ready
      PROVE  /\ call'[d] \in Call /\ call'[d] # Ready
             /\ ~call'[d].alone /\ call'[d].op = call[d].op
             /\ call'[d].op = "checkout" =>
                  /\ call'[d].lines = call[d].lines /\ call'[d].amount = call[d].amount
                  /\ call'[d].seen = call[d].seen /\ call'[d].since = call[d].since
  <2> DEFINE w == [call[d] EXCEPT !.alone = FALSE]
  <2>1. call'[d] = w /\ call[d] \in Call
    BY <1>1, <1>2, <1>5
  <2>2. /\ w \in Call /\ w # Ready /\ ~w.alone /\ w.op = call[d].op
        /\ w.op = "checkout" =>
             /\ w.lines = call[d].lines /\ w.amount = call[d].amount
             /\ w.seen = call[d].seen /\ w.since = call[d].since
    BY <1>1, <1>5, Overlapped
  <2> HIDE DEF w
  <2> QED BY <2>1, <2>2
<1>6. \A d \in Calls : call'[d] \in Call
  BY <1>1, <1>3, <1>4, <1>5
<1>7. call' \in [Calls -> Call]
  BY <1>6 DEF Start
<1> QED BY <1>3, <1>4, <1>5, <1>7

\* A request goes on or ends.
LEMMA WorkEffect ==
  ASSUME CartTyped, NEW c \in Calls, NEW j \in Call, call' = [call EXCEPT ![c] = j]
  PROVE  call' \in [Calls -> Call] /\ call'[c] = j /\ \A d \in Calls \ {c} : call'[d] = call[d]
  BY DEF CartTyped

LEMMA StartUndivided ==
  ASSUME CartTyped, Undivided, NEW c \in Calls, NEW j \in Call, j # Ready, call[c] = Ready,
         Start(c, j), j.alone = Alone(c), j.op = "checkout" => j.lines = cart, cart' = cart
  PROVE  Undivided'
<1>1. /\ call'[c] = j
      /\ \A d \in Calls \ {c} :
           \/ call[d] = Ready /\ call'[d] = Ready
           \/ call[d] # Ready /\ ~call'[d].alone
  BY StartEffect
<1>2. j.alone => \A d \in Calls \ {c} : call'[d] = Ready
  BY <1>1 DEF Alone
<1> SUFFICES ASSUME NEW d \in Calls, call'[d] # Ready, call'[d].alone
             PROVE  /\ \A e \in Calls \ {d} : call'[e] = Ready
                    /\ call'[d].op = "checkout" => call'[d].lines = cart
  BY DEF Undivided
<1>3. d = c
  BY <1>1
<1> QED BY <1>1, <1>2, <1>3

LEMMA WorkUndivided ==
  ASSUME CartTyped, Undivided, NEW c \in Calls, NEW j \in Call, call[c] # Ready,
         call' = [call EXCEPT ![c] = j],
         j = Ready \/ (j.alone = call[c].alone /\ j.op # "checkout")
  PROVE  Undivided'
<1>1. call'[c] = j /\ \A d \in Calls \ {c} : call'[d] = call[d]
  BY WorkEffect
<1> QED BY <1>1 DEF Undivided

\* The checkouts there are have read what they had read.
LEMMA AgreeKept ==
  ASSUME CartTyped, PageCurrent, CheckoutsAgree, UNCHANGED <<shelf, edits>>,
         page' = page \/ page' = NotLoaded \/ (page'.shelf = shelf /\ page'.since <= edits),
         \A c \in Calls : call'[c].op = "checkout" =>
           \/ /\ call[c].op = "checkout"
              /\ call'[c].lines = call[c].lines /\ call'[c].amount = call[c].amount
              /\ call'[c].seen = call[c].seen /\ call'[c].since = call[c].since
           \/ /\ call'[c].since <= edits
              /\ call'[c].seen /\ call'[c].since = edits => Agreed(call'[c].lines, call'[c].amount)
  PROVE  PageCurrent' /\ CheckoutsAgree'
<1>1. PageCurrent'
  BY DEF PageCurrent
<1>2. CheckoutsAgree'
  BY DEF CheckoutsAgree, Agreed, Unchanged, ItemAvailable, CartTotal
<1> QED BY <1>1, <1>2

LEMMA CartStep ==
  ASSUME CartInv, [CartNext]_cartVars
  PROVE  CartInv'
<1> USE DEF shop
<1>0. CartTyped /\ Undivided /\ PageCurrent /\ CheckoutsAgree
  BY DEF CartInv
<1>1. ASSUME NEW c \in Calls, NEW v \in Variants, NEW q \in Quantities, AddCartItem(c, v, q)
      PROVE  CartInv'
  <2> DEFINE j == [op |-> "add", variant |-> v, quantity |-> q, row |-> shelf[v], alone |-> Alone(c)]
  <2>1. j \in Call /\ j # Ready /\ j.op = "add" /\ j.alone = Alone(c)
    BY <1>0 DEF CartTyped, Call, AddCall, Ready, Alone
  <2>2. call[c] = Ready /\ Start(c, j) /\ UNCHANGED <<shop, cart, nextItem, placed, page>>
    BY <1>1 DEF AddCartItem
  <2> HIDE DEF j
  <2>3. CartTyped'
    BY <1>0, <2>1, <2>2, StartEffect DEF CartTyped
  <2>4. Undivided'
    BY <1>0, <2>1, <2>2, StartUndivided
  <2>5. PageCurrent' /\ CheckoutsAgree'
    BY <1>0, <2>1, <2>2, StartEffect, AgreeKept, ReadyOp
  <2> QED BY <2>3, <2>4, <2>5 DEF CartInv
<1>2. ASSUME NEW c \in Calls, AddCartItemRead(c)
      PROVE  CartInv'
  <2> DEFINE n == InCart(call[c].variant) + call[c].quantity
             j == [op |-> "put", variant |-> call[c].variant, quantity |-> call[c].quantity,
                   next |-> n, alone |-> call[c].alone]
  <2>1. call[c] \in AddCall /\ call[c] # Ready
    BY <1>0, <1>2, CallKind, ReadyOp DEF AddCartItemRead
  <2>2. n \in Nat \ {0}
    <3>1. InCart(call[c].variant) \in Nat
      BY <1>0, CartsAre DEF InCart, CartTyped, Line
    <3>2. call[c].quantity \in Quantities
      BY <2>1 DEF AddCall
    <3>3. call[c].quantity \in Nat \ {0}
      <4>1. call[c].quantity \in 1..MaxLine /\ MaxLine \in Nat
        BY <3>2, CartAssumption
      <4> HIDE DEF n, j
      <4> QED BY <4>1
    <3> QED BY <3>1, <3>3
  <2>3. UNCHANGED <<shop, cart, nextItem, placed, page>>
    BY <1>2 DEF AddCartItemRead
  <2>4. PICK k \in Call : /\ call' = [call EXCEPT ![c] = k] /\ k.op # "checkout"
                          /\ k = Ready \/ k.alone = call[c].alone
    <3>1. CASE n > MaxLine \/ (~call[c].row.made /\ n > call[c].row.quantity)
      BY <1>2, <3>1, ReadyOp DEF AddCartItemRead, Finish, Call
    <3>2. CASE ~(n > MaxLine \/ (~call[c].row.made /\ n > call[c].row.quantity))
      <4>1. call' = [call EXCEPT ![c] = j]
        BY <1>2, <3>2 DEF AddCartItemRead, Continue
      <4>2. n \in 1..MaxLine
        BY <2>2, <3>2, CartAssumption
      <4> HIDE DEF n
      <4>3. j \in Call /\ j.op = "put" /\ j.alone = call[c].alone
        BY <2>1, <4>2 DEF Call, AddCall, PutCall
      <4> HIDE DEF j
      <4> QED BY <4>1, <4>3
    <3> QED BY <3>1, <3>2
  <2> HIDE DEF n, j
  <2>5. CartTyped'
    BY <1>0, <2>3, <2>4, WorkEffect DEF CartTyped
  <2>6. Undivided'
    BY <1>0, <2>1, <2>4, WorkUndivided
  <2>7. PageCurrent' /\ CheckoutsAgree'
    BY <1>0, <2>3, <2>4, WorkEffect, AgreeKept
  <2> QED BY <2>5, <2>6, <2>7 DEF CartInv
<1>3. ASSUME NEW c \in Calls, AddCartItemWrite(c)
      PROVE  CartInv'
  <2> DEFINE v == call[c].variant
  <2>1. call[c] \in PutCall /\ call[c] # Ready
    BY <1>0, <1>3, CallKind, ReadyOp DEF AddCartItemWrite
  <2>2. call' = [call EXCEPT ![c] = Ready] /\ UNCHANGED <<shop, placed, page>>
    BY <1>3 DEF AddCartItemWrite, Finish
  <2>3. v \in Variants /\ call[c].quantity \in Quantities /\ call[c].next \in 1..MaxLine
    BY <2>1 DEF PutCall
  <2>4. call[c].quantity \in 1..MaxLine
    BY <2>3, CartAssumption
  <2>5. cart \in [DOMAIN cart -> Line] /\ DOMAIN cart \subseteq Variants
    BY <1>0, CartsAre DEF CartTyped
  <2>6. /\ cart' \in Carts /\ nextItem' \in Nat \ {0}
        /\ \A u, w \in DOMAIN cart' : cart'[u].id = cart'[w].id => u = w
        /\ \A u \in DOMAIN cart' : cart'[u].id < nextItem'
    <3>1. CASE v \in DOMAIN cart
      <4> DEFINE line == [cart[v] EXCEPT !.quantity = call[c].next]
      <4>1. cart' = [cart EXCEPT ![v] = line] /\ nextItem' = nextItem
        BY <1>3, <3>1, Zenon DEF AddCartItemWrite
      <4>2. line \in Line /\ line.id = cart[v].id
        BY <2>3, <2>5, <3>1 DEF Line
      <4> HIDE DEF line, v
      <4>3. cart' \in [DOMAIN cart' -> Line] /\ DOMAIN cart' = DOMAIN cart
            /\ \A u \in DOMAIN cart : cart'[u].id = cart[u].id
        BY <2>5, <3>1, <4>1, <4>2
      <4>4. cart' \in Carts
        BY <2>5, <4>3, CartsAre
      <4> QED BY <1>0, <4>1, <4>3, <4>4 DEF CartTyped
    <3>2. CASE v \notin DOMAIN cart
      <4> DEFINE line == [id |-> nextItem, quantity |-> call[c].quantity]
      <4>1. /\ cart' = [w \in DOMAIN cart \cup {v} |-> IF w = v THEN line ELSE cart[w]]
            /\ nextItem <= MaxItems /\ nextItem' = nextItem + 1
        BY <1>3, <3>2 DEF AddCartItemWrite
      <4>2. line \in Line /\ line.id = nextItem
        BY <1>0, <2>4, <4>1 DEF Line, CartTyped
      <4> HIDE DEF line, v
      <4>3. /\ cart' \in [DOMAIN cart' -> Line] /\ DOMAIN cart' = DOMAIN cart \cup {v}
            /\ cart'[v].id = nextItem
            /\ \A u \in DOMAIN cart : cart'[u].id = cart[u].id
        BY <2>5, <3>2, <4>1, <4>2
      <4>4. \A u \in DOMAIN cart : cart[u].id \in Nat /\ cart[u].id < nextItem
        BY <1>0, <2>5 DEF CartTyped, Line
      <4>5. nextItem \in Nat \ {0}
        BY <1>0 DEF CartTyped
      <4>6. cart' \in Carts
        BY <2>3, <2>5, <4>3, CartsAre
      <4>7. \A u, w \in DOMAIN cart' : cart'[u].id = cart'[w].id => u = w
        BY <1>0, <4>3, <4>4, <4>5 DEF CartTyped
      <4>8. nextItem' = nextItem + 1
        BY <4>1
      <4>9. \A u \in DOMAIN cart' : cart'[u].id < nextItem'
        BY <4>3, <4>4, <4>5, <4>8
      <4> QED BY <4>5, <4>6, <4>7, <4>8, <4>9
    <3> QED BY <3>1, <3>2
  <2>7. Ready \in Call
    BY DEF Call
  <2>8. CartTyped'
    BY <1>0, <2>2, <2>6, <2>7, WorkEffect DEF CartTyped
  <2>9. Undivided'
    BY <1>0, <2>1, <2>2, <2>7, WorkUndivided
  <2>10. PageCurrent' /\ CheckoutsAgree'
    BY <1>0, <2>2, <2>7, ReadyOp, WorkEffect, AgreeKept
  <2> QED BY <2>8, <2>9, <2>10 DEF CartInv
<1>4. ASSUME NEW c \in Calls, NEW i, NEW q \in Quantities, UpdateCartItem(c, i, q)
      PROVE  CartInv'
  <2> DEFINE j == [op |-> "update", item |-> i, quantity |-> q, alone |-> Alone(c)]
  <2>1. i \in 1..MaxItems
    BY <1>0, <1>4, CartsAre DEF UpdateCartItem, Owned, CartTyped, Line
  <2>2. j \in Call /\ j # Ready /\ j.op = "update" /\ j.alone = Alone(c)
    BY <2>1 DEF Call, UpdateCall, Ready, Alone
  <2>3. call[c] = Ready /\ Start(c, j) /\ UNCHANGED <<shop, cart, nextItem, placed, page>>
    BY <1>4 DEF UpdateCartItem
  <2> HIDE DEF j
  <2>4. CartTyped'
    BY <1>0, <2>2, <2>3, StartEffect DEF CartTyped
  <2>5. Undivided'
    BY <1>0, <2>2, <2>3, StartUndivided
  <2>6. PageCurrent' /\ CheckoutsAgree'
    BY <1>0, <2>2, <2>3, StartEffect, AgreeKept, ReadyOp
  <2> QED BY <2>4, <2>5, <2>6 DEF CartInv
<1>5. ASSUME NEW c \in Calls, UpdateCartItemWrite(c)
      PROVE  CartInv'
  <2>1. call[c] \in UpdateCall /\ call[c] # Ready
    BY <1>0, <1>5, CallKind, ReadyOp DEF UpdateCartItemWrite
  <2>2. call' = [call EXCEPT ![c] = Ready] /\ UNCHANGED <<shop, nextItem, placed, page>>
    BY <1>5 DEF UpdateCartItemWrite, Finish
  <2>3. call[c].quantity \in 1..MaxLine
    BY <2>1, CartAssumption DEF UpdateCall
  <2>4. cart \in [DOMAIN cart -> Line] /\ DOMAIN cart \subseteq Variants
    BY <1>0, CartsAre DEF CartTyped
  <2>5. ASSUME NEW v \in DOMAIN cart
        PROVE  cart'[v] \in Line /\ cart'[v].id = cart[v].id
    <3> DEFINE line == [cart[v] EXCEPT !.quantity = call[c].quantity]
    <3>1. cart'[v] = line \/ cart'[v] = cart[v]
      BY <1>5 DEF UpdateCartItemWrite
    <3>2. line \in Line /\ line.id = cart[v].id
      BY <2>3, <2>4 DEF Line
    <3> HIDE DEF line
    <3> QED BY <2>4, <3>1, <3>2
  <2>6. cart' \in [DOMAIN cart -> Line] /\ DOMAIN cart' = DOMAIN cart
    BY <1>5, <2>5 DEF UpdateCartItemWrite
  <2>7. Ready \in Call
    BY DEF Call
  <2>8. CartTyped'
    BY <1>0, <2>2, <2>4, <2>5, <2>6, <2>7, CartsAre, WorkEffect DEF CartTyped
  <2>9. Undivided'
    BY <1>0, <2>1, <2>2, <2>7, WorkUndivided
  <2>10. PageCurrent' /\ CheckoutsAgree'
    BY <1>0, <2>2, <2>7, ReadyOp, WorkEffect, AgreeKept
  <2> QED BY <2>8, <2>9, <2>10 DEF CartInv
<1>6. ASSUME NEW i, RemoveCartItem(i)
      PROVE  CartInv'
  <2>1. UNCHANGED <<shop, nextItem, placed, page>>
    BY <1>6 DEF RemoveCartItem
  <2>2. /\ cart' \in Carts /\ DOMAIN cart' \subseteq DOMAIN cart
        /\ \A v \in DOMAIN cart' : cart'[v] = cart[v]
    <3>1. /\ DOMAIN cart' \subseteq DOMAIN cart /\ \A v \in DOMAIN cart' : cart'[v] = cart[v]
          /\ cart' = [v \in DOMAIN cart' |-> cart'[v]]
      BY <1>6 DEF RemoveCartItem
    <3> QED BY <1>0, <3>1, CartsAre DEF CartTyped
  <2>3. ASSUME NEW d \in Calls, call[d] = Ready
        PROVE  call'[d] = Ready
    BY <1>6, <2>3 DEF RemoveCartItem
  <2>4. ASSUME NEW d \in Calls, call[d] # Ready
        PROVE  /\ call'[d] \in Call /\ ~call'[d].alone /\ call'[d].op = call[d].op
               /\ call'[d].op = "checkout" =>
                    /\ call'[d].lines = call[d].lines /\ call'[d].amount = call[d].amount
                    /\ call'[d].seen = call[d].seen /\ call'[d].since = call[d].since
    <3> DEFINE w == [call[d] EXCEPT !.alone = FALSE]
    <3>1. call'[d] = w /\ call[d] \in Call
      BY <1>0, <1>6, <2>4 DEF RemoveCartItem, CartTyped
    <3>2. /\ w \in Call /\ ~w.alone /\ w.op = call[d].op
          /\ w.op = "checkout" =>
               /\ w.lines = call[d].lines /\ w.amount = call[d].amount
               /\ w.seen = call[d].seen /\ w.since = call[d].since
      BY <2>4, <3>1, Overlapped
    <3> HIDE DEF w
    <3> QED BY <3>1, <3>2
  <2>5. call' \in [Calls -> Call]
    <3>1. \A d \in Calls : call'[d] \in Call
      BY <2>3, <2>4 DEF Call
    <3> QED BY <1>6, <3>1 DEF RemoveCartItem
  <2>6. CartTyped'
    BY <1>0, <2>1, <2>2, <2>5 DEF CartTyped
  <2>7. Undivided'
    BY <2>3, <2>4 DEF Undivided
  <2>8. PageCurrent' /\ CheckoutsAgree'
    BY <1>0, <2>1, <2>3, <2>4, ReadyOp, AgreeKept
  <2> QED BY <2>6, <2>7, <2>8 DEF CartInv
<1>7. ASSUME NEW c \in Calls, CheckoutFromPage(c)
      PROVE  CartInv'
  <2> DEFINE paid == CartTotal(page.cart, page.shelf)
             j == [op |-> "checkout", lines |-> cart, amount |-> paid, seen |-> cart = page.cart,
                   since |-> page.since, alone |-> Alone(c)]
  <2>1. /\ page \in View /\ page # NotLoaded /\ AllAvailable
        /\ call[c] = Ready /\ Start(c, j) /\ UNCHANGED <<shop, cart, nextItem, placed, page>>
    BY <1>0, <1>7 DEF CheckoutFromPage, Checkout, Shown, CartTyped
  <2>2. paid \in Nat /\ cart \in Carts /\ page.since \in 0..MaxEdits
    BY <1>0, <2>1, TotalNat DEF CartTyped, View
  <2>3. page.since <= edits /\ (page.since = edits => page.shelf = shelf)
    BY <1>0, <2>1 DEF PageCurrent
  <2>4. cart = page.cart /\ page.since = edits => Agreed(cart, paid)
    BY <2>1, <2>3 DEF Agreed, AllAvailable
  <2>5. (cart = page.cart) \in BOOLEAN /\ Alone(c) \in BOOLEAN
    BY DEF Alone
  <2> HIDE DEF paid
  <2>6. /\ j \in Call /\ j # Ready /\ j.op = "checkout" /\ j.alone = Alone(c) /\ j.lines = cart
        /\ j.since = page.since /\ j.amount = paid /\ j.seen = (cart = page.cart)
    BY <2>2, <2>5 DEF Call, CheckoutCall, Ready
  <2> HIDE DEF j
  <2>7. CartTyped'
    BY <1>0, <2>1, <2>6, StartEffect DEF CartTyped
  <2>8. Undivided'
    BY <1>0, <2>1, <2>6, StartUndivided
  <2>9. PageCurrent' /\ CheckoutsAgree'
    <3>1. j.since <= edits /\ (j.seen /\ j.since = edits => Agreed(j.lines, j.amount))
      BY <2>3, <2>4, <2>6
    <3> QED BY <1>0, <2>1, <2>6, <3>1, StartEffect, AgreeKept, ReadyOp
  <2> QED BY <2>7, <2>8, <2>9 DEF CartInv
<1>8. ASSUME NEW c \in Calls, CheckoutCommit(c) \/ EndCall(c)
      PROVE  CartInv'
  <2>1. /\ call[c] # Ready /\ call' = [call EXCEPT ![c] = Ready]
        /\ UNCHANGED <<shop, nextItem, page>> /\ placed' \in Nat /\ cart' \in {cart, Empty}
    BY <1>0, <1>8, ReadyOp DEF CheckoutCommit, EndCall, Finish, CartTyped
  <2>2. Ready \in Call
    BY DEF Call
  <2>3. CartTyped'
    BY <1>0, <2>1, <2>2, EmptyCart, WorkEffect DEF CartTyped
  <2>4. Undivided'
    BY <1>0, <2>1, <2>2, WorkUndivided
  <2>5. PageCurrent' /\ CheckoutsAgree'
    BY <1>0, <2>1, <2>2, ReadyOp, WorkEffect, AgreeKept
  <2> QED BY <2>3, <2>4, <2>5 DEF CartInv
<1>9. CASE LoadCart
  <2>1. UNCHANGED <<shop, cart, nextItem, call, placed>>
        /\ page' \in {NotLoaded, [cart |-> cart, shelf |-> shelf, status |-> student, since |-> edits]}
    BY <1>9 DEF LoadCart
  <2>2. [cart |-> cart, shelf |-> shelf, status |-> student, since |-> edits] \in View
    BY <1>0 DEF CartTyped, View
  <2>3. CartTyped'
    BY <1>0, <2>1, <2>2 DEF CartTyped
  <2>4. Undivided'
    BY <1>0, <2>1 DEF Undivided
  <2>5. page' = NotLoaded \/ (page'.shelf = shelf /\ page'.since <= edits)
    BY <1>0, <2>1 DEF CartTyped
  <2>6. PageCurrent' /\ CheckoutsAgree'
    <3>1. \A c \in Calls : call'[c] = call[c]
      BY <2>1
    <3> QED BY <1>0, <2>1, <2>5, <3>1, AgreeKept
  <2> QED BY <2>3, <2>4, <2>6 DEF CartInv
<1>10. ASSUME \/ \E v \in Variants, row \in Shelf : ChangeShelf(v, row)
              \/ \E status \in StudentStatus : ChangeStudent(status)
       PROVE  CartInv'
  <2>1. /\ edits < MaxEdits /\ edits' = edits + 1 /\ UNCHANGED <<cart, nextItem, call, placed, page>>
        /\ student' \in StudentStatus /\ shelf' \in [Variants -> Shelf]
    BY <1>0, <1>10 DEF ChangeShelf, ChangeStudent, CartTyped
  <2>2. CartTyped'
    BY <1>0, <2>1, CartAssumption DEF CartTyped
  <2>3. Undivided'
    BY <1>0, <2>1 DEF Undivided
  <2>4. PageCurrent'
    <3>1. page # NotLoaded => page.since \in Nat /\ page.since <= edits
      BY <1>0 DEF CartTyped, PageCurrent, View
    <3>2. edits \in Nat
      BY <1>0 DEF CartTyped
    <3> QED BY <2>1, <3>1, <3>2 DEF PageCurrent
  <2>5. CheckoutsAgree'
    <3>1. \A c \in Calls : call[c].op = "checkout" => call[c].since \in Nat /\ call[c].since <= edits
      BY <1>0, CallKind DEF CheckoutCall, CheckoutsAgree
    <3>2. edits \in Nat
      BY <1>0 DEF CartTyped
    <3> QED BY <2>1, <3>1, <3>2 DEF CheckoutsAgree, Unchanged
  <2> QED BY <2>2, <2>3, <2>4, <2>5 DEF CartInv
<1>11. CASE UNCHANGED cartVars
  BY <1>0, <1>11 DEF cartVars, CartInv, CartTyped, Undivided, PageCurrent, CheckoutsAgree,
     Agreed, Unchanged, ItemAvailable, CartTotal
<1> QED
  BY <1>1, <1>2, <1>3, <1>4, <1>5, <1>6, <1>7, <1>8, <1>9, <1>10, <1>11
     DEF CartNext, AddFromPage, UpdateFromPage, RemoveFromPage, Working

-----------------------------------------------------------------------------
(* Theorems about the cart *)

LEMMA CartStart ==
  ASSUME CartInit
  PROVE  CartInv
<1>1. CartTyped
  BY CartAssumption, EmptyCart DEF CartInit, CartTyped, StudentStatus, Call
<1>2. Undivided /\ PageCurrent /\ CheckoutsAgree
  BY ReadyOp DEF CartInit, Undivided, PageCurrent, CheckoutsAgree
<1> QED BY <1>1, <1>2 DEF CartInv

\* The inductive invariant: a checkout that nothing overlaps has the lines of the
\* cart, and one from a page as old as the catalogue pays what that page showed.
THEOREM CartInvariant == CartSpec => []CartInv
<1>1. CartInit => CartInv
  BY CartStart
<1>2. CartInv /\ [CartNext]_cartVars => CartInv'
  BY CartStep
<1> QED BY <1>1, <1>2, PTL DEF CartSpec

\* The cart has one line for a variant, each with an id of its own, and the requests
\* in flight and the page have the types of the handlers and of the page.
THEOREM CartTypes == CartSpec => []CartTypeOK
<1>1. CartInv => CartTypeOK
  <2> SUFFICES ASSUME CartTyped PROVE CartTypeOK
    BY DEF CartInv
  <2>1. \A c \in Calls : call[c].op \in {"ready", "add", "put", "update", "checkout"}
    BY DEF CartTyped, Call, Ready, AddCall, PutCall, UpdateCall, CheckoutCall
  <2> QED BY <2>1 DEF CartTyped, CartTypeOK
<1> QED BY <1>1, CartInvariant, PTL

\* A cart that shows as available is ordered, if nothing has changed since, but for
\* a product made to order that was taken off sale.
THEOREM AvailableCarts == CartSpec => []AvailableCartsCheckOut
<1>1. CartInv => AvailableCartsCheckOut
  <2> SUFFICES ASSUME CartInv, NEW c \in Calls, call[c].op = "checkout", Unchanged(c),
                      \A v \in DOMAIN call[c].lines : shelf[v].made => shelf[v].status \in Sellable
               PROVE  Orderable(call[c].lines) /\ call[c].amount <= OrderPrice(call[c].lines)
    BY DEF AvailableCartsCheckOut
  <2>1. call[c].lines \in Carts /\ call[c].amount \in Nat
    BY CallKind DEF CartInv, CheckoutCall
  <2>2. Agreed(call[c].lines, call[c].amount)
    BY DEF CartInv, CheckoutsAgree
  <2>3. call[c].amount <= OrderPrice(call[c].lines)
    BY <2>1, <2>2 DEF Agreed, OrderPrice, CartTotal
  <2>4. Orderable(call[c].lines)
    BY <2>2 DEF Agreed, ItemAvailable, Orderable, Sellable
  <2> QED BY <2>3, <2>4
<1> QED BY <1>1, CartInvariant, PTL

\* Only the commit of a checkout makes an order.
LEMMA OnlyCommits ==
  ASSUME CartInv, [CartNext]_cartVars, NEW c \in Calls, Orders(c)
  PROVE  CheckoutCommit(c) /\ UNCHANGED <<shelf, edits>>
<1> USE DEF shop
<1>1. placed \in Nat /\ placed' # placed
  BY DEF CartInv, CartTyped, Orders
<1>2. PICK d \in Calls : CheckoutCommit(d)
  BY <1>1 DEF CartNext, cartVars, LoadCart, RemoveFromPage, RemoveCartItem, AddFromPage,
     AddCartItem, UpdateFromPage, UpdateCartItem, CheckoutFromPage, Checkout, Working,
     AddCartItemRead, AddCartItemWrite, UpdateCartItemWrite, EndCall, ChangeShelf, ChangeStudent
<1>3. d = c
  BY <1>2, ReadyOp DEF CheckoutCommit, Finish, Orders, CartInv, CartTyped
<1> QED BY <1>2, <1>3 DEF CheckoutCommit

\* An order takes what is in the cart and leaves nothing of it there, unless another
\* request of the student overlapped the checkout.
THEOREM OrdersTakeTheCart == CartSpec => CheckoutTakesTheCart
<1>1. ASSUME CartInv, [CartNext]_cartVars, NEW c \in Calls, Orders(c), call[c].alone
      PROVE  call[c].lines = cart /\ cart' = Empty
  BY <1>1, OnlyCommits, ReadyOp DEF CartInv, Undivided, CheckoutCommit, Orders
<1>2. CartInv /\ [CartNext]_cartVars =>
        [\A c \in Calls : Orders(c) /\ call[c].alone => call[c].lines = cart /\ cart' = Empty]_cartVars
  BY <1>1
<1> QED BY <1>2, CartInvariant, PTL DEF CartSpec, CheckoutTakesTheCart

\* The first payment is for the whole order, unless the cart or a price has changed
\* since the page was loaded.
THEOREM FirstPaymentsAgree == CartSpec => PaysWhatItSaw
<1>1. ASSUME CartInv, [CartNext]_cartVars, NEW c \in Calls, Orders(c), Unchanged(c)
      PROVE  call[c].amount = OrderPrice(call[c].lines)
  BY <1>1 DEF CartInv, CheckoutsAgree, Agreed, OrderPrice, CartTotal, Orders
<1>2. CartInv /\ [CartNext]_cartVars =>
        [\A c \in Calls : Orders(c) /\ Unchanged(c) => call[c].amount = OrderPrice(call[c].lines)]_cartVars
  BY <1>1
<1> QED BY <1>2, CartInvariant, PTL DEF CartSpec, PaysWhatItSaw

-----------------------------------------------------------------------------
(* The two together *)

\* A behaviour of the two runs each of them by its own specification.
THEOREM ShopParts == Spec => CartSpec /\ DocumentsSpec
<1>1. Init => CartInit /\ DocumentsInit
  BY DEF Init
<1>2. [Next]_vars => [CartNext]_cartVars /\ [DocumentsNext]_documentVars
  BY DEF Next, vars
<1> QED BY <1>1, <1>2, PTL DEF Spec, CartSpec, DocumentsSpec

\* The cart, the documents and the requests in flight have the types of the schema.
THEOREM ShopTypes == Spec => []TypeOK
<1>1. CartTypeOK /\ DocumentsTypeOK => TypeOK
  BY DEF TypeOK
<1> QED BY <1>1, ShopParts, CartTypes, DocumentTypes, PTL
=============================================================================
