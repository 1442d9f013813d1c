---------------------------- MODULE DocumentStore ----------------------------
(***************************************************************************)
(* Files and the rows that name them: the documents of students            *)
(* (DocumentsService), the image of a product (uploadProductImage), and    *)
(* the removal of a student, whose documents go with its row.              *)
(*                                                                         *)
(* The file storage and the database are two stores without a transaction  *)
(* over both.  Every handler writes one after the other and undoes the     *)
(* first when the second fails; between any two of its calls others run,   *)
(* or the process stops.                                                   *)
(***************************************************************************)
EXTENDS Integers

CONSTANTS
  Enrolled,     \* ids of students
  Jobs,         \* requests that can be in flight at the same time
  MaxDocuments, \* bound: ids of Document
  MaxKeys,      \* bound: keys of files
  MaxFailures   \* bound: database statements that fail on their own

ASSUME KeysAssumption == MaxKeys \in Nat \ {0}

VARIABLES
  students,     \* the students there are
  history,      \* those that rows of other tables refer to
  documents,    \* the rows of Document
  nextId,       \* the sequence of Document.id
  files,        \* the keys in the storage
  nextKey,      \* the next fresh key
  image,        \* Product.imageKey of one product
  told,         \* the keys that it has ever named: listProducts tells them
  job,          \* the requests in flight
  failures,     \* statements that have failed on their own
  quiet,        \* history: no requests overlapped, none stopped, no row lost its file by hand
  torn,         \* history: paths whose removal stopped half way, or that were revived by hand
  taken         \* history: the removal of a document has deleted the image's file

rows == <<students, history, documents, nextId>>
storage == <<files, nextKey>>
product == <<image, told>>
ghosts == <<quiet, torn, taken>>
documentVars == <<rows, storage, product, job, failures, ghosts>>

-----------------------------------------------------------------------------
DocumentStatus == {"ACTIVE", "ARCHIVED", "DELETED"}
NoKey == 0
FileKeys == 1..MaxKeys
\* A path that a client names itself and that no file has.
Outside == -1
\* The paths that a client can name: it is not told the keys of documents, but
\* those of images, which are in the same storage.
Nameable == {Outside} \cup told
Document == [student : Enrolled, status : DocumentStatus, path : FileKeys \cup {Outside}]
NoJob == [op |-> "none"]

\* Where a request stands: before the call it names.
Steps == {"none", "save", "insert", "discard", "backup", "drop", "mark", "restore",
          "expel", "saveImage", "setImage", "dropImage"}

DocumentsTypeOK ==
  /\ students \subseteq Enrolled /\ history \subseteq students
  /\ DOMAIN documents \subseteq 1..(nextId - 1) /\ \A i \in DOMAIN documents : documents[i] \in Document
  /\ \A i \in DOMAIN documents : documents[i].student \in students
  /\ files \subseteq 1..(nextKey - 1)
  /\ image \in {NoKey} \cup told /\ told \subseteq 1..(nextKey - 1)
  /\ \A c \in Jobs : job[c].op \in Steps

-----------------------------------------------------------------------------
(* Requests *)

Busy == {c \in Jobs : job[c] # NoJob}

Begin(c, opening) ==
  /\ job[c] = NoJob
  /\ job' = [job EXCEPT ![c] = opening]
  /\ quiet' = (quiet /\ Busy = {})
  /\ UNCHANGED <<torn, taken>>
Proceed(c, step) == job' = [job EXCEPT ![c].op = step] /\ UNCHANGED ghosts
Settle(c) == job' = [job EXCEPT ![c] = NoJob] /\ UNCHANGED ghosts

\* A statement fails on its own.
Fails == failures < MaxFailures /\ failures' = failures + 1

\* A file call fails, or the process stops: what is left to do stays undone.
EndJob(c) ==
  /\ job[c] # NoJob
  /\ job' = [job EXCEPT ![c] = NoJob]
  /\ quiet' = FALSE
  /\ torn' = torn \cup (IF job[c].op \in {"mark", "restore"} /\ job[c].backup
                        THEN {job[c].path} \ Nameable ELSE {})
  /\ UNCHANGED <<rows, storage, product, failures, taken>>

-----------------------------------------------------------------------------
(* DocumentsService *)

\* upload finds the student, ...
Upload(c, s) ==
  /\ s \in students
  /\ Begin(c, [op |-> "save", student |-> s, key |-> NoKey])
  /\ UNCHANGED <<rows, storage, product, failures>>

\* save of the storage, under a key of its own.
SaveKey(c, after) ==
  /\ nextKey \in FileKeys /\ nextKey' = nextKey + 1
  /\ files' = files \cup {nextKey}
  /\ job' = [job EXCEPT ![c].op = after, ![c].key = nextKey]
  /\ UNCHANGED <<rows, product, failures, ghosts>>

\* ... saves the file, ...
SaveFile(c) == job[c].op = "save" /\ SaveKey(c, "insert")

Inserted(document) ==
  /\ nextId <= MaxDocuments /\ nextId' = nextId + 1
  /\ document.student \in students
  /\ documents' = [i \in DOMAIN documents \cup {nextId} |->
                     IF i = nextId THEN document ELSE documents[i]]
  /\ UNCHANGED <<students, history>>

\* ... inserts the row, ...
InsertDocument(c) ==
  /\ job[c].op = "insert"
  /\ Inserted([student |-> job[c].student, status |-> "ACTIVE", path |-> job[c].key])
  /\ Settle(c)
  /\ UNCHANGED <<storage, product, failures>>

\* Mutant of InsertFails: the file is not deleted again.
InsertFailsOnly(c) ==
  /\ job[c].op = "insert"
  /\ (job[c].student \notin students /\ UNCHANGED failures) \/ Fails
  /\ Settle(c)
  /\ UNCHANGED <<rows, storage, product>>

\* ... or, when the student is gone or the statement fails, goes back ...
InsertFails(c) ==
  /\ job[c].op = "insert"
  /\ (job[c].student \notin students /\ UNCHANGED failures) \/ Fails
  /\ Proceed(c, "discard")
  /\ UNCHANGED <<rows, storage, product>>

\* ... and deletes the file.
DiscardFile(c) ==
  /\ job[c].op = "discard"
  /\ files' = files \ {job[c].key}
  /\ Settle(c)
  /\ UNCHANGED <<rows, nextKey, product, failures>>

\* create: a row for a path that the client names, in any status.
CreateDocument(s, status, path) ==
  /\ path \in Nameable
  /\ Inserted([student |-> s, status |-> status, path |-> path])
  /\ UNCHANGED <<storage, product, job, failures, ghosts>>

\* update: any column.  A row that loses its path, or is marked DELETED here,
\* leaves its file behind; one that was DELETED may be revived without a file.
UpdateDocument(i, document) ==
  /\ i \in DOMAIN documents /\ document # documents[i]
  /\ document.student \in students
  /\ document.path \in {documents[i].path} \cup Nameable
  /\ documents' = [documents EXCEPT ![i] = document]
  /\ quiet' = /\ quiet /\ Busy = {} /\ document.status # "DELETED"
               /\ documents[i].path \in {document.path} \cup Nameable
  /\ torn' = torn \cup (IF documents[i].status = "DELETED" THEN {documents[i].path} \ Nameable ELSE {})
  /\ UNCHANGED <<students, history, nextId, storage, product, job, failures, taken>>

\* remove finds the row, whatever its status, ...
RemoveDocument(c, i) ==
  /\ i \in DOMAIN documents
  /\ Begin(c, [op |-> "backup", id |-> i, path |-> documents[i].path, backup |-> FALSE])
  /\ UNCHANGED <<rows, storage, product, failures>>

\* ... reads the file, if there is one, ...
BackupFile(c) ==
  /\ job[c].op = "backup"
  /\ job' = [job EXCEPT ![c].op = IF job[c].path \in files THEN "drop" ELSE "mark",
                         ![c].backup = job[c].path \in files]
  /\ UNCHANGED <<rows, storage, product, failures, ghosts>>

\* ... deletes it, be it the image of a product, ...
DropFile(c) ==
  /\ job[c].op = "drop"
  /\ files' = files \ {job[c].path}
  /\ taken' = (taken \/ job[c].path = image)
  /\ job' = [job EXCEPT ![c].op = "mark"]
  /\ UNCHANGED <<rows, nextKey, product, failures, quiet, torn>>

\* ... marks the row, ...
MarkDeleted(c) ==
  /\ job[c].op = "mark" /\ job[c].id \in DOMAIN documents
  /\ documents' = [documents EXCEPT ![job[c].id].status = "DELETED"]
  /\ Settle(c)
  /\ UNCHANGED <<students, history, nextId, storage, product, failures>>

\* Mutant of MarkFails: the file is not put back.
MarkFailsOnly(c) ==
  /\ job[c].op = "mark"
  /\ (job[c].id \notin DOMAIN documents /\ UNCHANGED failures) \/ Fails
  /\ Settle(c)
  /\ UNCHANGED <<rows, storage, product>>

\* ... or, when the row is gone or the statement fails, goes back ...
MarkFails(c) ==
  /\ job[c].op = "mark"
  /\ (job[c].id \notin DOMAIN documents /\ UNCHANGED failures) \/ Fails
  /\ IF job[c].backup THEN Proceed(c, "restore") ELSE Settle(c)
  /\ UNCHANGED <<rows, storage, product>>

\* ... and saves what it read.  (A save where there is a file fails.)
RestoreFile(c) ==
  /\ job[c].op = "restore"
  /\ files' = files \cup {job[c].path}
  /\ taken' = (taken /\ job[c].path # image)
  /\ job' = [job EXCEPT ![c] = NoJob]
  /\ UNCHANGED <<rows, nextKey, product, failures, quiet, torn>>

-----------------------------------------------------------------------------
(* Students and products *)

DocumentsOf(s) == {i \in DOMAIN documents : documents[i].student = s}

\* StudentsService.remove counts what refers to the student ...
RemoveStudent(c, s) ==
  /\ s \in students /\ s \notin history
  /\ DocumentsOf(s) = {}
  /\ Begin(c, [op |-> "expel", student |-> s])
  /\ UNCHANGED <<rows, storage, product, failures>>

\* Mutant of DeleteStudent: the documents stay.
DeleteStudentOnly(c) ==
  LET s == job[c].student IN
  /\ job[c].op = "expel" /\ s \in students \ history
  /\ students' = students \ {s}
  /\ Settle(c)
  /\ UNCHANGED <<history, documents, nextId, storage, product, failures>>

\* ... and deletes the row, which cascades to the documents; whatever else refers
\* to the student by now restricts it.
DeleteStudent(c) ==
  LET s == job[c].student IN
  /\ job[c].op = "expel" /\ s \in students \ history
  /\ students' = students \ {s}
  /\ documents' = [i \in DOMAIN documents \ DocumentsOf(s) |-> documents[i]]
  /\ Settle(c)
  /\ UNCHANGED <<history, nextId, storage, product, failures>>

\* The student gets a plan, a class, a charge, ...
Involve(s) ==
  /\ s \in students \ history /\ history' = history \cup {s}
  /\ UNCHANGED <<students, documents, nextId, storage, product, job, failures, ghosts>>

\* uploadProductImage reads the product, ...
UploadProductImage(c) ==
  /\ Begin(c, [op |-> "saveImage", old |-> image, key |-> NoKey])
  /\ UNCHANGED <<rows, storage, product, failures>>

\* ... saves the file, ...
SaveImage(c) == job[c].op = "saveImage" /\ SaveKey(c, "setImage")

\* ... updates the product, ...
SetImage(c) ==
  /\ job[c].op = "setImage"
  /\ image' = job[c].key /\ told' = told \cup {job[c].key}
  /\ IF job[c].old = NoKey THEN job' = [job EXCEPT ![c] = NoJob]
     ELSE job' = [job EXCEPT ![c].op = "dropImage"]
  /\ taken' = FALSE
  /\ UNCHANGED <<rows, storage, failures, quiet, torn>>

\* ... or goes back when that fails ...
SetImageFails(c) ==
  /\ job[c].op = "setImage" /\ Fails
  /\ Proceed(c, "discard")
  /\ UNCHANGED <<rows, storage, product>>

\* ... and deletes the file of the image it had read.
DropImage(c) ==
  /\ job[c].op = "dropImage"
  /\ files' = files \ {job[c].old}
  /\ Settle(c)
  /\ UNCHANGED <<rows, nextKey, product, failures>>

-----------------------------------------------------------------------------
DocumentsInit ==
  /\ students = Enrolled /\ history = {}
  /\ documents = [i \in {} |-> 0] /\ nextId = 1
  /\ image \in {NoKey, 1} /\ nextKey = image + 1
  /\ told = {image} \ {NoKey} /\ files = told
  /\ job = [c \in Jobs |-> NoJob]
  /\ failures = 0 /\ quiet = TRUE /\ torn = {} /\ taken = FALSE

UploadSteps(c) == SaveFile(c) \/ InsertDocument(c) \/ InsertFails(c) \/ DiscardFile(c)
RemovalSteps(c) ==
  BackupFile(c) \/ DropFile(c) \/ MarkDeleted(c) \/ MarkFails(c) \/ RestoreFile(c)
ImageSteps(c) == SaveImage(c) \/ SetImage(c) \/ SetImageFails(c) \/ DropImage(c)

DocumentsNext ==
  \/ \E c \in Jobs :
       \/ UploadProductImage(c)
       \/ UploadSteps(c) \/ RemovalSteps(c) \/ ImageSteps(c)
       \/ DeleteStudent(c)
       \/ EndJob(c)
       \/ \E s \in Enrolled : Upload(c, s) \/ RemoveStudent(c, s)
       \/ \E i \in DOMAIN documents : RemoveDocument(c, i)
  \/ \E s \in Enrolled : Involve(s)
  \/ \E s \in Enrolled, status \in DocumentStatus, path \in Nameable :
       CreateDocument(s, status, path)
  \/ \E i \in DOMAIN documents, document \in Document : UpdateDocument(i, document)

DocumentsSpec == DocumentsInit /\ [][DocumentsNext]_documentVars

-----------------------------------------------------------------------------
(* Properties *)

\* A document that was uploaded and is not deleted has its file, however removals
\* overlap and whichever of their statements fail: while the file is away a removal
\* is there that marks the row or puts the file back, unless it was stopped.  (One
\* registered under the key of an image has no file of its own: it loses it to the
\* next upload of the image.)
DocumentsHaveFiles ==
  \A i \in DOMAIN documents :
    documents[i].status # "DELETED" /\ documents[i].path \in FileKeys \ (torn \cup told) =>
      \/ documents[i].path \in files
      \/ \E c \in Jobs : /\ job[c].op \in {"mark", "restore"} /\ job[c].backup
                          /\ job[c].path = documents[i].path

\* The file of a product's image is there, however uploads overlap, fail or stop: an
\* upload deletes only its own file, before a product names it, or one that the
\* product does not name any more.  It is lost in one way: the product's key, which
\* the list of products tells, is registered as the path of a document, and that
\* document is removed.
ImageHasFile == image # NoKey => image \in files \/ taken

\* Whatever names a file has it, the image that a document's removal took apart.
NamedFilesExist == DocumentsHaveFiles /\ ImageHasFile

\* The file that a request has saved or is about to delete.
Held(c) ==
  CASE job[c].op \in {"insert", "discard", "setImage"} -> {job[c].key}
    [] job[c].op = "dropImage" -> {job[c].old}
    [] OTHER -> {}

\* Requests that do not overlap leave no file but the image and those of the
\* documents that were uploaded and are not deleted, whichever of their database
\* statements fails.  (Two uploads of an image at once may leave one, and so may an
\* upload for a student who is being removed.)
NoStrayFiles ==
  quiet =>
    \A k \in files :
      \/ k = image
      \/ \E c \in Jobs : k \in Held(c)
      \/ /\ k \notin told
         /\ \E i \in DOMAIN documents : documents[i].path = k /\ documents[i].status # "DELETED"
=============================================================================
