----------------------------- MODULE GraphStorage -----------------------------
(***************************************************************************)
(* What becomes of an uploaded graph: api_graph_upload_handler builds it,  *)
(* stores its text and its digest in two files and sends it to the         *)
(* controller; api_graph_activate_handler has it run there;                *)
(* api_graph_active_handler serves the stored text.  The gateway may       *)
(* restart between any two steps; the controller goes on.                  *)
(*                                                                         *)
(* A digest is the document it was computed from.  The file system         *)
(* (LittleFS, external) changes a file when it is closed; before that a    *)
(* new file is empty, and after a failed write it stays as it was.  An     *)
(* upload over the link that is answered ok was delivered if every answer  *)
(* was the one to its request (PlcGateway's UploadDelivered); with a late  *)
(* one among them the controller may have it or not.                       *)
(***************************************************************************)
CONSTANTS
    Docs,        \* texts of graphs
    Buildable,   \* those that can be built into an image
    NoFile, Empty

ASSUME StorageAssumption ==
    /\ Buildable \subseteq Docs
    /\ NoFile \notin Docs /\ Empty \notin Docs /\ NoFile # Empty

Content == Docs \cup {NoFile, Empty}

VARIABLES
    json, sha,         \* the two files
    staged, active,    \* the controller's graphs
    pc, doc,           \* the handler of the HTTP task and the text it has
    told,              \* what the last upload was answered
    served,            \* the answer of /graph/active
    built,             \* ghost: the texts ever built
    short, torn,       \* ghosts: a write of the last save failed; the save was left
    uploaded,          \* ghost: the text of the last upload that was told ok
    apart              \* ghost: something failed after the text was stored

storageVars == <<json, sha, staged, active, pc, doc, told, served, built, short, torn,
                uploaded, apart>>
files      == <<json, sha>>
controller == <<staged, active>>
ghosts     == <<built, short, torn, uploaded, apart>>

Where  == {"idle", "build", "openJson", "writeJson", "openSha", "writeSha", "upload",
           "readJson", "readSha", "activate"}
Saving == {"openJson", "writeJson", "openSha", "writeSha"}
\* From the first change of a file to the end of the sending.
Between == {"writeJson", "openSha", "writeSha", "upload"}

StorageInit ==
    /\ json = NoFile /\ sha = NoFile
    /\ staged = NoFile /\ active = NoFile
    /\ pc = "idle" /\ doc = NoFile /\ told = "nothing" /\ served = NoFile
    /\ built = {} /\ short = FALSE /\ torn = FALSE
    /\ uploaded = NoFile /\ apart = FALSE

-----------------------------------------------------------------------------
(* api_graph_upload_handler                                                *)

Upload ==
    /\ pc = "idle"
    /\ doc' \in Docs /\ pc' = "build"
    /\ told' = "nothing" /\ served' = NoFile
    /\ UNCHANGED <<files, controller, ghosts>>

Reply(answer) == pc' = "idle" /\ doc' = NoFile /\ told' = answer

Build ==
    /\ pc = "build"
    /\ IF doc \in Buildable
       THEN built' = built \cup {doc} /\ pc' = "openJson" /\ UNCHANGED <<doc, told>>
       ELSE Reply("error") /\ UNCHANGED built
    /\ UNCHANGED <<files, controller, served, short, torn, uploaded, apart>>

Opened(file) == IF file = NoFile THEN Empty ELSE file

\* Faulty variant: the upload goes on when a file cannot be opened.
OpenFailsGoesOn ==
    /\ pc \in {"openJson", "openSha"} /\ pc' = "upload"
    /\ torn' = (torn \/ pc = "openSha")
    /\ UNCHANGED <<files, controller, doc, told, served, built, short, uploaded, apart>>

OpenFails ==
    /\ pc \in {"openJson", "openSha"}
    /\ Reply("error")
    /\ torn' = (torn \/ pc = "openSha") /\ apart' = (apart \/ pc = "openSha")
    /\ UNCHANGED <<files, controller, served, built, short, uploaded>>

OpenJson ==
    /\ pc = "openJson"
    /\ json' = Opened(json) /\ pc' = "writeJson"
    /\ short' = FALSE
    /\ UNCHANGED <<sha, controller, doc, told, served, built, torn, uploaded, apart>>

OpenSha ==
    /\ pc = "openSha"
    /\ sha' = Opened(sha) /\ pc' = "writeSha"
    /\ UNCHANGED <<json, controller, doc, told, served, ghosts>>

\* Nobody looks at what fwrite and fclose return.
WriteFails ==
    /\ \/ pc = "writeJson" /\ pc' = "openSha"
       \/ pc = "writeSha" /\ pc' = "upload"
    /\ short' = TRUE /\ torn' = TRUE
    /\ UNCHANGED <<files, controller, doc, told, served, built, uploaded, apart>>

WriteJson ==
    /\ pc = "writeJson"
    /\ json' = doc /\ pc' = "openSha"
    /\ UNCHANGED <<sha, controller, doc, told, served, ghosts>>

\* Faulty variant: the digest is written once and kept.
WriteShaOnce ==
    /\ pc = "writeSha"
    /\ sha' = (IF sha = Empty THEN doc ELSE sha) /\ pc' = "upload"
    /\ torn' = short
    /\ UNCHANGED <<json, controller, doc, told, served, built, short, uploaded, apart>>

WriteSha ==
    /\ pc = "writeSha"
    /\ sha' = doc /\ pc' = "upload"
    /\ torn' = short
    /\ UNCHANGED <<json, controller, doc, told, served, built, short, uploaded, apart>>

\* The controller may have taken all of it, or none, or have dropped what it had.
AfterUpload == {staged, doc, NoFile}

\* quiet: every answer was the one to its request.
UploadOk ==
    \E quiet \in BOOLEAN :
        /\ pc = "upload"
        /\ staged' \in (IF quiet THEN {doc} ELSE AfterUpload) /\ Reply("ok")
        /\ uploaded' = doc /\ apart' = (short \/ ~quiet)
        /\ UNCHANGED <<files, active, served, built, short, torn>>

UploadFails ==
    /\ pc = "upload"
    /\ staged' \in AfterUpload /\ Reply("error")
    /\ apart' = TRUE
    /\ UNCHANGED <<files, active, served, built, short, torn, uploaded>>

-----------------------------------------------------------------------------
(* api_graph_activate_handler, api_graph_active_handler                    *)

Activate ==
    /\ pc = "idle"
    /\ pc' = "activate" /\ served' = NoFile
    /\ UNCHANGED <<files, controller, doc, told, ghosts>>

\* Acknowledged or not, it may have been done.
Activated ==
    /\ pc = "activate"
    /\ active' \in {active, staged} /\ pc' = "idle"
    /\ UNCHANGED <<files, staged, doc, told, served, ghosts>>

GetActive ==
    /\ pc = "idle"
    /\ pc' = "readJson" /\ served' = NoFile
    /\ UNCHANGED <<files, controller, doc, told, ghosts>>

NotFound ==
    /\ \/ pc = "readJson" /\ json = NoFile
       \/ pc = "readSha" /\ sha = NoFile
    /\ pc' = "idle" /\ doc' = NoFile
    /\ UNCHANGED <<files, controller, told, served, ghosts>>

ReadJson ==
    /\ pc = "readJson" /\ json # NoFile
    /\ doc' = json /\ pc' = "readSha"
    /\ UNCHANGED <<files, controller, told, served, ghosts>>

ReadSha ==
    /\ pc = "readSha" /\ sha # NoFile
    /\ served' = doc /\ doc' = NoFile /\ pc' = "idle"
    /\ UNCHANGED <<files, controller, told, ghosts>>

-----------------------------------------------------------------------------

\* The files stay, unless they cannot be mounted: then the file system is formatted
\* (format_if_mount_failed).  The controller keeps what it has, and may have got
\* what was being sent.
Restart ==
    /\ \/ UNCHANGED files /\ apart' = (apart \/ pc \in Between)
       \/ json' = NoFile /\ sha' = NoFile /\ apart' = TRUE
    /\ staged' \in (IF pc = "upload" THEN AfterUpload ELSE {staged})
    /\ active' \in (IF pc = "activate" THEN {active, staged} ELSE {active})
    /\ pc' = "idle" /\ doc' = NoFile /\ told' = "nothing" /\ served' = NoFile
    /\ torn' = (torn \/ pc \in Saving \ {"openJson"})
    /\ UNCHANGED <<built, short, uploaded>>

UploadStep ==
    \/ Upload \/ Build \/ OpenFails \/ OpenJson \/ OpenSha
    \/ WriteFails \/ WriteJson \/ WriteSha \/ UploadOk \/ UploadFails

StorageNext ==
    \/ UploadStep \/ Activate \/ Activated
    \/ GetActive \/ NotFound \/ ReadJson \/ ReadSha \/ Restart

StorageSpec == StorageInit /\ [][StorageNext]_storageVars

-----------------------------------------------------------------------------

\* An upload that goes on is one that was built, so nothing else is stored or sent.
StorageTypeOK ==
    /\ json \in Content /\ sha \in Content
    /\ staged \in Docs \cup {NoFile} /\ active \in Docs \cup {NoFile}
    /\ pc \in Where /\ doc \in Content
    /\ pc = "build" => doc \in Docs
    /\ pc \in {"upload"} \cup Saving => doc \in Buildable
    /\ told \in {"nothing", "ok", "error"} /\ served \in Content
    /\ built \subseteq Buildable
    /\ short \in BOOLEAN /\ torn \in BOOLEAN
    /\ uploaded \in Buildable \cup {NoFile} /\ apart \in BOOLEAN

\* The digest is that of the stored text, except inside a save and after a save
\* that a restart, a full disk or an error left half done, until the next one
\* (plc_graph_storage_save).
FilesAgree == pc \notin Saving /\ ~torn => json = sha

\* After an upload that was told ok both files hold the text of that upload, unless
\* the disk was full, which nothing looks at (api_graph_upload_handler,
\* write_text_file).
OkMeansStored == told = "ok" /\ ~short => json = uploaded /\ sha = uploaded

\* The text is stored before it is sent, so /graph/active may show a graph that the
\* controller never had; it does only while a save or an upload is under way, and
\* after one that failed, was interrupted or was taken for ok on a late answer, or a
\* format, until the next upload that is whole (api_graph_upload_handler).
StoredIsStaged ==
    pc \notin Between /\ ~apart => json = staged

\* Whatever was interrupted, what /graph/active serves is a text that was built,
\* or an empty file that the first save left.
ServedWasBuilt == served \in built \cup {NoFile, Empty}
=============================================================================
