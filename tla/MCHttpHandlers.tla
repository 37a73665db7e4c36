---------------------------- MODULE MCHttpHandlers ----------------------------
(***************************************************************************)
(* The work of the handlers of the HTTP task: receiving the body of an     *)
(* upload, building an image of it, keeping its text in the files, and     *)
(* writing the status page.  There is one task, so it does one after the   *)
(* other, each on data of its own; a behaviour is about one of them.       *)
(***************************************************************************)
EXTENDS MCUploadBody, MCGraphBuilder, StatusPage, GraphStorage

VARIABLE work

handlerVars == <<work, bodyVars, builderVars, pageVars, storageVars>>

Some(S) == CHOOSE x \in S : TRUE

\* Nothing has been asked for yet of the others.
Init ==
    /\ work \in {"body", "build", "page", "storage"}
    /\ IF work = "body" THEN BodyInit ELSE body = Some(Bodies) /\ BodyInit
    /\ IF work = "build" THEN BuilderInit ELSE text = Some(Texts) /\ BuilderInit
    /\ IF work = "page" THEN PageInit ELSE valid = {} /\ PageInit
    /\ StorageInit

ReceiveBody  == work = "body" /\ BodyNext /\ UNCHANGED <<work, builderVars, pageVars, storageVars>>
BuildImage   == work = "build" /\ BuilderNext /\ UNCHANGED <<work, bodyVars, pageVars, storageVars>>
WritePage    == work = "page" /\ PageNext /\ UNCHANGED <<work, bodyVars, builderVars, storageVars>>
KeepGraph    == work = "storage" /\ StorageNext /\ UNCHANGED <<work, bodyVars, builderVars, pageVars>>

Next == ReceiveBody \/ BuildImage \/ WritePage \/ KeepGraph

Spec == Init /\ [][Next]_handlerVars

\* No handler leaves the buffers, the table of nodes or the cache that it writes or
\* reads, and what goes on to the files and the controller was built.
HandlersTypeOK == BodyTypeOK /\ BuilderTypeOK /\ PageTypeOK /\ StorageTypeOK
=============================================================================
