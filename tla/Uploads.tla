------------------------------ MODULE Uploads ------------------------------
(* The images of a form: the uploader in the browser (ImagesUploader.js),  *)
(* the request it sends (offchain-services/index.js) and the function that *)
(* stores the object (handler.js). S3 and the file reader are external.    *)
(*                                                                         *)
(* A key is made of the account, the hash of the content and the time: two *)
(* uploads with one key carry one content. The answer of the service is not*)
(* looked at beyond its url: an answer without one is an image whose url is*)
(* undefined (NoUrl).                                                      *)
EXTENDS Naturals, Sequences, FiniteSets

CONSTANTS
    Forms,          \* names of the forms
    Keys,           \* keys of objects
    NoUrl,          \* the url an answer 400 or 500 lacks
    MaxUploads      \* files chosen in a behaviour

ASSUME UploadsAssumption == NoUrl \notin Keys /\ MaxUploads \in Nat

VARIABLES
    uploads,        \* every file chosen, in order
    loading,        \* isLoading of each form's uploader
    store           \* the keys that hold an object

uploadVars == <<uploads, loading, store>>

UploadsInit ==
    /\ uploads = <<>>
    /\ loading = [f \in Forms |-> FALSE]
    /\ store = {}

At(u, phase) == u \in DOMAIN uploads /\ uploads[u].phase = phase
Answered(u, url) == [uploads EXCEPT ![u].phase = "answered", ![u].url = url]

(* onFileSelected: a click on the uploader, which hides its area only while*)
(* it is loading, and a file. The file is read in the background; the      *)
(* handler keeps the form as it was rendered (text) and its instance.      *)
SelectFile(f, mount, text) ==
    /\ ~loading[f] /\ Len(uploads) < MaxUploads
    /\ uploads' = Append(uploads, [form |-> f, mount |-> mount, text |-> text,
                                   phase |-> "reading", key |-> NoUrl, url |-> NoUrl])
    /\ UNCHANGED <<loading, store>>

(* reader.onload, uploadImage: the key is chosen and the request sent.     *)
FileRead(u, key, mounted) ==
    /\ At(u, "reading")
    /\ uploads' = [uploads EXCEPT ![u].phase = "head", ![u].key = key]
    /\ loading' = [loading EXCEPT ![uploads[u].form] = @ \/ mounted]
    /\ UNCHANGED store

(* The service asks for the object. It answers 400 when the object is      *)
(* there; every error, not only "not found", means that it is not.         *)
HeadObject(u) ==
    /\ At(u, "head")
    /\ \/ uploads[u].key \in store /\ uploads' = Answered(u, NoUrl)
       \/ uploads' = [uploads EXCEPT ![u].phase = "put"]
    /\ UNCHANGED <<loading, store>>

\* Slip: the answer does not wait for the object to be put.
PutObjectLater(u) ==
    /\ At(u, "put")
    /\ uploads' = Answered(u, uploads[u].key)
    /\ store' \in {store, store \cup {uploads[u].key}}
    /\ UNCHANGED loading

(* putObject: 200 with the url, or 500; a failed put may have stored it.   *)
PutObject(u) ==
    /\ At(u, "put")
    /\ \/ store' = store \cup {uploads[u].key} /\ uploads' = Answered(u, uploads[u].key)
       \/ store' \in {store, store \cup {uploads[u].key}} /\ uploads' = Answered(u, NoUrl)
    /\ UNCHANGED loading

ServiceStep(u) == HeadObject(u) \/ PutObject(u)

(* uploadImage ends, with the answer or because the request failed: finally*)
(* the uploader stops loading, whatever else it uploads.                   *)
UploadEnds(u, mounted) ==
    /\ uploads' = [uploads EXCEPT ![u].phase = IF At(u, "answered") THEN "given" ELSE "lost"]
    /\ loading' = [loading EXCEPT ![uploads[u].form] = @ /\ ~mounted]
    /\ \/ At(u, "answered") /\ UNCHANGED store
       \/ At(u, "head") /\ UNCHANGED store
       \/ At(u, "put") /\ store' \in {store, store \cup {uploads[u].key}}
=============================================================================
