------------------------------ MODULE MCUploads ------------------------------
(* TLC instances of the two ways in which a document is uploaded. They meet *)
(* in no row: a behaviour is about one of them.                             *)
EXTENDS MultipartUpload, ChunkedUpload, TLC

VARIABLE way

OneEach == [c \in Content |-> 1]

UploadsInit == way \in {"multipart", "chunked"} /\ Init /\ ChunkedInit

UploadsNext ==
    \/ way = "multipart" /\ Next /\ UNCHANGED <<way, chunkedVars>>
    \/ way = "chunked" /\ ChunkedNext /\ UNCHANGED <<way, vars>>

UploadsSpec == UploadsInit /\ [][UploadsNext]_<<way, vars, chunkedVars>>

Alike == Permutations(Request)
=============================================================================
