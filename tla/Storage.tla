------------------------------ MODULE Storage -------------------------------
(***************************************************************************)
(* One object of a bucket behind the interface of v2/storagew/storage.go,  *)
(* as awsw, gcsw, huaweiw and miniow write, read and delete it.  The       *)
(* initial state chooses the provider.                                     *)
(*                                                                         *)
(* A file is a number of chunks, and an object the chunks stored of it.    *)
(* Upload reads chunk by chunk; the provider shows an object only when it  *)
(* is committed.  The parts of a manual upload are told apart by the try   *)
(* that sent them, which is what their ETag says.  Any answer may be lost. *)
(***************************************************************************)
EXTENDS Integers, Sequences, FiniteSets, SequencesExt

CONSTANTS
    Uploaders,      \* goroutines that call Upload
    MaxChunks,      \* bound: chunks of a file
    PartCount,      \* parts of the manual upload
    MaxTries        \* bound: calls of UploadPart for one part

ASSUME StorageAssumption ==
    MaxChunks \in Nat \ {0} /\ PartCount \in Nat \ {0} /\ MaxTries \in Nat

VARIABLES
    provider,
    object,     \* what is stored: Nothing, a file of Upload, or a list of parts
    upload,     \* the calls of Upload
    session,    \* the manual upload: "none", "open", "completed", "aborted"
    tried,      \* calls of UploadPart so far, by part
    sent,       \* parts under way to the provider
    part,       \* the try the provider has of each part; 0 for none
    told,       \* the MultipartPart values UploadPart returned to the caller
    complete,   \* the list given to CompleteMultipartUpload, and its error
    stream      \* what the last Download handed out

storageVars == <<provider, object, upload, session, tried, sent, part, told, complete, stream>>

Parts == 1 .. PartCount
Nothing == [kind |-> "nothing"]
NoCall == [pc |-> "idle", size |-> 0, staged |-> 0, stored |-> 0, err |-> FALSE]
NotCompleted == [list |-> <<>>, result |-> "none", stored |-> <<>>]

StorageInit ==
    /\ provider \in {"awsw", "gcsw", "huaweiw", "miniow"}
    /\ object = Nothing
    /\ upload = [u \in Uploaders |-> NoCall]
    /\ session = "none" /\ tried = [n \in Parts |-> 0] /\ sent = {}
    /\ part = [n \in Parts |-> 0] /\ told = {}
    /\ complete = NotCompleted /\ stream = "none"

-----------------------------------------------------------------------------
(* Upload. *)

(* The caller's objectSize is taken to be the file's size or -1: miniow     *)
(* hands a smaller one on and stores that many bytes, the others ignore it. *)
Upload(u, size) ==
    /\ upload[u].pc = "idle"
    /\ upload' = [upload EXCEPT ![u] = [NoCall EXCEPT !.pc = "reading", !.size = size]]
    /\ UNCHANGED <<provider, object, session, tried, sent, part, told, complete, stream>>

Read(u) ==
    /\ upload[u].pc = "reading"
    /\ upload' = IF upload[u].staged < upload[u].size
                 THEN [upload EXCEPT ![u].staged = @ + 1]
                 ELSE [upload EXCEPT ![u].pc = "committing"]
    /\ UNCHANGED <<provider, object, session, tried, sent, part, told, complete, stream>>

(* The caller's reader fails.  The SDKs of three providers drop what they   *)
(* have and return the error; gcsw closes the writer, which stores it, and  *)
(* returns the error as well.                                               *)
ReadFails(u) ==
    /\ upload[u].pc = "reading" /\ upload[u].staged < upload[u].size
    /\ upload' = [upload EXCEPT ![u].err = TRUE,
                                ![u].pc = IF provider = "gcsw" THEN "committing" ELSE "returned"]
    /\ UNCHANGED <<provider, object, session, tried, sent, part, told, complete, stream>>

(* Fault: what Close returns is all that Upload of gcsw returns. *)
UploadErrorOnlyOfClose(u, stored, heard) == ~(stored /\ heard)
(* The first error is the one that is returned; that of a Close after a     *)
(* failed copy is ignored.                                                  *)
UploadError(u, stored, heard) == upload[u].err \/ ~(stored /\ heard)

Commit(u, stored, heard) ==
    /\ upload[u].pc = "committing"
    /\ object' = IF stored THEN [kind |-> "file", by |-> u, size |-> upload[u].size,
                                 chunks |-> upload[u].staged]
                 ELSE object
    /\ upload' = [upload EXCEPT ![u].pc = "returned", ![u].err = UploadError(u, stored, heard),
                                ![u].stored = IF stored THEN @ + upload[u].staged ELSE @]
    /\ UNCHANGED <<provider, session, tried, sent, part, told, complete, stream>>

-----------------------------------------------------------------------------
(* The manual upload, which gcsw refuses with ErrNotSupported. *)

Multipart == provider # "gcsw"

InitMultipartUpload(heard) ==
    /\ Multipart /\ session = "none"
    /\ session' = IF heard THEN "open" ELSE "none"
    /\ UNCHANGED <<provider, object, upload, tried, sent, part, told, complete, stream>>

UploadPart(n) ==
    /\ session = "open" /\ tried[n] < MaxTries
    /\ tried' = [tried EXCEPT ![n] = @ + 1]
    /\ sent' = sent \cup {<<n, tried[n] + 1>>}
    /\ UNCHANGED <<provider, object, upload, session, part, told, complete, stream>>

(* A part arrives, also one the caller no longer waits for; its answer, the *)
(* number and the ETag, may not.  A session that is over takes no part.     *)
PartArrives(p, heard) ==
    /\ p \in sent /\ sent' = sent \ {p}
    /\ part' = IF session = "open" THEN [part EXCEPT ![p[1]] = p[2]] ELSE part
    /\ told' = IF session = "open" /\ heard THEN told \cup {p} ELSE told
    /\ UNCHANGED <<provider, object, upload, session, tried, complete, stream>>

(* The parts as they go to the provider: those of the caller, in his order. *)
CopiedParts(list) == [i \in DOMAIN list |-> list[i]]

(* The provider wants an ascending list of parts it has, by their ETags. *)
Accepts(list) ==
    /\ list # <<>>
    /\ \A i \in DOMAIN list : part[list[i][1]] = list[i][2]
    /\ \A i, j \in DOMAIN list : i < j => list[i][1] < list[j][1]

CompleteMultipartUpload(list, heard) ==
    LET copied == CopiedParts(list) IN
    /\ session = "open"
    /\ IF Accepts(copied)
       THEN /\ object' = [kind |-> "parts", list |-> copied]
            /\ session' = "completed"
            /\ complete' = [list |-> list, stored |-> copied,
                            result |-> IF heard THEN "nil" ELSE "error"]
       ELSE /\ complete' = [list |-> list, stored |-> <<>>, result |-> "error"]
            /\ UNCHANGED <<object, session>>
    /\ UNCHANGED <<provider, upload, tried, sent, part, told, stream>>

(* An answer of Abort that got lost leaves it done. *)
AbortMultipartUpload(arrives) ==
    /\ session = "open"
    /\ session' = IF arrives THEN "aborted" ELSE session
    /\ part' = IF arrives THEN [n \in Parts |-> 0] ELSE part
    /\ UNCHANGED <<provider, object, upload, tried, sent, told, complete, stream>>

-----------------------------------------------------------------------------
(* Download and Delete. *)

(* Only miniow hands out a stream for an object that is not there, and its  *)
(* first Read fails.  A stream is of one object, though that is replaced.   *)
Download ==
    /\ stream' = CASE object # Nothing     -> "object"
                   [] provider = "miniow"  -> "failing"
                   [] OTHER                -> "refused"
    /\ UNCHANGED <<provider, object, upload, session, tried, sent, part, told, complete>>

Delete(arrives) ==
    /\ object' = IF arrives THEN Nothing ELSE object
    /\ UNCHANGED <<provider, upload, session, tried, sent, part, told, complete, stream>>

StorageNext ==
    \/ \E u \in Uploaders :
          \/ \E size \in 1 .. MaxChunks : Upload(u, size)
          \/ Read(u) \/ ReadFails(u)
          \/ \E stored, heard \in BOOLEAN : Commit(u, stored, heard)
    \/ \E heard \in BOOLEAN : InitMultipartUpload(heard)
    \/ \E n \in Parts : UploadPart(n)
    \/ \E p \in sent, heard \in BOOLEAN : PartArrives(p, heard)
    \/ \E ps \in SUBSET told, heard \in BOOLEAN :
          Cardinality(ps) <= PartCount /\
          \E list \in SetToSeqs(ps) : CompleteMultipartUpload(list, heard)
    \/ \E arrives \in BOOLEAN : AbortMultipartUpload(arrives) \/ Delete(arrives)
    \/ Download

StorageSpec == StorageInit /\ [][StorageNext]_storageVars

-----------------------------------------------------------------------------
(* Properties. *)

(* storage.go:30 to 33: a nil from Upload means that the whole file was      *)
(* stored, and one from CompleteMultipartUpload that the object was made of  *)
(* the parts the caller listed, which its UploadParts returned: whatever     *)
(* answers were lost, whatever tries arrived late, and whoever else writes   *)
(* the object.  No reader ever finds a part of a file, except behind gcsw    *)
(* (gcs.go:37), where the Upload that left it there returned an error.       *)
ObjectsAreWhole ==
    /\ \A u \in Uploaders :
          upload[u].pc = "returned" /\ ~upload[u].err => upload[u].stored = upload[u].size
    /\ complete.result = "nil" => complete.stored = complete.list
    /\ object.kind = "file" /\ object.chunks # object.size =>
          provider = "gcsw" /\ upload[object.by].err
    /\ object.kind = "parts" =>
          object.list = complete.list /\ ToSet(object.list) \subseteq told
-----------------------------------------------------------------------------
(* The inductive invariant. *)

UploadCalls == [pc : {"idle", "reading", "committing", "returned"},
                size : Nat, staged : Nat, stored : Nat, err : BOOLEAN]
Files == [kind : {"file"}, by : Uploaders, size : Nat, chunks : Nat]

(* An Upload stores nothing before it commits, and commits less than the    *)
(* file after an error only, which gcsw does.                               *)
UploadInv(c) ==
    /\ c.staged <= c.size
    /\ c.pc \in {"idle", "reading"} => ~c.err
    /\ c.pc # "returned" => c.stored = 0
    /\ c.pc = "committing" => IF c.err THEN provider = "gcsw" ELSE c.staged = c.size
    /\ c.pc = "returned" /\ ~c.err => c.stored = c.size

(* The object is nothing, or by an Upload that returned, or of the list     *)
(* given to the one CompleteMultipartUpload that was accepted.              *)
ObjectInv ==
    \/ object = Nothing
    \/ /\ object \in Files /\ upload[object.by].pc = "returned"
       /\ object.chunks # object.size => provider = "gcsw" /\ upload[object.by].err
    \/ /\ object = [kind |-> "parts", list |-> complete.list]
       /\ session = "completed" /\ ToSet(complete.list) \subseteq told

StorageInv ==
    /\ upload \in [Uploaders -> UploadCalls]
    /\ \A u \in Uploaders : UploadInv(upload[u])
    /\ complete.result = "nil" => complete.stored = complete.list
    /\ ObjectInv
=============================================================================
