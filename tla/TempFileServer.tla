--------------------------- MODULE TempFileServer ---------------------------
(***************************************************************************)
(* HttpTempFileServer/server.py: a thread per request, uploads that go to  *)
(* a temporary file and are renamed over their destination, downloads that *)
(* look a file up three times, for its existence, its size and its bytes.  *)
(* All requests of the model name the same file; a file's content is the   *)
(* upload it came from, counted in chunks.                                 *)
(***************************************************************************)
EXTENDS Naturals

CONSTANTS Uploads, Downloads,  \* requests, one handler thread each
          Size,                \* the Content-Length of each upload, in chunks
          NoFile

ASSUME ServerAssumption ==
    /\ Size \in [Uploads -> Nat]
    /\ NoFile \notin Uploads

VARIABLES upc,        \* where each upload is
          written,    \* chunks in the file an upload created
          temporary,  \* uploads whose temporary file is in the directory
          file,       \* the upload whose file the name leads to
          dpc,        \* where each download is
          total,      \* the Content-Length it announced
          stream,     \* the file it opened
          sent        \* chunks of it that were sent

uploading == <<upc, written, temporary, file>>
downloading == <<dpc, total, stream, sent>>
vars == <<uploading, downloading>>

TypeOK ==
    /\ upc \in [Uploads -> {"idle", "receiving", "renaming", "replying", "failing",
                            "created", "failed", "broken", "killed"}]
    /\ written \in [Uploads -> Nat]
    /\ \A u \in Uploads : written[u] <= Size[u]
    /\ temporary \in SUBSET Uploads
    /\ file \in Uploads \cup {NoFile}
    /\ dpc \in [Downloads -> {"idle", "sizing", "opening", "sending", "done", "notFound",
                              "broken", "killed"}]
    /\ total \in [Downloads -> Nat]
    /\ stream \in [Downloads -> Uploads \cup {NoFile}]
    /\ sent \in [Downloads -> Nat]

Init ==
    /\ upc = [u \in Uploads |-> "idle"]
    /\ written = [u \in Uploads |-> 0]
    /\ temporary = {}
    /\ file = NoFile
    /\ dpc = [d \in Downloads |-> "idle"]
    /\ total = [d \in Downloads |-> 0]
    /\ stream = [d \in Downloads |-> NoFile]
    /\ sent = [d \in Downloads |-> 0]

-----------------------------------------------------------------------------
(* _upload().                                                              *)

Move(u, from, to) == upc[u] = from /\ upc' = [upc EXCEPT ![u] = to]

\* `while remaining`, which also bounds what is read, and what an OSError does to
\* the temporary file.
ReadsOn(u) == TRUE
Remaining(u) == written[u] < Size[u]
EnoughForNow(u) == TRUE
WholeBody(u) == written[u] = Size[u]
LeftBehind(u) == temporary
Unlinked(u) == temporary \ {u}

\* A bad name or Content-Length is answered before this and changes nothing.
CreateTemporary(u) ==
    /\ Move(u, "idle", "receiving")
    /\ temporary' = temporary \cup {u}
    /\ UNCHANGED <<written, file, downloading>>

ReceiveChunk(u) ==
    /\ upc[u] = "receiving"
    /\ Remaining(u)
    /\ written' = [written EXCEPT ![u] = @ + 1]
    /\ UNCHANGED <<upc, temporary, file, downloading>>

CloseTemporary(u) ==
    /\ WholeBody(u)
    /\ Move(u, "receiving", "renaming")
    /\ UNCHANGED <<written, temporary, file, downloading>>

\* An OSError: no space or no permission for the temporary file, a body that
\* ends early, a broken connection, a destination that cannot be replaced.
Fails(u) ==
    /\ upc[u] \in {"idle", "receiving", "renaming"}
    /\ upc' = [upc EXCEPT ![u] = "failing"]
    /\ UNCHANGED <<written, temporary, file, downloading>>

Replace(u) ==
    /\ Move(u, "renaming", "replying")
    /\ temporary' = temporary \ {u}
    /\ file' = u
    /\ UNCHANGED <<written, downloading>>

UnlinkTemporary(u) ==
    /\ Move(u, "failing", "failed")
    /\ temporary' = Unlinked(u)
    /\ UNCHANGED <<written, file, downloading>>

\* The 201 is written outside the try block: a connection that is gone by then
\* ends the handler, and the upload stays.
ReplyCreated(u) ==
    /\ \E outcome \in {"created", "broken"} : Move(u, "replying", outcome)
    /\ UNCHANGED <<written, temporary, file, downloading>>

-----------------------------------------------------------------------------
(* do_GET().                                                               *)

Step(d, from, to) == dpc[d] = from /\ dpc' = [dpc EXCEPT ![d] = to]

Find(d) ==
    /\ Step(d, "idle", IF file = NoFile THEN "notFound" ELSE "sizing")
    /\ UNCHANGED <<uploading, total, stream, sent>>

\* source.stat(): the size becomes the Content-Length.
StatSize(d) ==
    /\ Step(d, "sizing", "opening")
    /\ total' = [total EXCEPT ![d] = written[file]]
    /\ UNCHANGED <<uploading, stream, sent>>

\* The headers go out, then source.open().
Open(d) ==
    /\ Step(d, "opening", "sending")
    /\ stream' = [stream EXCEPT ![d] = file]
    /\ UNCHANGED <<uploading, total, sent>>

SendChunk(d) ==
    /\ dpc[d] = "sending"
    /\ sent[d] < written[stream[d]]
    /\ sent' = [sent EXCEPT ![d] = @ + 1]
    /\ UNCHANGED <<uploading, dpc, total, stream>>

EndOfFile(d) ==
    /\ Step(d, "sending", "done")
    /\ sent[d] = written[stream[d]]
    /\ UNCHANGED <<uploading, total, stream, sent>>

\* An OSError while the headers or the bytes go out.
Breaks(d) ==
    /\ \E at \in {"opening", "sending"} : Step(d, at, "broken")
    /\ UNCHANGED <<uploading, total, stream, sent>>

-----------------------------------------------------------------------------
(* The handler threads are daemons: the end of the process ends them, and  *)
(* their temporary files stay.  A restarted server serves the directory.   *)

UploadEnded == {"idle", "created", "failed", "broken"}
DownloadEnded == {"idle", "done", "notFound", "broken"}

Restart ==
    /\ upc' = [u \in Uploads |-> IF upc[u] \in UploadEnded THEN upc[u] ELSE "killed"]
    /\ dpc' = [d \in Downloads |-> IF dpc[d] \in DownloadEnded THEN dpc[d] ELSE "killed"]
    /\ UNCHANGED <<written, temporary, file, total, stream, sent>>

Upload(u) ==
    \/ CreateTemporary(u) \/ ReceiveChunk(u) \/ CloseTemporary(u) \/ Fails(u)
    \/ Replace(u) \/ UnlinkTemporary(u) \/ ReplyCreated(u)

Download(d) ==
    \/ Find(d) \/ StatSize(d) \/ Open(d) \/ SendChunk(d) \/ EndOfFile(d)
    \/ Breaks(d)

Next ==
    \/ \E u \in Uploads : Upload(u)
    \/ \E d \in Downloads : Download(d)
    \/ Restart

Spec == Init /\ [][Next]_vars

-----------------------------------------------------------------------------
(* Properties.                                                             *)

\* The name leads to a completely uploaded file or to none, whatever uploads race,
\* fail or die with the process: the rename comes after the last byte.
FileIsWhole == file # NoFile => written[file] = Size[file]

\* An upload that was answered, with success or failure, leaves no temporary file.
\* Only the end of the process does.
NoTemporaryLeft ==
    \A u \in temporary : upc[u] \notin {"created", "failed", "broken"}

\* A download that ends has sent one upload's file from its first byte to its last,
\* although the name may have been led elsewhere meanwhile.
DownloadSendsOneFile ==
    \A d \in Downloads : dpc[d] = "done" => sent[d] = Size[stream[d]]

\* A client that received as many bytes as were announced has the whole file.
NeverPartialContent ==
    \A d \in Downloads :
        dpc[d] = "done" /\ sent[d] >= total[d] => total[d] = Size[stream[d]]

-----------------------------------------------------------------------------
(* What the properties rest on.                                            *)

\* The file an upload created has been renamed, and has all its bytes for good.
Landed(u) ==
    upc[u] \in {"replying", "created", "broken", "killed"} /\ written[u] = Size[u]

\* Only a whole body is renamed.
RenamesWhole ==
    \A u \in Uploads : upc[u] \in {"renaming", "replying"} => written[u] = Size[u]

FileLanded == file # NoFile => Landed(file)

TemporariesInUse ==
    \A u \in temporary : upc[u] \in {"receiving", "renaming", "failing", "killed"}

\* A download that found the file will find one again, and opens it once.
LookupsFind == \A d \in Downloads : dpc[d] \in {"sizing", "opening"} => file # NoFile

StreamsOpened ==
    \A d \in Downloads :
        /\ dpc[d] \in {"sending", "done"} => stream[d] # NoFile
        /\ stream[d] # NoFile => dpc[d] \in {"sending", "done", "broken", "killed"}

\* What a download opened has landed, although the name may lead elsewhere now.
StreamsLanded ==
    \A d \in Downloads :
        IF stream[d] = NoFile THEN sent[d] = 0
        ELSE Landed(stream[d]) /\ sent[d] <= written[stream[d]]

\* The inductive invariant of the directory and the handlers.
ServerInv ==
    /\ RenamesWhole
    /\ FileLanded
    /\ TemporariesInUse
    /\ LookupsFind
    /\ StreamsOpened
    /\ StreamsLanded
    /\ DownloadSendsOneFile
=============================================================================
