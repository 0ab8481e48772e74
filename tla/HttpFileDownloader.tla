--------------------------- MODULE HttpFileDownloader ---------------------------
(***************************************************************************)
(* The store of downloaded files, network/http_file_downloader.cpp.        *)
(*                                                                         *)
(* A request of the application is one synchronous call, but it is made of *)
(* steps here: somebody else can damage or remove a downloaded file, and   *)
(* the process can be killed, between any two of them.  A file is named by *)
(* the hash of its content, and a temporary file is only a number of       *)
(* bytes.  The content type, which a cached record takes over from the     *)
(* latest response, is left out, and so are the requests that are refused  *)
(* because of their URL or the form of the hash.                           *)
(***************************************************************************)
EXTENDS Naturals, FiniteSetsExt

CONSTANTS
  Hashes,                   \* hashes of the contents that servers offer
  FileBytes,                \* size of each content
  NoHash,                   \* the request expects no particular content
  MaximumFileSizeInBytes,
  MaximumStoredDownloadedFilesSizeInBytes,
  MaximumUnremovedBytes     \* a bound of the model: removals stop failing there

ASSUME DownloadAssumption ==
  /\ FileBytes \in [Hashes -> Nat \ {0}]
  /\ NoHash \notin Hashes
  /\ MaximumFileSizeInBytes \in Nat \ {0}
  /\ MaximumStoredDownloadedFilesSizeInBytes \in Nat
  /\ MaximumStoredDownloadedFilesSizeInBytes >= MaximumFileSizeInBytes
  /\ MaximumUnremovedBytes \in Nat

VARIABLES
  application,  \* an application runs; the store was cleared for it
  step,         \* the step of downloadFile(); "none" outside it
  expected,     \* expected_sha256 of the request
  allowed,      \* maximumBytesForThisTransfer
  content,      \* content of the temporary file, once the transfer is complete
  records,      \* keys of m_downloadedFilesBySha256
  stored,       \* m_storedDownloadedFileBytes
  files,        \* the final file of each hash
  temporary,    \* bytes in the temporary file of the request
  leftover,     \* bytes in temporary files that earlier requests or processes left
  unremoved,    \* history: bytes that stayed because their removal failed, since the
                \* directory was last emptied
  result        \* hash of the file the last call returned; "refused" if it raised

requestVars == <<step, expected, allowed, content>>
storeVars   == <<records, stored>>
leftVars    == <<leftover, unremoved>>
downloadVars == <<application, requestVars, storeVars, files, temporary, leftVars, result>>

Steps      == {"none", "lookup", "transfer", "verify", "reuse", "place"}
FileStates == {"absent", "intact", "damaged"}
Raised     == "refused"

SmallerOf(a, b) == IF a < b THEN a ELSE b
BytesOf(H)      == SumFunctionOnSet(FileBytes, H)
Present         == {h \in Hashes : files[h] # "absent"}

\* The process starts with what an earlier one left; nothing is recorded.
DownloadsInit ==
  /\ application = FALSE
  /\ step = "none" /\ expected = NoHash /\ allowed = 0 /\ content = NoHash
  /\ records = {} /\ stored = 0
  /\ files = [h \in Hashes |-> "absent"]
  /\ temporary = 0 /\ leftover = 0 /\ unremoved = 0
  /\ result = Raised

-----------------------------------------------------------------------------
(***************************************************************************)
(* downloadFile()                                                          *)
(***************************************************************************)

Ends(outcome) ==
  /\ step' = "none" /\ expected' = NoHash /\ allowed' = 0 /\ content' = NoHash
  /\ result' = outcome

\* A file of this many bytes cannot be removed, and nobody learns of it.
RemovalFails(bytes) ==
  /\ unremoved + bytes <= MaximumUnremovedBytes
  /\ unremoved' = unremoved + bytes

\* ~TemporaryDownloadFile(): the error of a removal that fails is ignored, and the file stays.
DropTemporary ==
  /\ temporary' = 0
  /\ \/ UNCHANGED leftVars
     \/ RemovalFails(temporary) /\ leftover' = leftover + temporary

\* The exception leaves the scope of the temporary file.
Refuse == Ends(Raised) /\ DropTemporary /\ UNCHANGED application

Request(hash) ==
  /\ application /\ step = "none"
  /\ step' = "lookup" /\ expected' = hash
  /\ UNCHANGED <<application, allowed, content, storeVars, files, temporary, leftVars, result>>

\* The first half of findValidCachedDownload(): the recorded file passes the check.
FoundValid(hash) == hash \in records /\ files[hash] = "intact"

\* The second half: a file that fails it is removed with its record.
DropDamaged(hash) ==
  /\ hash \in records /\ files[hash] # "intact"
  /\ files' = [files EXCEPT ![hash] = "absent"]
  /\ records' = records \ {hash}
  /\ stored' = stored - FileBytes[hash]

\* The damaged file cannot be read or removed: the call raises, the record stays.
DamagedFileStays(hash) == hash \in records /\ files[hash] = "damaged" /\ Refuse

Nothing(hash) == hash \notin records /\ UNCHANGED <<storeVars, files>>

LookUpHit ==
  /\ step = "lookup" /\ FoundValid(expected)
  /\ Ends(expected)
  /\ UNCHANGED <<application, storeVars, files, temporary, leftVars>>

\* Fault: the limit of one file is applied, not what is left for the application.
StartTransferUpToFileLimit ==
  /\ step = "lookup"
  /\ DropDamaged(expected) \/ Nothing(expected)
  /\ stored' < MaximumStoredDownloadedFilesSizeInBytes
  /\ allowed' = MaximumFileSizeInBytes
  /\ step' = "transfer"
  /\ UNCHANGED <<application, expected, content, temporary, leftVars, result>>

\* A miss: the transfer may use what is left of both limits.
StartTransfer ==
  /\ step = "lookup"
  /\ DropDamaged(expected) \/ Nothing(expected)
  /\ stored' < MaximumStoredDownloadedFilesSizeInBytes
  /\ allowed' = SmallerOf(MaximumFileSizeInBytes,
                          MaximumStoredDownloadedFilesSizeInBytes - stored')
  /\ step' = "transfer"
  /\ UNCHANGED <<application, expected, content, temporary, leftVars, result>>

\* The limit is reached, or the temporary file or the transfer cannot be set up.
RefuseBeforeTransfer ==
  /\ step = "lookup"
  /\ DropDamaged(expected) \/ Nothing(expected)
  /\ Refuse

LookUpFails ==
  /\ step = "lookup" /\ DamagedFileStays(expected)
  /\ UNCHANGED <<storeVars, files>>

\* writeDownloadedBytes() accepts another byte of a response.
ReceiveByte ==
  /\ step = "transfer" /\ temporary < allowed
  /\ temporary' = temporary + 1
  /\ UNCHANGED <<application, requestVars, storeVars, files, leftVars, result>>

\* The response ends: the temporary file holds all of a content.
CompleteTransfer(hash) ==
  /\ step = "transfer" /\ temporary = FileBytes[hash]
  /\ content' = hash
  /\ step' = "verify"
  /\ UNCHANGED <<application, expected, allowed, storeVars, files, temporary, leftVars, result>>

\* Too large, timed out, broken off, empty, not written or not closed.
TransferFails ==
  /\ step = "transfer"
  /\ Refuse
  /\ UNCHANGED <<storeVars, files>>

\* Fault: the expected hash is not compared.
VerifyNothing ==
  /\ step = "verify"
  /\ step' = "reuse"
  /\ UNCHANGED <<application, expected, allowed, content, storeVars, files, temporary, leftVars, result>>

\* The content has the expected hash, if one was given.
Verify ==
  /\ step = "verify"
  /\ IF expected \in {NoHash, content}
     THEN /\ step' = "reuse"
          /\ UNCHANGED <<application, expected, allowed, content, temporary, leftVars, result>>
     ELSE Refuse
  /\ UNCHANGED <<storeVars, files>>

\* The same bytes are in the store already: the temporary file is dropped.
Reuse ==
  /\ step = "reuse" /\ FoundValid(content)
  /\ Ends(content) /\ DropTemporary
  /\ UNCHANGED <<application, storeVars, files>>

NothingToReuse ==
  /\ step = "reuse"
  /\ DropDamaged(content) \/ Nothing(content)
  /\ step' = "place"
  /\ UNCHANGED <<application, expected, allowed, content, temporary, leftVars, result>>

ReuseFails ==
  /\ step = "reuse" /\ DamagedFileStays(content)
  /\ UNCHANGED <<storeVars, files>>

\* The temporary file replaces whatever has the final name, and is recorded.
Place ==
  /\ step = "place"
  /\ files' = [files EXCEPT ![content] = "intact"]
  /\ records' = records \cup {content}
  /\ stored' = stored + FileBytes[content]
  /\ Ends(content) /\ temporary' = 0
  /\ UNCHANGED <<application, leftVars>>

\* The old file cannot be removed or the new one not protected, renamed or recorded.  A file
\* that is renamed but not recorded is removed under its new name, or stays there.
PlaceFails ==
  /\ step = "place"
  /\ \/ files' \in {files, [files EXCEPT ![content] = "absent"]} /\ Refuse
     \/ /\ RemovalFails(temporary)
        /\ files' = [files EXCEPT ![content] = "intact"] /\ temporary' = 0
        /\ Ends(Raised) /\ UNCHANGED <<application, leftover>>
  /\ UNCHANGED storeVars

-----------------------------------------------------------------------------
(***************************************************************************)
(* clearDownloadedFiles(), the end of an application, and the environment. *)
(***************************************************************************)

StopApplication ==
  /\ application /\ step = "none"
  /\ application' = FALSE
  /\ UNCHANGED <<requestVars, storeVars, files, temporary, leftVars, result>>

\* Fault: the next application starts although the files could not be removed.
ClearAtBest ==
  /\ ~application
  /\ files' \in {files, [h \in Hashes |-> "absent"]}
  /\ leftover' = 0 /\ unremoved' = 0
  /\ records' = {} /\ stored' = 0
  /\ application' = TRUE
  /\ UNCHANGED <<requestVars, temporary, result>>

\* The directory is emptied before an application starts ...
Clear ==
  /\ ~application
  /\ files' = [h \in Hashes |-> "absent"] /\ leftover' = 0 /\ unremoved' = 0
  /\ records' = {} /\ stored' = 0
  /\ application' = TRUE
  /\ UNCHANGED <<requestVars, temporary, result>>

\* ... or not, or only in part: the exception prevents the start.
ClearFails ==
  /\ ~application
  /\ \E removed \in SUBSET Present :
       files' = [h \in Hashes |-> IF h \in removed THEN "absent" ELSE files[h]]
  /\ leftover' \in 0..leftover
  /\ UNCHANGED <<application, requestVars, storeVars, temporary, unremoved, result>>

\* The directory is emptied but cannot be created anew.
ClearLeavesNoDirectory ==
  /\ ~application
  /\ files' = [h \in Hashes |-> "absent"] /\ leftover' = 0 /\ unremoved' = 0
  /\ records' = {} /\ stored' = 0
  /\ UNCHANGED <<application, requestVars, temporary, result>>

\* Somebody else damages or removes a file.
DamageFile(h) ==
  /\ files[h] # "absent"
  /\ files' \in {[files EXCEPT ![h] = "damaged"], [files EXCEPT ![h] = "absent"]}
  /\ UNCHANGED <<application, requestVars, storeVars, temporary, leftVars, result>>

\* The process is killed, also between the renaming and the record, and starts again.
Restart ==
  /\ application' = FALSE
  /\ Ends(Raised)
  /\ records' = {} /\ stored' = 0 /\ temporary' = 0
  /\ \/ leftover' = leftover + temporary /\ UNCHANGED files
     \/ /\ step = "place"
        /\ files' = [files EXCEPT ![content] = "intact"] /\ UNCHANGED leftover
  /\ UNCHANGED unremoved

-----------------------------------------------------------------------------
DownloadsNext ==
  \/ \E h \in Hashes \cup {NoHash} : Request(h)
  \/ LookUpHit \/ StartTransfer \/ RefuseBeforeTransfer \/ LookUpFails
  \/ ReceiveByte \/ (\E h \in Hashes : CompleteTransfer(h)) \/ TransferFails
  \/ Verify \/ Reuse \/ NothingToReuse \/ ReuseFails \/ Place \/ PlaceFails
  \/ StopApplication \/ Clear \/ ClearFails \/ ClearLeavesNoDirectory
  \/ (\E h \in Hashes : DamageFile(h)) \/ Restart

DownloadsSpec == DownloadsInit /\ [][DownloadsNext]_downloadVars

-----------------------------------------------------------------------------
(***************************************************************************)
(* Properties.                                                             *)
(***************************************************************************)

\* Types; a request is served only while an application runs.
DownloadsTypeOK ==
  /\ application \in BOOLEAN
  /\ step \in Steps
  /\ expected \in Hashes \cup {NoHash} /\ content \in Hashes \cup {NoHash}
  /\ allowed \in 0..MaximumFileSizeInBytes
  /\ records \subseteq Hashes
  /\ stored \in 0..MaximumStoredDownloadedFilesSizeInBytes
  /\ files \in [Hashes -> FileStates]
  /\ temporary \in 0..MaximumFileSizeInBytes
  /\ unremoved \in 0..MaximumUnremovedBytes
  /\ leftover \in 0..(MaximumUnremovedBytes + MaximumFileSizeInBytes)
  /\ result \in Hashes \cup {Raised}
  /\ step # "none" => application

\* While an application runs, what the directory holds without a record, final files and
\* temporary ones, is no more than what failed removals left there since it was emptied: none
\* of it is from an earlier application, a killed process or a request that failed otherwise.
\* And a temporary file is in use only during a transfer.
NoFileIsUnaccounted ==
  /\ application => BytesOf(Present \ records) + leftover <= unremoved
  /\ step \notin {"transfer", "verify", "reuse", "place"} => temporary = 0

\* The byte count is that of the recorded files after every step, damaged, replaced and
\* refused downloads included, so that it neither wraps below zero nor fills up for good.
\* With the file in transfer it never exceeds the limit, and nor does all that the directory
\* holds, after a kill too, but for what failed removals left there.
DiskUsageIsBounded ==
  /\ stored = BytesOf(records)
  /\ stored + temporary <= MaximumStoredDownloadedFilesSizeInBytes
  /\ BytesOf(Present) + temporary + leftover <= MaximumStoredDownloadedFilesSizeInBytes + unremoved

\* A file that is handed to the application is recorded, passes the check at that moment,
\* and is the expected one, also when its cached copy was damaged during the transfer.
ReturnsVerifiedFile ==
  step # "none" /\ step' = "none" /\ result' # Raised =>
    /\ expected \in {NoHash, result'}
    /\ result' \in records' /\ files'[result'] = "intact"

AnswersAreVerified == [][ReturnsVerifiedFile]_downloadVars

=============================================================================
