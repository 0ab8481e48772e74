------------------------ MODULE HttpFileDownloaderProofs ------------------------
(***************************************************************************)
(* Theorems about HttpFileDownloader, for every set of contents, all sizes *)
(* and all limits: which files are handed out, which there are, and how    *)
(* many bytes they take.                                                   *)
(***************************************************************************)
EXTENDS HttpFileDownloader, CollectionLemmas

-----------------------------------------------------------------------------
\* The part of the types that does not need the sums.
StoreTypes ==
  /\ application \in BOOLEAN
  /\ step \in Steps
  /\ expected \in Hashes \cup {NoHash}
  /\ content \in Hashes \cup {NoHash}
  /\ records \subseteq Hashes
  /\ files \in [Hashes -> FileStates]

\* A request is served only while an application runs.
RequestsNeedApplication == step # "none" => application

\* Once the transfer is complete its content is known, and once it is verified it is
\* the expected one.
ContentIsExpected ==
  /\ step \in {"verify", "reuse", "place"} => content \in Hashes
  /\ step \in {"reuse", "place"} => expected \in {NoHash, content}

IInv ==
  /\ StoreTypes
  /\ RequestsNeedApplication
  /\ ContentIsExpected

\* What dropping a damaged file, or finding nothing to drop, does to the store: there is no
\* file afterwards that was not there before, and none has lost its record.
LEMMA DroppingResult ==
  ASSUME StoreTypes, NEW hash \in Hashes \cup {NoHash}, DropDamaged(hash) \/ Nothing(hash)
  PROVE  /\ files' \in [Hashes -> FileStates]
         /\ records' \subseteq records
         /\ Present' \subseteq Present
         /\ Present' \ records' \subseteq Present \ records
<1>1. CASE Nothing(hash)
  BY <1>1 DEF Nothing, StoreTypes, storeVars, Present
<1>2. CASE DropDamaged(hash)
  <2>1. hash \in Hashes
    BY <1>2 DEF DropDamaged, StoreTypes
  <2>2. /\ files' = [files EXCEPT ![hash] = "absent"]
        /\ records' = records \ {hash}
    BY <1>2 DEF DropDamaged
  <2>3. QED
    BY <2>1, <2>2 DEF StoreTypes, FileStates, Present
<1>3. QED  BY <1>1, <1>2

\* Every step keeps the inductive invariant.
LEMMA StepKeepsIInv == IInv /\ [DownloadsNext]_downloadVars => IInv'
<1> SUFFICES ASSUME IInv, [DownloadsNext]_downloadVars
             PROVE  IInv'
  OBVIOUS
<1> USE DownloadAssumption
    DEF IInv, StoreTypes, RequestsNeedApplication, ContentIsExpected, Steps
<1>1. ASSUME NEW h \in Hashes \cup {NoHash}, Request(h)
      PROVE  IInv'
  BY <1>1 DEF Request, storeVars
<1>2. CASE LookUpHit
  BY <1>2 DEF LookUpHit, Ends, storeVars
<1>3. CASE StartTransfer \/ RefuseBeforeTransfer
  <2>1. files' \in [Hashes -> FileStates] /\ records' \subseteq Hashes
    BY <1>3, DroppingResult DEF StartTransfer, RefuseBeforeTransfer
  <2>2. QED
    BY <1>3, <2>1 DEF StartTransfer, RefuseBeforeTransfer, Refuse, Ends
<1>4. CASE LookUpFails
  BY <1>4 DEF LookUpFails, DamagedFileStays, Refuse, Ends, storeVars
<1>5. CASE ReceiveByte \/ TransferFails
  BY <1>5 DEF ReceiveByte, TransferFails, Refuse, Ends, requestVars, storeVars
<1>6. ASSUME NEW h \in Hashes, CompleteTransfer(h)
      PROVE  IInv'
  BY <1>6 DEF CompleteTransfer, storeVars
<1>7. CASE Verify
  BY <1>7 DEF Verify, Refuse, Ends, storeVars
<1>8. CASE Reuse
  BY <1>8 DEF Reuse, Ends, storeVars
<1>9. CASE NothingToReuse
  <2>1. files' \in [Hashes -> FileStates] /\ records' \subseteq Hashes
    BY <1>9, DroppingResult DEF NothingToReuse
  <2>2. QED
    BY <1>9, <2>1 DEF NothingToReuse
<1>10. CASE ReuseFails
  BY <1>10 DEF ReuseFails, DamagedFileStays, Refuse, Ends, storeVars
<1>11. CASE Place
  BY <1>11 DEF Place, Ends, FileStates
<1>12. CASE PlaceFails
  <2>1. files' \in [Hashes -> FileStates]
    BY <1>12 DEF PlaceFails, FileStates
  <2>2. QED
    BY <1>12, <2>1 DEF PlaceFails, Refuse, Ends, storeVars
<1>13. CASE StopApplication
  BY <1>13 DEF StopApplication, requestVars, storeVars
<1>14. CASE Clear \/ ClearLeavesNoDirectory
  BY <1>14 DEF Clear, ClearLeavesNoDirectory, requestVars, FileStates
<1>15. CASE ClearFails
  <2>1. files' \in [Hashes -> FileStates]
    BY <1>15 DEF ClearFails, FileStates
  <2>2. QED
    BY <1>15, <2>1 DEF ClearFails, requestVars, storeVars
<1>16. ASSUME NEW h \in Hashes, DamageFile(h)
       PROVE  IInv'
  <2>1. files' \in [Hashes -> FileStates]
    BY <1>16 DEF DamageFile, FileStates
  <2>2. QED
    BY <1>16, <2>1 DEF DamageFile, requestVars, storeVars
<1>17. CASE Restart
  <2>1. files' \in [Hashes -> FileStates]
    BY <1>17 DEF Restart, FileStates
  <2>2. QED
    BY <1>17, <2>1 DEF Restart, Ends
<1>18. CASE UNCHANGED downloadVars
  BY <1>18 DEF downloadVars, requestVars, storeVars
<1>19. QED
  BY <1>1, <1>2, <1>3, <1>4, <1>5, <1>6, <1>7, <1>8, <1>9, <1>10, <1>11, <1>12, <1>13, <1>14,
     <1>15, <1>16, <1>17, <1>18 DEF DownloadsNext

\* The inductive invariant holds in every reachable state.
LEMMA InductiveInvariant == DownloadsSpec => []IInv
<1>1. DownloadsInit => IInv
  BY DEF DownloadsInit, IInv, StoreTypes, RequestsNeedApplication, ContentIsExpected, Steps, FileStates
<1>2. QED
  BY <1>1, StepKeepsIInv, PTL DEF DownloadsSpec

\* A file that is handed out is recorded, intact at that moment and the expected one.
THEOREM OnlyVerifiedAnswers == DownloadsSpec => AnswersAreVerified
<1>1. IInv /\ [DownloadsNext]_downloadVars => [ReturnsVerifiedFile]_downloadVars
  <2> SUFFICES ASSUME IInv, DownloadsNext, step # "none", step' = "none", result' # Raised
               PROVE  /\ expected \in {NoHash, result'}
                      /\ result' \in records' /\ files'[result'] = "intact"
    BY DEF ReturnsVerifiedFile
  <2> USE DEF IInv, StoreTypes
  <2>1. CASE LookUpHit
    BY <2>1 DEF LookUpHit, FoundValid, Ends, storeVars
  <2>2. CASE Reuse
    BY <2>2 DEF Reuse, FoundValid, Ends, storeVars, ContentIsExpected
  <2>3. CASE Place
    BY <2>3 DEF Place, Ends, ContentIsExpected
  <2>4. CASE RefuseBeforeTransfer \/ LookUpFails \/ TransferFails \/ ReuseFails \/ PlaceFails \/ Restart
    BY <2>4 DEF RefuseBeforeTransfer, LookUpFails, TransferFails, ReuseFails, PlaceFails, Restart,
       DamagedFileStays, Refuse, Ends
  <2>5. CASE Verify
    BY <2>5 DEF Verify, Refuse, Ends
  <2>6. CASE StartTransfer \/ ReceiveByte \/ NothingToReuse \/ StopApplication \/ Clear \/ ClearFails
               \/ ClearLeavesNoDirectory
    BY <2>6 DEF StartTransfer, ReceiveByte, NothingToReuse, StopApplication, Clear, ClearFails,
       ClearLeavesNoDirectory, requestVars
  <2>7. ASSUME NEW h \in Hashes \cup {NoHash}, Request(h) \/ (h \in Hashes /\ (CompleteTransfer(h) \/ DamageFile(h)))
        PROVE  FALSE
    BY <2>7 DEF Request, CompleteTransfer, DamageFile, requestVars
  <2>8. QED
    BY <2>1, <2>2, <2>3, <2>4, <2>5, <2>6, <2>7 DEF DownloadsNext
<1>2. QED
  BY <1>1, InductiveInvariant, PTL DEF DownloadsSpec, AnswersAreVerified

-----------------------------------------------------------------------------
(***************************************************************************)
(* The byte counts.                                                        *)
(***************************************************************************)

\* What is left of the limits is not spent twice: from the start of a transfer to the end
\* of the call the recorded files and the whole transfer fit together, and the content
\* that is put in place is not recorded yet.
TransferFits ==
  /\ step \in {"transfer", "verify", "reuse", "place"} =>
       stored + allowed <= MaximumStoredDownloadedFilesSizeInBytes /\ temporary <= allowed
  /\ step \in {"verify", "reuse", "place"} => temporary = FileBytes[content]
  /\ step = "place" => content \notin records

DiskInv ==
  /\ allowed \in 0..MaximumFileSizeInBytes /\ temporary \in 0..MaximumFileSizeInBytes
  /\ leftover \in Nat /\ unremoved \in Nat
  /\ IsFiniteSet(records) /\ IsFiniteSet(Present)
  /\ stored \in 0..MaximumStoredDownloadedFilesSizeInBytes
  /\ TransferFits
  /\ NoFileIsUnaccounted
  /\ DiskUsageIsBounded

\* Facts about the bytes of a set of contents.
LEMMA BytesOfContents ==
  ASSUME NEW H \in SUBSET Hashes, IsFiniteSet(H)
  PROVE  /\ BytesOf(H) \in Nat
         /\ \A h \in H : BytesOf(H) = BytesOf(H \ {h}) + FileBytes[h] /\ BytesOf(H \ {h}) \in Nat
         /\ \A h \in Hashes \ H : BytesOf(H \cup {h}) = BytesOf(H) + FileBytes[h]
         /\ \A G \in SUBSET H : BytesOf(G) <= BytesOf(H) /\ BytesOf(G) \in Nat /\ IsFiniteSet(G)
<1>1. \A h \in Hashes : FileBytes[h] \in Nat
  BY DownloadAssumption
<1>2. ASSUME NEW G \in SUBSET H
      PROVE  BytesOf(G) <= BytesOf(H) /\ BytesOf(G) \in Nat /\ IsFiniteSet(G)
  <2>1. IsFiniteSet(G) /\ \A h \in G : FileBytes[h] \in Nat
    BY <1>1, FS_Subset
  <2>2. SumFunctionOnSet(FileBytes, G) \in Nat
    BY <2>1, SumIsNatural
  <2>3. SumFunctionOnSet(FileBytes, G) <= SumFunctionOnSet(FileBytes, H)
    BY <1>1, SumOfPart
  <2>4. QED
    BY <2>1, <2>2, <2>3 DEF BytesOf
<1>3. ASSUME NEW h \in H
      PROVE  BytesOf(H) = BytesOf(H \ {h}) + FileBytes[h]
  BY <1>1, SumWithout DEF BytesOf
<1>4. ASSUME NEW h \in Hashes \ H
      PROVE  BytesOf(H \cup {h}) = BytesOf(H) + FileBytes[h]
  BY <1>1, SumWith DEF BytesOf
<1>5. BytesOf(H) \in Nat /\ \A h \in H : BytesOf(H \ {h}) \in Nat
  BY <1>2
<1>6. QED
  BY <1>2, <1>3, <1>4, <1>5

LEMMA BytesOfNothing == BytesOf({}) = 0
BY SumOfEmptySet DEF BytesOf

\* The bytes of a set are those of the part that is in another one and of the rest.
LEMMA BytesOfParts ==
  ASSUME NEW P \in SUBSET Hashes, IsFiniteSet(P), NEW R
  PROVE  BytesOf(P) = BytesOf(P \cap R) + BytesOf(P \ R)
<1> DEFINE Splits(T) == BytesOf(T) = BytesOf(T \cap R) + BytesOf(T \ R)
           Bad == {T \in SUBSET P : ~Splits(T)}
<1> SUFFICES ASSUME Bad # {}
             PROVE  FALSE
  OBVIOUS
<1>1. PICK T \in Bad : \A U \in SUBSET T : U # T => U \notin Bad
  <2>1. Bad \subseteq SUBSET P
    OBVIOUS
  <2> HIDE DEF Bad
  <2>2. QED
    BY <2>1, LeastSet
<1>2. T \in SUBSET P /\ ~Splits(T)
  BY <1>1
<1>3. T # {}
  <2>1. {} \cap R = {} /\ {} \ R = {} /\ 0 + 0 = 0
    OBVIOUS
  <2>2. QED
    BY <1>2, <2>1, BytesOfNothing
<1>4. PICK x \in T : TRUE
  BY <1>3
<1> DEFINE U == T \ {x}
<1>5. Splits(U)
  <2>1. U \in SUBSET T /\ U # T /\ U \in SUBSET P
    BY <1>2, <1>4
  <2> HIDE DEF U, Splits
  <2>2. QED
    BY <1>1, <2>1
<1>6. /\ IsFiniteSet(T) /\ IsFiniteSet(T \cap R) /\ IsFiniteSet(T \ R)
      /\ T \in SUBSET Hashes /\ T \cap R \in SUBSET Hashes /\ T \ R \in SUBSET Hashes
  <2>1. T \in SUBSET P /\ T \cap R \in SUBSET P /\ T \ R \in SUBSET P
    BY <1>2
  <2>2. QED
    BY <2>1, FS_Subset
<1>7. /\ BytesOf(T) = BytesOf(U) + FileBytes[x] /\ FileBytes[x] \in Nat
      /\ BytesOf(U) \in Nat /\ BytesOf(T \cap R) \in Nat /\ BytesOf(T \ R) \in Nat
      /\ BytesOf(U \cap R) \in Nat /\ BytesOf(U \ R) \in Nat
  <2>1. U \cap R \in SUBSET (T \cap R) /\ U \ R \in SUBSET (T \ R)
    OBVIOUS
  <2>2. FileBytes[x] \in Nat
    BY <1>4, <1>6, DownloadAssumption
  <2>3. QED
    BY <1>4, <1>6, <2>1, <2>2, BytesOfContents
<1>8. CASE x \in R
  <2>1. U \cap R = (T \cap R) \ {x} /\ U \ R = T \ R /\ x \in T \cap R
    BY <1>4, <1>8
  <2>2. BytesOf(T \cap R) = BytesOf(U \cap R) + FileBytes[x]
    BY <1>6, <2>1, BytesOfContents
  <2>3. BytesOf(U) = BytesOf(U \cap R) + BytesOf(T \ R)
    BY <1>5, <2>1
  <2>4. QED
    BY <1>2, <1>7, <2>2, <2>3
<1>9. CASE x \notin R
  <2>1. U \cap R = T \cap R /\ U \ R = (T \ R) \ {x} /\ x \in T \ R
    BY <1>4, <1>9
  <2>2. BytesOf(T \ R) = BytesOf(U \ R) + FileBytes[x]
    BY <1>6, <2>1, BytesOfContents
  <2>3. BytesOf(U) = BytesOf(T \cap R) + BytesOf(U \ R)
    BY <1>5, <2>1
  <2>4. QED
    BY <1>2, <1>7, <2>2, <2>3
<1>10. QED
  BY <1>8, <1>9

\* A record that is dropped gives its bytes back.
LEMMA DroppingBytes ==
  ASSUME IInv, DiskInv, NEW hash \in Hashes \cup {NoHash}, DropDamaged(hash) \/ Nothing(hash)
  PROVE  /\ hash \notin records'
         /\ stored' = BytesOf(records') /\ stored' \in Nat /\ stored' <= stored
<1>1. /\ records \subseteq Hashes /\ IsFiniteSet(records) /\ stored = BytesOf(records) /\ stored \in Nat
  BY DEF IInv, StoreTypes, DiskInv, DiskUsageIsBounded
<1>2. CASE Nothing(hash)
  BY <1>1, <1>2 DEF Nothing, storeVars
<1>3. CASE DropDamaged(hash)
  <2>1. hash \in records /\ records' = records \ {hash} /\ stored' = stored - FileBytes[hash]
    BY <1>3 DEF DropDamaged
  <2>2. /\ BytesOf(records) = BytesOf(records \ {hash}) + FileBytes[hash]
        /\ BytesOf(records \ {hash}) \in Nat
    BY <1>1, <2>1, BytesOfContents
  <2>3. FileBytes[hash] \in Nat
    BY <1>1, <2>1, DownloadAssumption
  <2>4. QED
    BY <1>1, <2>1, <2>2, <2>3
<1>4. QED
  BY <1>2, <1>3

\* What stays behind is covered by the failed removals as well as before.
LeftoversStayCovered ==
  /\ leftover' \in Nat /\ unremoved' \in Nat
  /\ \A n \in Nat : n + leftover <= unremoved => n + leftover' <= unremoved'

\* It is when a temporary file goes, or cannot be removed.
LEMMA DroppedTemporary ==
  ASSUME DiskInv, DropTemporary \/ UNCHANGED leftVars
  PROVE  LeftoversStayCovered
<1>1. leftover \in Nat /\ unremoved \in Nat /\ temporary \in Nat
  BY DEF DiskInv
<1>2. CASE UNCHANGED leftVars
  BY <1>1, <1>2 DEF leftVars, LeftoversStayCovered
<1>3. CASE leftover' = leftover + temporary /\ unremoved' = unremoved + temporary
  BY <1>1, <1>3 DEF LeftoversStayCovered
<1>4. QED
  BY <1>2, <1>3 DEF DropTemporary, RemovalFails

\* The counts of a next state in which the bytes without a record are covered.
LEMMA CoveredStoreIsBounded ==
  ASSUME records' \in SUBSET Hashes, Present' \in SUBSET Hashes,
         IsFiniteSet(records'), IsFiniteSet(Present'),
         allowed' \in 0..MaximumFileSizeInBytes, temporary' \in 0..MaximumFileSizeInBytes,
         leftover' \in Nat, unremoved' \in Nat,
         stored' = BytesOf(records'),
         stored' + temporary' <= MaximumStoredDownloadedFilesSizeInBytes,
         BytesOf(Present' \ records') + leftover' <= unremoved',
         step' \notin {"transfer", "verify", "reuse", "place"} => temporary' = 0,
         TransferFits'
  PROVE  DiskInv'
<1>1. /\ BytesOf(Present') = BytesOf(Present' \cap records') + BytesOf(Present' \ records')
      /\ BytesOf(Present' \cap records') <= BytesOf(records') /\ BytesOf(Present' \cap records') \in Nat
      /\ BytesOf(Present' \ records') \in Nat /\ BytesOf(records') \in Nat
  <2>1. BytesOf(Present') = BytesOf(Present' \cap records') + BytesOf(Present' \ records')
    BY BytesOfParts
  <2>2. BytesOf(Present' \cap records') <= BytesOf(records') /\ BytesOf(Present' \cap records') \in Nat
        /\ BytesOf(records') \in Nat
    <3>1. Present' \cap records' \in SUBSET records'
      OBVIOUS
    <3>2. QED
      BY <3>1, BytesOfContents
  <2>3. BytesOf(Present' \ records') \in Nat
    <3>1. Present' \ records' \in SUBSET Present'
      OBVIOUS
    <3>2. QED
      BY <3>1, BytesOfContents
  <2>4. QED
    BY <2>1, <2>2, <2>3
<1>2. BytesOf(Present') + temporary' + leftover' <= MaximumStoredDownloadedFilesSizeInBytes + unremoved'
  BY <1>1, DownloadAssumption
<1>3. stored' \in 0..MaximumStoredDownloadedFilesSizeInBytes
  BY <1>1, DownloadAssumption
<1>4. QED
  BY <1>2, <1>3 DEF DiskInv, NoFileIsUnaccounted, DiskUsageIsBounded

\* A step of a call keeps the counts if it only takes from the store, removes or leaves the
\* temporary file, and keeps it to what the transfer may use.
LEMMA ShrinkingStoreKeepsDisk ==
  ASSUME IInv, DiskInv, application,
         records' \subseteq records, Present' \subseteq Present,
         Present' \ records' \subseteq Present \ records,
         allowed' \in 0..MaximumFileSizeInBytes, temporary' \in 0..MaximumFileSizeInBytes,
         LeftoversStayCovered,
         stored' = BytesOf(records'),
         stored' + temporary' <= MaximumStoredDownloadedFilesSizeInBytes,
         step' \notin {"transfer", "verify", "reuse", "place"} => temporary' = 0,
         TransferFits'
  PROVE  DiskInv'
<1>1. /\ records \in SUBSET Hashes /\ Present \in SUBSET Hashes
      /\ IsFiniteSet(records) /\ IsFiniteSet(Present)
      /\ BytesOf(Present \ records) + leftover <= unremoved
      /\ leftover \in Nat /\ unremoved \in Nat
  BY DEF IInv, StoreTypes, DiskInv, NoFileIsUnaccounted, Present
<1>2. /\ records' \in SUBSET Hashes /\ Present' \in SUBSET Hashes
      /\ IsFiniteSet(records') /\ IsFiniteSet(Present')
  BY <1>1, FS_Subset
<1>3. /\ BytesOf(Present' \ records') <= BytesOf(Present \ records)
      /\ BytesOf(Present' \ records') \in Nat /\ BytesOf(Present \ records) \in Nat
  <2>1. IsFiniteSet(Present \ records) /\ Present \ records \in SUBSET Hashes
    <3>1. Present \ records \in SUBSET Present
      OBVIOUS
    <3>2. QED
      BY <1>1, <3>1, FS_Subset
  <2>2. Present' \ records' \in SUBSET (Present \ records)
    OBVIOUS
  <2>3. QED
    BY <2>1, <2>2, BytesOfContents
<1>4. leftover' \in Nat /\ unremoved' \in Nat /\ BytesOf(Present' \ records') + leftover' <= unremoved'
  <2>1. BytesOf(Present' \ records') + leftover <= unremoved
    BY <1>1, <1>3
  <2>2. QED
    BY <1>3, <2>1 DEF LeftoversStayCovered
<1>5. QED
  BY <1>2, <1>4, CoveredStoreIsBounded

\* The counts of a next state without an application, with an empty memory of records.
LEMMA IdleStoreIsBounded ==
  ASSUME ~application', records' = {}, stored' = 0, temporary' = 0, IsFiniteSet(Present'),
         leftover' \in Nat, unremoved' \in Nat, allowed' \in 0..MaximumFileSizeInBytes, TransferFits',
         BytesOf(Present') + leftover' <= MaximumStoredDownloadedFilesSizeInBytes + unremoved',
         Present' \in SUBSET Hashes
  PROVE  DiskInv'
<1>1. IsFiniteSet({}) /\ BytesOf({}) = 0
  BY FS_EmptySet, BytesOfNothing
<1>2. BytesOf(Present') \in Nat
  BY BytesOfContents
<1>3. BytesOf(Present') + temporary' + leftover' <= MaximumStoredDownloadedFilesSizeInBytes + unremoved'
  BY <1>2
<1>4. 0 \in 0..MaximumFileSizeInBytes /\ 0 \in 0..MaximumStoredDownloadedFilesSizeInBytes
      /\ 0 + 0 <= MaximumStoredDownloadedFilesSizeInBytes
  BY DownloadAssumption
<1>5. QED
  BY <1>1, <1>3, <1>4 DEF DiskInv, NoFileIsUnaccounted, DiskUsageIsBounded

\* The temporary file becomes a file of the directory: what was counted as the one is
\* counted as the other.
LEMMA PlacedFileCounts ==
  ASSUME IInv, DiskInv, step = "place", files' = [files EXCEPT ![content] = "intact"]
  PROVE  /\ content \in Hashes /\ content \notin records /\ temporary = FileBytes[content]
         /\ stored + temporary <= MaximumStoredDownloadedFilesSizeInBytes
         /\ Present' = Present \cup {content} /\ IsFiniteSet(Present') /\ Present' \in SUBSET Hashes
         /\ IsFiniteSet(records \cup {content}) /\ records \cup {content} \in SUBSET Hashes
         /\ BytesOf(records \cup {content}) = stored + temporary
         /\ BytesOf(Present') <= BytesOf(Present) + temporary
         /\ BytesOf(Present' \ records) <= BytesOf(Present \ records) + temporary
         /\ BytesOf(Present') \in Nat /\ BytesOf(Present) \in Nat
         /\ BytesOf(Present' \ records) \in Nat /\ BytesOf(Present \ records) \in Nat
<1>1. /\ content \in Hashes /\ files \in [Hashes -> FileStates] /\ Present \in SUBSET Hashes
      /\ records \in SUBSET Hashes /\ IsFiniteSet(records) /\ IsFiniteSet(Present)
      /\ stored = BytesOf(records) /\ FileBytes[content] \in Nat
      /\ content \notin records /\ temporary = FileBytes[content]
      /\ stored + temporary <= MaximumStoredDownloadedFilesSizeInBytes
  BY DownloadAssumption
     DEF IInv, StoreTypes, ContentIsExpected, DiskInv, DiskUsageIsBounded, TransferFits, Present
<1>2. Present' = Present \cup {content}
  BY <1>1 DEF Present
<1>3. ASSUME NEW H \in SUBSET Hashes, IsFiniteSet(H)
      PROVE  /\ BytesOf(H \cup {content}) <= BytesOf(H) + FileBytes[content]
             /\ BytesOf(H) \in Nat /\ BytesOf(H \cup {content}) \in Nat
             /\ IsFiniteSet(H \cup {content})
  <2>1. IsFiniteSet(H \cup {content}) /\ H \cup {content} \in SUBSET Hashes
    BY <1>1, <1>3, FS_AddElement
  <2>2. BytesOf(H) \in Nat /\ BytesOf(H \cup {content}) \in Nat
    BY <1>3, <2>1, BytesOfContents
  <2>3. CASE content \in H
    <3>1. H \cup {content} = H
      BY <2>3
    <3>2. BytesOf(H \cup {content}) = BytesOf(H)
      BY <3>1, Zenon
    <3>3. BytesOf(H) <= BytesOf(H) + FileBytes[content]
      BY <1>1, <2>2
    <3>4. QED
      BY <2>1, <2>2, <3>2, <3>3
  <2>4. CASE content \notin H
    <3>1. BytesOf(H \cup {content}) = BytesOf(H) + FileBytes[content]
      BY <1>1, <1>3, <2>4, BytesOfContents
    <3>2. QED
      BY <2>1, <2>2, <3>1
  <2>5. QED
    BY <2>3, <2>4
<1>4. BytesOf(records \cup {content}) = stored + temporary
  BY <1>1, BytesOfContents
<1>5. Present' \ records = (Present \ records) \cup {content}
  BY <1>1, <1>2
<1>6. IsFiniteSet(Present \ records) /\ Present \ records \in SUBSET Hashes
  <2>1. Present \ records \in SUBSET Present
    OBVIOUS
  <2>2. QED
    BY <1>1, <2>1, FS_Subset
<1>7. /\ BytesOf(Present') <= BytesOf(Present) + FileBytes[content]
      /\ BytesOf(Present') \in Nat /\ BytesOf(Present) \in Nat /\ IsFiniteSet(Present')
  BY <1>1, <1>2, <1>3
<1>8. /\ BytesOf(Present' \ records) <= BytesOf(Present \ records) + FileBytes[content]
      /\ BytesOf(Present' \ records) \in Nat /\ BytesOf(Present \ records) \in Nat
  BY <1>3, <1>5, <1>6
<1>9. IsFiniteSet(records \cup {content}) /\ records \cup {content} \in SUBSET Hashes
  BY <1>1, FS_AddElement
<1>10. QED
  BY <1>1, <1>2, <1>4, <1>7, <1>8, <1>9

\* Every step keeps the counts right.
LEMMA StepKeepsDiskInv == IInv /\ DiskInv /\ [DownloadsNext]_downloadVars => DiskInv'
<1> SUFFICES ASSUME IInv, DiskInv, [DownloadsNext]_downloadVars
             PROVE  DiskInv'
  OBVIOUS
<1>0. /\ allowed \in 0..MaximumFileSizeInBytes /\ temporary \in 0..MaximumFileSizeInBytes
      /\ stored \in 0..MaximumStoredDownloadedFilesSizeInBytes /\ stored = BytesOf(records)
      /\ leftover \in Nat /\ unremoved \in Nat
      /\ stored + temporary <= MaximumStoredDownloadedFilesSizeInBytes
      /\ TransferFits /\ 0 \in 0..MaximumFileSizeInBytes
      /\ step \notin {"transfer", "verify", "reuse", "place"} => temporary = 0
      /\ step # "none" => application
      /\ IsFiniteSet(Present) /\ Present \in SUBSET Hashes /\ BytesOf(Present) \in Nat
      /\ BytesOf(Present) + temporary + leftover <= MaximumStoredDownloadedFilesSizeInBytes + unremoved
      /\ expected \in Hashes \cup {NoHash} /\ content \in Hashes \cup {NoHash}
  <2>1. IsFiniteSet(Present) /\ Present \in SUBSET Hashes
    BY DEF DiskInv, Present
  <2>2. BytesOf(Present) \in Nat
    BY <2>1, BytesOfContents
  <2>3. QED
    BY <2>1, <2>2, DownloadAssumption
       DEF DiskInv, DiskUsageIsBounded, NoFileIsUnaccounted, IInv, StoreTypes, RequestsNeedApplication
<1>1. ASSUME UNCHANGED <<records, stored, files>>, application, LeftoversStayCovered,
             step' \in {"none", "lookup"}, temporary' = 0, allowed' \in {0, allowed}
      PROVE  DiskInv'
  <2>1. Present' = Present
    BY <1>1 DEF Present
  <2>2. TransferFits'
    BY <1>1 DEF TransferFits
  <2>3. stored' + temporary' <= MaximumStoredDownloadedFilesSizeInBytes
    BY <1>0, <1>1, DownloadAssumption
  <2>4. QED
    BY <1>0, <1>1, <2>1, <2>2, <2>3, ShrinkingStoreKeepsDisk
<1>2. CASE \/ \E h \in Hashes \cup {NoHash} : Request(h)
           \/ LookUpHit \/ LookUpFails \/ TransferFails \/ Reuse \/ ReuseFails
           \/ Verify /\ step' = "none"
  <2>1. /\ UNCHANGED <<records, stored, files>> /\ application
        /\ DropTemporary \/ UNCHANGED leftVars
        /\ temporary' = 0 /\ allowed' \in {0, allowed} /\ step' \in {"none", "lookup"}
    <3>1. CASE \E h \in Hashes \cup {NoHash} : Request(h)
      BY <1>0, <3>1 DEF Request, storeVars, leftVars
    <3>2. CASE LookUpHit
      BY <1>0, <3>2 DEF LookUpHit, Ends, storeVars, leftVars
    <3>3. CASE LookUpFails \/ TransferFails \/ ReuseFails
      <4>1. Refuse /\ UNCHANGED <<storeVars, files>> /\ application
        BY <1>0, <3>3 DEF LookUpFails, DamagedFileStays, TransferFails, ReuseFails
      <4>2. QED
        BY <4>1 DEF Refuse, Ends, DropTemporary, storeVars
    <3>4. CASE Reuse
      BY <1>0, <3>4 DEF Reuse, Ends, DropTemporary, storeVars
    <3>5. CASE Verify /\ step' = "none"
      <4>1. Refuse /\ UNCHANGED <<storeVars, files>> /\ application
        BY <1>0, <3>5 DEF Verify
      <4>2. QED
        BY <4>1 DEF Refuse, Ends, DropTemporary, storeVars
    <3>6. QED
      BY <1>2, <3>1, <3>2, <3>3, <3>4, <3>5
  <2>2. LeftoversStayCovered
    BY <2>1, DroppedTemporary
  <2>3. QED
    BY <1>1, <2>1, <2>2
<1>3. ASSUME UNCHANGED <<records, stored, files, allowed, leftover, unremoved>>, application,
             step' \in {"transfer", "verify", "reuse"}, temporary' \in 0..MaximumFileSizeInBytes,
             stored + allowed <= MaximumStoredDownloadedFilesSizeInBytes,
             temporary' <= allowed, TransferFits'
      PROVE  DiskInv'
  <2>1. Present' = Present
    BY <1>3 DEF Present
  <2>2. LeftoversStayCovered
    BY <1>0, <1>3 DEF LeftoversStayCovered
  <2>3. stored' + temporary' <= MaximumStoredDownloadedFilesSizeInBytes
    BY <1>0, <1>3, DownloadAssumption
  <2>4. QED
    BY <1>0, <1>3, <2>1, <2>2, <2>3, ShrinkingStoreKeepsDisk
<1>4. CASE ReceiveByte
  <2>1. /\ step = "transfer" /\ temporary < allowed /\ temporary' = temporary + 1
        /\ UNCHANGED <<step, allowed, content, records, stored, files, leftover, unremoved>>
    BY <1>4 DEF ReceiveByte, requestVars, storeVars, leftVars
  <2>2. application /\ stored + allowed <= MaximumStoredDownloadedFilesSizeInBytes
    BY <1>0, <2>1 DEF TransferFits
  <2>3. temporary' \in 0..MaximumFileSizeInBytes /\ temporary' <= allowed
    BY <1>0, <2>1, DownloadAssumption
  <2>4. TransferFits'
    BY <2>1, <2>2, <2>3 DEF TransferFits
  <2>5. QED
    BY <1>3, <2>1, <2>2, <2>3, <2>4
<1>5. CASE (\E h \in Hashes : CompleteTransfer(h)) \/ (Verify /\ step' # "none")
  <2>1. /\ UNCHANGED <<records, stored, files, allowed, leftover, unremoved>> /\ step \in {"transfer", "verify"}
        /\ step' \in {"verify", "reuse"} /\ temporary' = temporary
        /\ temporary' = FileBytes[content']
    <3>1. CASE \E h \in Hashes : CompleteTransfer(h)
      BY <3>1 DEF CompleteTransfer, storeVars, leftVars
    <3>2. CASE Verify /\ step' # "none"
      BY <1>0, <3>2 DEF Verify, Refuse, Ends, storeVars, leftVars, TransferFits
    <3>3. QED
      BY <1>5, <3>1, <3>2
  <2>2. /\ application /\ stored + allowed <= MaximumStoredDownloadedFilesSizeInBytes
        /\ temporary' <= allowed
    BY <1>0, <2>1 DEF TransferFits
  <2>3. TransferFits'
    BY <2>1, <2>2 DEF TransferFits
  <2>4. QED
    BY <1>0, <1>3, <2>1, <2>2, <2>3
<1>6. CASE StartTransfer \/ RefuseBeforeTransfer \/ NothingToReuse
  <2>1. PICK h \in Hashes \cup {NoHash} :
          /\ DropDamaged(h) \/ Nothing(h)
          /\ NothingToReuse => h = content
    BY <1>0, <1>6 DEF StartTransfer, RefuseBeforeTransfer, NothingToReuse
  <2>2. application
    BY <1>0, <1>6 DEF StartTransfer, RefuseBeforeTransfer, NothingToReuse
  <2>3. /\ h \notin records' /\ stored' = BytesOf(records') /\ stored' \in Nat /\ stored' <= stored
        /\ records' \subseteq records /\ Present' \subseteq Present
        /\ Present' \ records' \subseteq Present \ records
    BY <2>1, DroppingBytes, DroppingResult DEF IInv
  <2>4. CASE StartTransfer
    <3>1. temporary = 0 /\ UNCHANGED leftVars
      BY <1>0, <2>4 DEF StartTransfer
    <3>2. /\ step' = "transfer" /\ temporary' = temporary
          /\ stored' < MaximumStoredDownloadedFilesSizeInBytes
          /\ allowed' = SmallerOf(MaximumFileSizeInBytes,
                                  MaximumStoredDownloadedFilesSizeInBytes - stored')
      BY <2>4 DEF StartTransfer
    <3>3. /\ allowed' \in 0..MaximumFileSizeInBytes
          /\ stored' + allowed' <= MaximumStoredDownloadedFilesSizeInBytes
          /\ stored' + temporary' <= MaximumStoredDownloadedFilesSizeInBytes
      BY <2>3, <3>1, <3>2, DownloadAssumption DEF SmallerOf
    <3>4. TransferFits'
      BY <3>1, <3>2, <3>3 DEF TransferFits
    <3>5. LeftoversStayCovered /\ temporary' \in 0..MaximumFileSizeInBytes
      BY <1>0, <3>1, <3>2, DroppedTemporary
    <3>6. QED
      BY <2>2, <2>3, <3>2, <3>3, <3>4, <3>5, ShrinkingStoreKeepsDisk
  <2>5. CASE RefuseBeforeTransfer
    <3>1. step' = "none" /\ allowed' = 0 /\ temporary' = 0 /\ DropTemporary
      BY <2>5 DEF RefuseBeforeTransfer, Refuse, Ends, DropTemporary
    <3>2. TransferFits'
      BY <3>1 DEF TransferFits
    <3>3. stored' + temporary' <= MaximumStoredDownloadedFilesSizeInBytes
      BY <1>0, <2>3, <3>1, DownloadAssumption
    <3>4. LeftoversStayCovered
      BY <3>1, DroppedTemporary
    <3>5. QED
      BY <1>0, <2>2, <2>3, <3>1, <3>2, <3>3, <3>4, ShrinkingStoreKeepsDisk
  <2>6. CASE NothingToReuse
    <3>1. /\ step = "reuse" /\ step' = "place" /\ UNCHANGED <<allowed, content, temporary>>
          /\ h = content /\ UNCHANGED leftVars
      BY <2>1, <2>6 DEF NothingToReuse
    <3>2. /\ stored + allowed <= MaximumStoredDownloadedFilesSizeInBytes /\ temporary <= allowed
          /\ temporary = FileBytes[content]
      BY <1>0, <3>1 DEF TransferFits
    <3>3. /\ stored' + allowed' <= MaximumStoredDownloadedFilesSizeInBytes
          /\ stored' + temporary' <= MaximumStoredDownloadedFilesSizeInBytes
      BY <1>0, <2>3, <3>1, <3>2, DownloadAssumption
    <3>4. TransferFits'
      BY <2>3, <3>1, <3>2, <3>3 DEF TransferFits
    <3>5. LeftoversStayCovered
      BY <3>1, DroppedTemporary
    <3>6. QED
      BY <1>0, <2>2, <2>3, <3>1, <3>3, <3>4, <3>5, ShrinkingStoreKeepsDisk
  <2>7. QED
    BY <1>6, <2>4, <2>5, <2>6
<1>7. CASE Place
  <2>1. /\ step = "place" /\ files' = [files EXCEPT ![content] = "intact"]
        /\ records' = records \cup {content} /\ stored' = stored + FileBytes[content]
        /\ step' = "none" /\ allowed' = 0 /\ temporary' = 0 /\ UNCHANGED leftVars
    BY <1>7 DEF Place, Ends
  <2>2. /\ temporary = FileBytes[content] /\ BytesOf(records') = stored + temporary
        /\ Present' = Present \cup {content} /\ IsFiniteSet(Present') /\ Present' \in SUBSET Hashes
        /\ IsFiniteSet(records') /\ records' \in SUBSET Hashes
    BY <2>1, PlacedFileCounts
  <2>3. BytesOf(Present' \ records') + leftover' <= unremoved'
    <3>1. application /\ BytesOf(Present \ records) + leftover <= unremoved
      BY <1>0, <2>1 DEF DiskInv, NoFileIsUnaccounted
    <3>2. Present' \ records' \in SUBSET (Present \ records)
      BY <2>1, <2>2
    <3>3. Present \ records \in SUBSET Hashes /\ IsFiniteSet(Present \ records)
      <4>1. Present \ records \in SUBSET Present
        OBVIOUS
      <4>2. QED
        BY <1>0, <4>1, FS_Subset
    <3>4. /\ BytesOf(Present' \ records') <= BytesOf(Present \ records)
          /\ BytesOf(Present' \ records') \in Nat /\ BytesOf(Present \ records) \in Nat
      BY <3>2, <3>3, BytesOfContents
    <3>5. QED
      BY <1>0, <2>1, <3>1, <3>4 DEF leftVars
  <2>4. TransferFits'
    BY <2>1 DEF TransferFits
  <2>5. /\ stored' = BytesOf(records')
        /\ stored' + temporary' <= MaximumStoredDownloadedFilesSizeInBytes
    BY <1>0, <2>1, <2>2
  <2>6. leftover' \in Nat /\ unremoved' \in Nat
    BY <1>0, <2>1 DEF leftVars
  <2>7. QED
    BY <1>0, <2>1, <2>2, <2>3, <2>4, <2>5, <2>6, CoveredStoreIsBounded
<1>8. CASE PlaceFails
  <2>1. /\ step = "place" /\ application /\ UNCHANGED <<records, stored>>
        /\ step' = "none" /\ allowed' = 0 /\ temporary' = 0 /\ TransferFits'
    BY <1>0, <1>8 DEF PlaceFails, Refuse, Ends, DropTemporary, storeVars, TransferFits
  <2>2. CASE files' \in {files, [files EXCEPT ![content] = "absent"]} /\ Refuse
    <3>1. LeftoversStayCovered
      BY <2>2, DroppedTemporary DEF Refuse
    <3>2. Present' \subseteq Present
      BY <2>2 DEF Present, IInv, StoreTypes
    <3>3. stored' + temporary' <= MaximumStoredDownloadedFilesSizeInBytes
      BY <1>0, <2>1, DownloadAssumption
    <3>4. QED
      BY <1>0, <2>1, <3>1, <3>2, <3>3, ShrinkingStoreKeepsDisk
  <2>3. CASE /\ RemovalFails(temporary)
             /\ files' = [files EXCEPT ![content] = "intact"] /\ UNCHANGED leftover
    <3>1. /\ IsFiniteSet(Present') /\ Present' \in SUBSET Hashes
          /\ BytesOf(Present' \ records) <= BytesOf(Present \ records) + temporary
          /\ BytesOf(Present' \ records) \in Nat /\ BytesOf(Present \ records) \in Nat
      BY <2>1, <2>3, PlacedFileCounts
    <3>2. unremoved' = unremoved + temporary /\ leftover' = leftover
      BY <2>3 DEF RemovalFails
    <3>3. BytesOf(Present \ records) + leftover <= unremoved
      BY <2>1 DEF DiskInv, NoFileIsUnaccounted
    <3>4. /\ leftover' \in Nat /\ unremoved' \in Nat
          /\ BytesOf(Present' \ records') + leftover' <= unremoved'
      BY <1>0, <2>1, <3>1, <3>2, <3>3
    <3>5. IsFiniteSet(records') /\ records' \in SUBSET Hashes
      BY <2>1 DEF DiskInv, IInv, StoreTypes
    <3>6. stored' = BytesOf(records') /\ stored' + temporary' <= MaximumStoredDownloadedFilesSizeInBytes
      BY <1>0, <2>1, DownloadAssumption
    <3>7. QED
      BY <1>0, <2>1, <3>1, <3>4, <3>5, <3>6, CoveredStoreIsBounded
  <2>4. QED
    BY <1>8, <2>2, <2>3 DEF PlaceFails
<1>9. CASE \E h \in Hashes : DamageFile(h)
  <2>1. PICK h \in Hashes : DamageFile(h)
    BY <1>9
  <2>2. /\ UNCHANGED <<application, step, allowed, content, records, stored, temporary, leftover, unremoved>>
        /\ Present' \subseteq Present
    BY <2>1 DEF DamageFile, storeVars, requestVars, leftVars, Present, IInv, StoreTypes
  <2>3. /\ IsFiniteSet(Present') /\ BytesOf(Present') \in Nat /\ BytesOf(Present') <= BytesOf(Present)
    BY <1>0, <2>2, BytesOfContents
  <2>4. application => BytesOf(Present' \ records') + leftover' <= unremoved'
    <3>1. Present' \ records' \in SUBSET (Present \ records) /\ Present \ records \in SUBSET Present
      BY <2>2
    <3>2. Present \ records \in SUBSET Hashes /\ IsFiniteSet(Present \ records)
      BY <1>0, <3>1, FS_Subset
    <3>3. /\ BytesOf(Present' \ records') <= BytesOf(Present \ records)
          /\ BytesOf(Present' \ records') \in Nat /\ BytesOf(Present \ records) \in Nat
      BY <3>1, <3>2, BytesOfContents
    <3>4. application => BytesOf(Present \ records) + leftover <= unremoved
      BY DEF DiskInv, NoFileIsUnaccounted
    <3>5. QED
      BY <1>0, <2>2, <3>3, <3>4
  <2>5. TransferFits'
    BY <1>0, <2>2 DEF TransferFits
  <2>6. BytesOf(Present') + temporary' + leftover' <= MaximumStoredDownloadedFilesSizeInBytes + unremoved'
    BY <1>0, <2>2, <2>3, DownloadAssumption
  <2>7. QED
    BY <1>0, <2>2, <2>3, <2>4, <2>5, <2>6 DEF DiskInv, NoFileIsUnaccounted, DiskUsageIsBounded
<1>10. CASE StopApplication \/ UNCHANGED downloadVars
  <2>1. /\ UNCHANGED <<step, allowed, content, records, stored, files, temporary, leftover, unremoved>>
        /\ application' => application
    BY <1>10 DEF StopApplication, downloadVars, requestVars, storeVars, leftVars
  <2>2. Present' = Present
    BY <2>1 DEF Present
  <2>3. TransferFits'
    BY <1>0, <2>1 DEF TransferFits
  <2>4. QED
    BY <2>1, <2>2, <2>3 DEF DiskInv, NoFileIsUnaccounted, DiskUsageIsBounded
<1>11. CASE Clear \/ ClearLeavesNoDirectory
  <2>1. /\ records' = {} /\ stored' = 0 /\ step' = "none" /\ allowed' = allowed
        /\ temporary' = 0 /\ leftover' = 0 /\ unremoved' = 0
        /\ files' = [h \in Hashes |-> "absent"]
    <3>1. step = "none" /\ temporary = 0
      BY <1>0, <1>11 DEF Clear, ClearLeavesNoDirectory
    <3>2. QED
      BY <1>11, <3>1 DEF Clear, ClearLeavesNoDirectory, requestVars
  <2>2. Present' = {} /\ Present' \ records' = {}
    BY <2>1 DEF Present
  <2>3. TransferFits'
    BY <2>1 DEF TransferFits
  <2>4. IsFiniteSet({}) /\ BytesOf({}) = 0 /\ {} \in SUBSET Hashes
    BY FS_EmptySet, BytesOfNothing
  <2>5. /\ BytesOf(Present' \ records') + leftover' <= unremoved' /\ stored' = BytesOf(records')
        /\ stored' + temporary' <= MaximumStoredDownloadedFilesSizeInBytes
        /\ leftover' \in Nat /\ unremoved' \in Nat
    BY <2>1, <2>2, <2>4, DownloadAssumption
  <2>6. QED
    BY <1>0, <2>1, <2>2, <2>3, <2>4, <2>5, CoveredStoreIsBounded
<1>12. CASE ClearFails
  <2>1. /\ ~application /\ ~application' /\ step = "none" /\ temporary = 0
        /\ UNCHANGED <<step, allowed, content, records, stored, temporary, unremoved>>
        /\ leftover' \in 0..leftover
    BY <1>0, <1>12 DEF ClearFails, storeVars, requestVars
  <2>2. Present' \in SUBSET Present
    BY <1>12 DEF ClearFails, Present
  <2>3. IsFiniteSet(Present') /\ BytesOf(Present') \in Nat /\ BytesOf(Present') <= BytesOf(Present)
    BY <1>0, <2>2, BytesOfContents
  <2>4. TransferFits'
    BY <2>1 DEF TransferFits
  <2>5. /\ leftover' \in Nat
        /\ BytesOf(Present') + temporary' + leftover' <= MaximumStoredDownloadedFilesSizeInBytes + unremoved'
    BY <1>0, <2>1, <2>3, DownloadAssumption
  <2>6. QED
    BY <1>0, <2>1, <2>3, <2>4, <2>5 DEF DiskInv, NoFileIsUnaccounted, DiskUsageIsBounded
<1>13. CASE Restart
  <2>1. /\ records' = {} /\ stored' = 0 /\ step' = "none" /\ allowed' = 0 /\ temporary' = 0
        /\ ~application' /\ unremoved' = unremoved /\ TransferFits'
    BY <1>13 DEF Restart, Ends, TransferFits
  <2>2. CASE leftover' = leftover + temporary /\ UNCHANGED files
    <3>1. Present' = Present
      BY <2>2 DEF Present
    <3>2. /\ leftover' \in Nat
          /\ BytesOf(Present') + leftover' <= MaximumStoredDownloadedFilesSizeInBytes + unremoved'
      BY <1>0, <2>1, <2>2, <3>1, DownloadAssumption
    <3>3. unremoved' \in Nat /\ allowed' \in 0..MaximumFileSizeInBytes
      BY <1>0, <2>1
    <3>4. IsFiniteSet(Present') /\ Present' \in SUBSET Hashes
      BY <1>0, <3>1
    <3>5. QED
      BY <2>1, <3>2, <3>3, <3>4, IdleStoreIsBounded
  <2>3. CASE step = "place" /\ files' = [files EXCEPT ![content] = "intact"] /\ UNCHANGED leftover
    <3>1. /\ IsFiniteSet(Present') /\ Present' \in SUBSET Hashes
          /\ BytesOf(Present') <= BytesOf(Present) + temporary /\ BytesOf(Present') \in Nat
      BY <2>3, PlacedFileCounts
    <3>2. /\ leftover' \in Nat
          /\ BytesOf(Present') + leftover' <= MaximumStoredDownloadedFilesSizeInBytes + unremoved'
      BY <1>0, <2>1, <2>3, <3>1, DownloadAssumption
    <3>3. unremoved' \in Nat /\ allowed' \in 0..MaximumFileSizeInBytes
      BY <1>0, <2>1
    <3>4. QED
      BY <2>1, <3>1, <3>2, <3>3, IdleStoreIsBounded
  <2>4. QED
    BY <1>13, <2>2, <2>3 DEF Restart
<1>14. QED
  BY <1>2, <1>4, <1>5, <1>6, <1>7, <1>8, <1>9, <1>10, <1>11, <1>12, <1>13 DEF DownloadsNext

\* The counts are right in every reachable state.
LEMMA DiskInvariant == DownloadsSpec => []DiskInv
<1>1. DownloadsInit => DiskInv
  <2> SUFFICES ASSUME DownloadsInit
               PROVE  DiskInv
    OBVIOUS
  <2>1. IsFiniteSet({}) /\ BytesOf({}) = 0
    BY FS_EmptySet, BytesOfNothing
  <2>2. /\ Present = {} /\ records = {} /\ stored = 0 /\ temporary = 0 /\ allowed = 0
        /\ leftover = 0 /\ unremoved = 0 /\ step = "none" /\ Present \ records = {}
    BY DEF DownloadsInit, Present
  <2>3. /\ allowed \in 0..MaximumFileSizeInBytes /\ temporary \in 0..MaximumFileSizeInBytes
        /\ stored \in 0..MaximumStoredDownloadedFilesSizeInBytes
        /\ leftover \in Nat /\ unremoved \in Nat
    BY <2>2, DownloadAssumption
  <2>4. TransferFits
    BY <2>2 DEF TransferFits
  <2>5. IsFiniteSet(records) /\ IsFiniteSet(Present)
    BY <2>1, <2>2
  <2>6. NoFileIsUnaccounted
    BY <2>1, <2>2 DEF NoFileIsUnaccounted
  <2>7. DiskUsageIsBounded
    BY <2>1, <2>2, DownloadAssumption DEF DiskUsageIsBounded
  <2>8. QED
    BY <2>3, <2>4, <2>5, <2>6, <2>7 DEF DiskInv
<1>2. QED
  BY <1>1, InductiveInvariant, StepKeepsDiskInv, PTL DEF DownloadsSpec

\* While an application runs, what the directory holds without a record, final files and
\* temporary ones, is no more than what failed removals left there since it was emptied, and
\* a temporary file is in use only during a transfer.
THEOREM EveryFileIsRecorded == DownloadsSpec => []NoFileIsUnaccounted
<1>1. DiskInv => NoFileIsUnaccounted
  BY DEF DiskInv
<1>2. QED
  BY <1>1, DiskInvariant, PTL

\* The byte count is that of the recorded files and keeps the limit together with the file in
\* transfer; and so does all that the directory holds, what kills left included, but for what
\* failed removals left there.
THEOREM DiskUsageStaysBounded == DownloadsSpec => []DiskUsageIsBounded
<1>1. DiskInv => DiskUsageIsBounded
  BY DEF DiskInv
<1>2. QED
  BY <1>1, DiskInvariant, PTL
=============================================================================
