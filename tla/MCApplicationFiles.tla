--------------------------- MODULE MCApplicationFiles ---------------------------
(***************************************************************************)
(* What an application does with files, for TLC: the pictures it decodes   *)
(* and shows, and the files it downloads.  A behaviour is about the cache  *)
(* of pictures, about one file that is decoded, or about the downloads;    *)
(* these depend on each other in nothing the modules describe.             *)
(*                                                                         *)
(* Three pictures, one of them twice as large as the others, and a cache   *)
(* that holds the large one and a small one; the decoder for the sizes     *)
(* around its limits; and three downloads of such sizes, with room for the *)
(* large one and a small one.                                              *)
(***************************************************************************)
EXTENDS JpegImageLoader, JpegDecoder, HttpFileDownloader

CONSTANTS small1, small2, large, h1, h2, h3

VARIABLE subject

Subjects == {"pictures", "decoder", "downloads"}
allVars  == <<subject, vars, file, request, downloadVars>>

AllPictures == {small1, small2, large}
Sizes == [p \in AllPictures |-> IF p = large THEN 2 ELSE 1]
SmallPictures == Permutations({small1, small2})

ThreeHashes   == {h1, h2, h3}
DownloadSizes == [h \in ThreeHashes |-> IF h = h3 THEN 2 ELSE 1]

\* The factors of libjpeg-turbo 2.1.
TurboFactors ==
  LET F(n, d) == [num |-> n, denom |-> d]
  IN  << F(2, 1), F(15, 8), F(7, 4), F(13, 8), F(3, 2), F(11, 8), F(5, 4), F(9, 8), F(1, 1),
         F(7, 8), F(3, 4), F(5, 8), F(1, 2), F(3, 8), F(1, 4), F(1, 8) >>

File(bytes, width, height, readable) ==
  [bytes |-> bytes, width |-> width, height |-> height, readable |-> readable]
SmallFiles   == {File(1, w, h, TRUE) : w \in {1, 7, 8, 9, 101}, h \in {1, 8, 99}}
LargeFiles   == {File(MaximumCompressedFileSize, w, h, TRUE) : w \in {4096, 8192}, h \in {2730, 2731, 4096}}
RefusedFiles == {File(0, 8, 8, TRUE), File(MaximumCompressedFileSize + 1, 8, 8, TRUE),
                 File(1, 8, 8, FALSE), File(1, 8193, 1, TRUE), File(1, 0, 1, TRUE),
                 File(1, 4096, 4097, TRUE)}
TriedFiles   == SmallFiles \cup LargeFiles \cup RefusedFiles
TriedRequests == [maximumWidth : {0, 1, 51, 2000}, maximumHeight : {0, 12, 2000},
                  scalePercent : {12, 13, 25, 49, 50, 62, 63, 87, 88, 99, 100, 101}]
NoFile       == File(0, 0, 0, FALSE)
NoRequest    == [maximumWidth |-> 0, maximumHeight |-> 0, scalePercent |-> 0]
decoderVars  == <<file, request>>

MCInit ==
  /\ subject \in Subjects
  /\ Init
  /\ IF subject = "decoder" THEN file \in TriedFiles /\ request \in TriedRequests
     ELSE file = NoFile /\ request = NoRequest
  /\ DownloadsInit

MCNext ==
  \/ subject = "pictures" /\ Next /\ UNCHANGED <<subject, decoderVars, downloadVars>>
  \/ subject = "downloads" /\ DownloadsNext /\ UNCHANGED <<subject, vars, decoderVars>>
  \/ subject = "decoder" /\ UNCHANGED allVars

MCSpec == MCInit /\ [][MCNext]_allVars
=============================================================================
