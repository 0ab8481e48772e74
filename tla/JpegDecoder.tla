------------------------------ MODULE JpegDecoder ------------------------------
(***************************************************************************)
(* What ui/libjpeg_turbo_jpeg_image_decoder.cpp decodes: the size it       *)
(* chooses for a file and a request, or that it refuses.  A file is its    *)
(* length, the width and height in its header, and whether libjpeg-turbo   *)
(* can read it to the end; the pixels themselves are left out.             *)
(***************************************************************************)
EXTENDS Naturals, SequencesExt

CONSTANTS
  ScalingFactors,               \* tjGetScalingFactors(), in the order of the library
  MaximumCompressedFileSize,    \* bytes
  MaximumDimension,             \* pixels
  MaximumPixelCount,
  MaximumDecodedPixelBytes,
  MinimumScalePercent, MaximumScalePercent

\* The library has a factor, 1/8 as a rule, that the least percentage allows.
ASSUME DecoderAssumption ==
  /\ ScalingFactors \in Seq([num : Nat, denom : Nat])
  /\ \E factor \in ToSet(ScalingFactors) :
       /\ factor.num > 0 /\ factor.num <= factor.denom
       /\ factor.num * 100 <= factor.denom * MinimumScalePercent
  /\ {MaximumCompressedFileSize, MaximumDimension, MaximumPixelCount, MaximumDecodedPixelBytes,
      MinimumScalePercent, MaximumScalePercent} \subseteq Nat

VARIABLES
  file,       \* the file that decode() is given: its bytes, width, height and if it is readable
  request     \* its JpegDecodeRequest

DecoderTypeOK ==
  /\ file \in [bytes : Nat, width : Nat, height : Nat, readable : BOOLEAN]
  /\ request \in [maximumWidth : Nat, maximumHeight : Nat, scalePercent : Nat]

NoFactor    == [num |-> 0, denom |-> 1]
Refused     == [width |-> 0, height |-> 0]
BytesPerPixel == 3

-----------------------------------------------------------------------------
\* Fault: TJSCALED rounded down.
ScaledDown(pixels, factor) == (pixels * factor.num) \div factor.denom

\* TJSCALED: a part of a pixel is a pixel.
Scaled(pixels, factor) == (pixels * factor.num + factor.denom - 1) \div factor.denom

\* scalingFactorIsAllowed(): 0 is no limit, and nothing is enlarged.
FactorIsAllowed(factor) ==
  /\ factor.num > 0 /\ factor.denom > 0 /\ factor.num <= factor.denom
  /\ request.maximumWidth = 0 \/ Scaled(file.width, factor) <= request.maximumWidth
  /\ request.maximumHeight = 0 \/ Scaled(file.height, factor) <= request.maximumHeight
  /\ factor.num * 100 <= factor.denom * request.scalePercent

IsLarger(a, b) == a.num * b.denom > b.num * a.denom

LargestAllowed ==
  LET allowed == {i \in DOMAIN ScalingFactors : FactorIsAllowed(ScalingFactors[i])}
  IN  {i \in allowed : \A j \in allowed : ~IsLarger(ScalingFactors[j], ScalingFactors[i])}

\* chooseScalingFactor(): the largest allowed factor, the first one of equals.
ChooseScalingFactor ==
  IF LargestAllowed = {} THEN NoFactor ELSE ScalingFactors[Min(LargestAllowed)]

\* readJpegFile() and the checks of the header.
FileIsAccepted ==
  /\ file.bytes \in 1..MaximumCompressedFileSize
  /\ file.width \in 1..MaximumDimension /\ file.height \in 1..MaximumDimension
  /\ file.width * file.height <= MaximumPixelCount

PixelBytesOf(picture) == picture.width * BytesPerPixel * picture.height

\* The picture that a factor makes of the file.
PictureOf(factor) ==
  [width |-> Scaled(file.width, factor), height |-> Scaled(file.height, factor)]

FitsMemory(picture) == PixelBytesOf(picture) <= MaximumDecodedPixelBytes

\* What decode() asks of the percentage, the file and its header, and of libjpeg-turbo.
IsDecodable ==
  /\ request.scalePercent \in MinimumScalePercent..MaximumScalePercent
  /\ FileIsAccepted /\ file.readable

\* decode(): the size of the picture, or Refused for every exception.  The sizes that the
\* code compares with the limits of its integer types cannot reach them.
DecodedPicture ==
  LET factor == ChooseScalingFactor
  IN  IF IsDecodable /\ factor # NoFactor /\ FitsMemory(PictureOf(factor))
      THEN PictureOf(factor) ELSE Refused

-----------------------------------------------------------------------------
(***************************************************************************)
(* Properties.                                                             *)
(***************************************************************************)

\* The largest number of pixels that the percentage of the original can be.
Percent(pixels) == (pixels * request.scalePercent + 99) \div 100

AllowedFactors == {factor \in ToSet(ScalingFactors) : FactorIsAllowed(factor)}

\* No picture that the request allows is wider or higher.
IsLargestPicture(picture) ==
  \A factor \in AllowedFactors :
    /\ PictureOf(factor).width <= picture.width
    /\ PictureOf(factor).height <= picture.height

\* A decoded picture keeps every limit of the request and of the memory, has at least one
\* row and column, and is the largest that the request allows.  A file that can be decoded
\* is refused for two reasons only: no factor brings it within the width or the height of the
\* request, and without those limits there is always one; or the largest picture that the
\* request allows is too large for the memory, even where a smaller one would fit.
DecodedPictureFits ==
  IF DecodedPicture # Refused
  THEN /\ request.maximumWidth # 0 => DecodedPicture.width <= request.maximumWidth
       /\ request.maximumHeight # 0 => DecodedPicture.height <= request.maximumHeight
       /\ DecodedPicture.width \in 1..Percent(file.width)
       /\ DecodedPicture.height \in 1..Percent(file.height)
       /\ FitsMemory(DecodedPicture)
       /\ IsLargestPicture(DecodedPicture)
  ELSE IsDecodable =>
         \/ /\ AllowedFactors = {}
            /\ request.maximumWidth # 0 \/ request.maximumHeight # 0
         \/ \E factor \in AllowedFactors :
              IsLargestPicture(PictureOf(factor)) /\ ~FitsMemory(PictureOf(factor))

\* What ui/internal/ijpeg_image_decoder.h:35 says of decode(): it "decodes the largest JPEG
\* size allowed by the request and safety limits", so a factor that keeps them all gives a
\* lower limit for the size of what is decoded.  The decoder chooses the factor without the
\* limit of the memory and then refuses the file.
LargestSizeIsDecoded ==
  IsDecodable =>
    \A factor \in AllowedFactors : FitsMemory(PictureOf(factor)) =>
      /\ PictureOf(factor).width <= DecodedPicture.width
      /\ PictureOf(factor).height <= DecodedPicture.height
=============================================================================
