-------------------------- MODULE RuntimeProcessProofs --------------------------
(***************************************************************************)
(* Theorems about RuntimeProcess, and about what its parts compute from    *)
(* the data they are given: DisplayDiscovery, ApplicationPackage and       *)
(* InputReadings for every value of their constants, StatusDisplay for     *)
(* whatever the device is called, reads and measures.                      *)
(***************************************************************************)
EXTENDS RuntimeProcess, DisplayDiscovery, ApplicationPackage, InputReadings, StatusDisplay,
        CollectionLemmas

-----------------------------------------------------------------------------
(***************************************************************************)
(* Packages and messages.                                                  *)
(***************************************************************************)

LEMMA SegmentsOf ==
  ASSUME NEW path \in Seq(STRING)
  PROVE  Segments(path) \in Seq(STRING)
<1> DEFINE I == {i \in DOMAIN path : path[i] \notin {"", "."}}
<1>1. DOMAIN path = 1..Len(path)
  BY LenProperties
<1>2. Segments(path) = ElementsAt(path, I) /\ I \in SUBSET (1..Len(path))
  BY <1>1 DEF Segments
<1> HIDE DEF I
<1>3. QED
  BY <1>2, ElementsAtType

LEMMA SegmentIsThere ==
  ASSUME NEW path \in Seq(STRING), NEW i \in 1..Len(path), path[i] \notin {"", "."}
  PROVE  \E n \in 1..Len(Segments(path)) : Segments(path)[n] = path[i]
<1> DEFINE I == {j \in DOMAIN path : path[j] \notin {"", "."}}
<1>1. DOMAIN path = 1..Len(path)
  BY LenProperties
<1>2. Segments(path) = ElementsAt(path, I) /\ I \in SUBSET (1..Len(path)) /\ i \in I
  BY <1>1 DEF Segments
<1> HIDE DEF I
<1>3. \E n \in 1..Len(ElementsAt(path, I)) : ElementsAt(path, I)[n] = path[i]
  BY <1>2, ElementsAtHas
<1>4. QED
  BY <1>2, <1>3

LEMMA LastSegment ==
  ASSUME NEW path \in Seq(STRING), path # << >>, EndsInFile(path)
  PROVE  Last(Segments(path)) = FileName(path)
<1> DEFINE I == {i \in DOMAIN path : path[i] \notin {"", "."}}
<1>0. DOMAIN path = 1..Len(path)
  BY LenProperties
<1>1. Segments(path) = ElementsAt(path, I) /\ I \in SUBSET (1..Len(path))
  BY <1>0 DEF Segments
<1>2. Len(path) \in Nat \ {0}
  BY EmptySeq
<1>3. Len(path) \in I
  <2>1. path[Len(path)] \notin {"", "."}
    BY DEF EndsInFile, Last
  <2>2. Len(path) \in DOMAIN path
    BY <1>0, <1>2
  <2>3. QED
    BY <2>1, <2>2
<1> HIDE DEF I
<1>4. ElementsAt(path, I)[Len(ElementsAt(path, I))] = path[Len(path)]
  BY <1>1, <1>3, ElementsAtLast
<1>5. QED
  BY <1>1, <1>4 DEF Last, FileName

\* What the sender takes for a path in the application's directory is one for the device.
LEMMA EntryIsUnderstood ==
  ASSUME NEW path \in Seq(STRING), path # << >>, EndsInFile(path), ~IsAbsolute(path),
         ".." \notin ToSet(Segments(path)), Segments(path) # << >>,
         Last(Segments(path)) \in PythonFiles
  PROVE  IsSafeRelativePath(path) /\ FileName(path) \in PythonFiles
<1>1. FileName(path) \in PythonFiles
  BY LastSegment
<1>2. ".." \notin ToSet(path)
  <2> SUFFICES ASSUME NEW i \in 1..Len(path), path[i] = ".."
               PROVE  FALSE
    BY LenProperties DEF ToSet
  <2>1. PICK n \in 1..Len(Segments(path)) : Segments(path)[n] = ".."
    <3>1. path[i] \notin {"", "."}
      OBVIOUS
    <3>2. QED
      BY <3>1, SegmentIsThere
  <2>2. Segments(path) \in Seq(STRING)
    BY SegmentsOf
  <2>3. DOMAIN Segments(path) = 1..Len(Segments(path))
    BY <2>2, LenProperties
  <2>4. QED
    BY <2>1, <2>3 DEF ToSet
<1>3. path # <<"">>
  <2>1. path = <<"">> => path[Len(path)] = ""
    <3>1. ASSUME path = <<"">>
          PROVE  Len(path) = 1 /\ path[1] = ""
      BY <3>1
    <3>2. QED
      BY <3>1
  <2>2. path[Len(path)] # ""
    BY <1>1 DEF FileName, Last, PythonFiles
  <2>3. QED
    BY <2>1, <2>2
<1>4. QED
  BY <1>1, <1>2, <1>3 DEF IsSafeRelativePath

LEMMA Base64LengthType ==
  ASSUME NEW bytes \in Nat
  PROVE  Base64Length(bytes) \in Nat
<1>1. (bytes + 2) \div 3 \in Nat
  OBVIOUS
<1>2. QED
  BY <1>1 DEF Base64Length

\* What the sender builds of a package is within the device's limits, and every check of
\* the device accepts it, if its entry point ends in a file.
LEMMA BuiltIsReceived ==
  ASSUME configuration \in Configurations, package \in Packages,
         ConfigurationIsValid, SenderAcceptsMetadata, SenderAcceptsSource,
         Payload.bytes <= MaximumPayload, message = Payload,
         configuration.deviceId = ThisDevice, EndsInFile(package.entry)
  PROVE  IsReceived /\ IsValidMessage(message)
<1>1. /\ package.id \in Identifier /\ package.name \in Name /\ configuration.deviceId \in Identifier
      /\ package.entry \in Seq(STRING) /\ package.entry # << >>
      /\ package.source.base64 /\ package.source.length \in Nat
      /\ {MaximumSourceSize, MaximumPayload, MaximumMqttMessage, Overhead} \subseteq Nat
      /\ MaximumPayload <= MaximumMqttMessage
  BY PackageAssumption
<1>2. Payload.bytes \in 1..MaximumMqttMessage
  <2>1. Payload.bytes = Overhead + configuration.deviceId.length + package.id.length
                          + package.name.escaped + Base64Length(package.source.length)
    BY DEF Payload
  <2>2. /\ configuration.deviceId.length \in Nat /\ package.id.length \in Nat \ {0}
        /\ package.name.escaped \in Nat /\ Overhead \in Nat
    BY <1>1 DEF Identifier, Name, SenderAcceptsMetadata
  <2>3. Base64Length(package.source.length) \in Nat
    BY <1>1, Base64LengthType
  <2>4. ASSUME NEW a \in Nat, NEW b \in Nat, NEW c \in Nat \ {0}, NEW d \in Nat, NEW e \in Nat
        PROVE  a + b + c + d + e \in Nat \ {0}
    OBVIOUS
  <2>5. Payload.bytes \in Nat \ {0}
    BY ONLY <2>1, <2>2, <2>3, <2>4, ZenonT(60)
  <2>6. QED
    BY <1>1, <2>5
<1>3. IsReceived
  BY <1>2 DEF IsReceived
<1>4. IsSafeRelativePath(package.entry) /\ FileName(package.entry) \in PythonFiles
  BY <1>1, EntryIsUnderstood DEF SenderAcceptsMetadata
<1>5. IsValidMetadata(Payload)
  <2>1. Payload.id = package.id /\ Payload.name = package.name /\ Payload.entry = package.entry
    BY DEF Payload
  <2>2. QED
    BY <1>4, <2>1 DEF IsValidMetadata, IsValidApplicationId, SenderAcceptsMetadata
<1>6. IsComplete(Payload) /\ IsSafeTransferId(Payload.transfer)
  BY DEF Payload, IsComplete, IsSafeTransferId, MaximumIdLength
<1>7. Payload.size \in 0..MaximumSourceSize /\ IsValidContent(Payload.content)
  BY <1>1 DEF Payload, IsValidContent, SenderAcceptsSource
<1>8. /\ Payload.type = "install_single_file_application" /\ Payload.encoding = "base64"
      /\ Payload.device = ThisDevice
      /\ Payload.content.length = Payload.size /\ Payload.content.identity = Payload.hash
  BY DEF Payload
<1>9. QED
  BY <1>3, <1>5, <1>6, <1>7, <1>8 DEF IsValidMessage

\* A message of the sender is the payload of a package it accepted, and an application that
\* is there was made, with its files, of the message that is still there.
SentInv ==
  builtBySender =>
    /\ message = Payload /\ Payload.bytes <= MaximumPayload
    /\ ConfigurationIsValid /\ SenderAcceptsMetadata /\ SenderAcceptsSource
InstalledInv ==
  application # NoApplication =>
    /\ IsReceived /\ IsValidMessage(message) /\ message.name \in Name
    /\ application = [id |-> message.id, name |-> message.name,
                      entry |-> Segments(message.entry), source |-> message.content]
    /\ installed = [metadata |-> [id |-> message.id, name |-> message.name, entry |-> message.entry],
                    metadataBytes |-> Overhead + message.id.length + message.name.escaped,
                    file |-> Segments(message.entry), contents |-> message.content]
PackageInv ==
  /\ configuration \in Configurations /\ package \in Packages
  /\ message # NoMessage => message.name \in Name
  /\ SentInv /\ InstalledInv

LEMMA PackageInvInitially == PackageInit => PackageInv
BY DEF PackageInit, PackageInv, SentInv, InstalledInv

LEMMA PackageInvIsKept == PackageInv /\ [PackageNext]_packageVars => PackageInv'
<1> SUFFICES ASSUME PackageInv, [PackageNext]_packageVars
             PROVE  PackageInv'
  OBVIOUS
<1>1. application # NoApplication => message # NoMessage
  BY DEF PackageInv, InstalledInv, IsValidMessage, IsComplete, NoMessage
<1>2. builtBySender => message # NoMessage
  BY DEF PackageInv, SentInv, Payload, NoMessage
<1>3. CASE BuildMessage
  <2>1. package.name \in Name /\ Payload.name = package.name
    BY PackageAssumption DEF PackageInv, Payload
  <2>2. SentInv'
    BY <1>3 DEF BuildMessage, SentInv, Payload, ConfigurationIsValid, SenderAcceptsMetadata,
                SenderAcceptsSource
  <2>3. InstalledInv'
    BY <1>1, <1>3 DEF BuildMessage, InstalledInv
  <2>4. QED
    BY <1>3, <2>1, <2>2, <2>3 DEF BuildMessage, PackageInv
<1>4. CASE OtherPublishes
  <2>1. message'.name \in Name
    BY <1>4, PackageAssumption DEF OtherPublishes
  <2>2. SentInv'
    BY <1>2, <1>4 DEF OtherPublishes, SentInv
  <2>3. InstalledInv'
    BY <1>1, <1>4 DEF OtherPublishes, InstalledInv
  <2>4. QED
    BY <1>4, <2>1, <2>2, <2>3 DEF OtherPublishes, PackageInv
<1>5. CASE Install
  <2>1. SentInv'
    BY <1>5 DEF PackageInv, Install, SentInv, Payload, ConfigurationIsValid,
                SenderAcceptsMetadata, SenderAcceptsSource
  <2>2. IsReceived'
    BY <1>5 DEF Install, IsReceived
  <2>3. IsValidMessage(message)'
    BY <1>5 DEF Install
  <2>4. InstalledInv'
    BY <1>5, <2>2, <2>3 DEF PackageInv, Install, InstalledInv
  <2>5. QED
    BY <1>5, <2>1, <2>4 DEF PackageInv, Install
<1>6. CASE Refuse
  BY <1>6 DEF Refuse, PackageInv, SentInv, InstalledInv
<1>7. CASE UNCHANGED packageVars
  BY <1>7 DEF packageVars, PackageInv, SentInv, InstalledInv, Payload, ConfigurationIsValid,
              SenderAcceptsMetadata, SenderAcceptsSource, IsReceived
<1>8. QED
  BY <1>3, <1>4, <1>5, <1>6, <1>7 DEF PackageNext

LEMMA InstalledIsLoaded ==
  ASSUME PackageInv, application # NoApplication,
         installed.metadataBytes <= MaximumMetadataSize
  PROVE  Loaded(installed) = application
<1>1. /\ IsValidMessage(message) /\ message.name \in Name
      /\ application = [id |-> message.id, name |-> message.name,
                        entry |-> Segments(message.entry), source |-> message.content]
  BY DEF PackageInv, InstalledInv
<1>2. /\ installed.metadata = [id |-> message.id, name |-> message.name, entry |-> message.entry]
      /\ installed.metadataBytes = Overhead + message.id.length + message.name.escaped
      /\ installed.file = Segments(message.entry) /\ installed.contents = message.content
  BY DEF PackageInv, InstalledInv
<1>3. IsValidMetadata(message) /\ IsValidContent(message.content)
  BY <1>1 DEF IsValidMessage
<1>4. installed.metadataBytes \in 1..MaximumMetadataSize
  <2>1. Overhead \in Nat /\ message.name.escaped \in Nat /\ MaximumMetadataSize \in Nat
    BY <1>1, PackageAssumption DEF Name
  <2>2. message.id.length \in 1..MaximumIdLength
    BY <1>3 DEF IsValidMetadata, IsValidApplicationId
  <2>3. QED
    BY <1>2, <2>1, <2>2 DEF MaximumIdLength
<1>5. IsValidMetadata(installed.metadata)
  BY <1>2, <1>3 DEF IsValidMetadata
<1>6. /\ installed.file = Segments(installed.metadata.entry)
      /\ installed.contents.length \in 1..MaximumSourceSize /\ ~installed.contents.hasNul
  BY <1>2, <1>3 DEF IsValidContent
<1>7. /\ installed.metadata.id = message.id /\ installed.metadata.name = message.name
  BY <1>2
<1>8. QED
  BY <1>1, <1>2, <1>4, <1>5, <1>6, <1>7 DEF Loaded

LEMMA PackageInvIsEnough == PackageInv => PackageIsUnderstood
<1> SUFFICES ASSUME PackageInv
             PROVE  PackageIsUnderstood
  OBVIOUS
<1>1. ASSUME builtBySender, configuration.deviceId = ThisDevice, EndsInFile(package.entry)
      PROVE  IsReceived /\ IsValidMessage(message)
  BY <1>1, BuiltIsReceived DEF PackageInv, SentInv
<1>2. ASSUME builtBySender, application # NoApplication
      PROVE  /\ application.id = package.id /\ application.name = package.name
             /\ application.source = package.source /\ application.entry \in package.files
  <2>1. message = Payload /\ Segments(package.entry) \in package.files
    BY <1>2 DEF PackageInv, SentInv, SenderAcceptsSource
  <2>2. /\ application.id = message.id /\ application.name = message.name
        /\ application.source = message.content /\ application.entry = Segments(message.entry)
    BY <1>2 DEF PackageInv, InstalledInv
  <2>3. QED
    BY <2>1, <2>2 DEF Payload
<1>3. ASSUME application # NoApplication
      PROVE  /\ application.source.length \in 1..MaximumSourceSize /\ ~application.source.hasNul
             /\ application.source.identity = message.hash
  <2>1. application.source = message.content /\ IsValidMessage(message)
    BY <1>3 DEF PackageInv, InstalledInv
  <2>2. QED
    BY <2>1 DEF IsValidMessage, IsValidContent
<1>4. ASSUME application # NoApplication, installed.metadataBytes <= MaximumMetadataSize
      PROVE  Loaded(installed) = application
  BY <1>4, InstalledIsLoaded
<1>5. QED
  BY <1>1, <1>2, <1>3, <1>4 DEF PackageIsUnderstood

\* Whatever packages, configurations and foreign messages there are, what the sender builds
\* is accepted by the device and installed with the same names and source, and what was
\* installed is what the loader reads back.  The invariant says of what the message and the
\* files on the device were made, and is kept because a message in use is not replaced.
THEOREM PackagesAreUnderstood ==
  PackageInit /\ [][PackageNext]_packageVars => []PackageIsUnderstood
<1>1. PackageInit => PackageInv
  BY PackageInvInitially
<1>2. PackageInv /\ [PackageNext]_packageVars => PackageInv'
  BY PackageInvIsKept
<1>3. PackageInv => PackageIsUnderstood
  BY PackageInvIsEnough
<1>4. QED
  BY <1>1, <1>2, <1>3, PTL

-----------------------------------------------------------------------------
(***************************************************************************)
(* Readings of a controller.                                               *)
(***************************************************************************)

\* What one axis of the stick is for a value that the gamepad reads.
LEMMA AxisOf ==
  ASSUME NEW raw \in Nat
  PROVE  AxisPosition(raw) = IF raw > MaximumValue THEN 0 ELSE MaximumValue - raw
<1>1. MaximumValue \in Nat
  BY ReadingsAssumption
<1>2. AnalogValue(<<raw \div 256, raw % 256>>) = raw
  <2>1. (raw \div 256) * 256 + (raw % 256) = raw
    OBVIOUS
  <2>2. QED
    BY <2>1 DEF AnalogValue
<1>3. ASSUME NEW a \in Int, NEW b \in Int
      PROVE  /\ Max({a, b}) = IF a >= b THEN a ELSE b
             /\ Min({a, b}) = IF a <= b THEN a ELSE b
  <2>1. \E m \in {a, b} : \A k \in {a, b} : m >= k
    BY <1>3
  <2>2. \E m \in {a, b} : \A k \in {a, b} : m <= k
    BY <1>3
  <2>3. /\ Max({a, b}) \in {a, b} /\ \A k \in {a, b} : Max({a, b}) >= k
    BY <2>1 DEF Max
  <2>4. /\ Min({a, b}) \in {a, b} /\ \A k \in {a, b} : Min({a, b}) <= k
    BY <2>2 DEF Min
  <2>5. QED
    BY <1>3, <2>3, <2>4
<1>4. Min({MaximumValue - raw, MaximumValue}) = MaximumValue - raw
  <2>1. MaximumValue - raw \in Int /\ MaximumValue \in Int /\ MaximumValue - raw <= MaximumValue
    BY <1>1
  <2>2. QED
    BY <1>3, <2>1
<1>5. QED
  <2>1. AxisPosition(raw) = Max({0, MaximumValue - raw})
    BY <1>2, <1>4 DEF AxisPosition, Clamp
  <2>2. MaximumValue - raw \in Int
    BY <1>1
  <2>3. QED
    BY <1>1, <1>3, <2>1, <2>2

LEMMA RestBounds ==
  /\ Min(RestValues) \in RestValues /\ Max(RestValues) \in RestValues
  /\ \A r \in RestValues : r \in Nat /\ Min(RestValues) <= r /\ r <= Max(RestValues)
<1>1. RestValues \in SUBSET Nat /\ RestValues # {} /\ IsFiniteSet(RestValues)
  BY ReadingsAssumption
<1>2. \E i \in RestValues : \A j \in RestValues : i <= j
  BY <1>1, LeastNumber
<1>3. \E i \in RestValues : \A j \in RestValues : i >= j
  BY <1>1, GreatestOfFinite
<1>4. Min(RestValues) \in RestValues /\ \A j \in RestValues : Min(RestValues) <= j
  BY <1>2 DEF Min
<1>5. Max(RestValues) \in RestValues /\ \A j \in RestValues : Max(RestValues) >= j
  BY <1>3 DEF Max
<1>6. \A r \in RestValues : r \in Nat
  BY <1>1
<1>7. QED
  BY <1>4, <1>5, <1>6

\* The mean of numbers is between the least and the greatest of them.
LEMMA MeanBetween ==
  ASSUME NEW values, NEW n \in Nat \ {0}, DOMAIN values = 1..n, Len(values) = n,
         NEW a \in Nat, NEW b \in Nat, \A i \in 1..n : values[i] \in a..b
  PROVE  Mean(values) \in a..b
<1>1. IsFiniteSet(1..n) /\ Cardinality(1..n) = n
  BY FS_Interval
<1>2. SumFunctionOnSet(values, 1..n) \in Nat
  <2>1. \A i \in 1..n : values[i] \in Nat
    OBVIOUS
  <2>2. QED
    BY <1>1, <2>1, SumIsNatural
<1>3. /\ a * n <= SumFunctionOnSet(values, 1..n)
      /\ SumFunctionOnSet(values, 1..n) <= b * n
  BY <1>1, SumBetween
<1>4. ASSUME NEW s \in Nat, a * n <= s, s <= b * n
      PROVE  s \div n \in a..b
  <2>1. /\ s \div n \in Nat /\ n * (s \div n) <= s /\ s < n * (s \div n) + n
    BY QuotientBounds
  <2>2. ASSUME NEW q \in Nat, n * q <= s, s < n * q + n
        PROVE  a <= q /\ q <= b
    <3>1. ASSUME q < a
          PROVE  FALSE
      <4>1. n * (q + 1) <= n * a
        BY <3>1, Products
      <4>2. n * (q + 1) = n * q + n /\ n * a = a * n
        OBVIOUS
      <4>3. n * q \in Nat /\ a * n \in Nat
        OBVIOUS
      <4>4. QED
        BY <1>4, <2>2, <4>1, <4>2, <4>3
    <3>2. ASSUME b < q
          PROVE  FALSE
      <4>1. n * (b + 1) <= n * q
        BY <3>2, Products
      <4>2. n * (b + 1) = b * n + n
        OBVIOUS
      <4>3. n * q \in Nat /\ b * n \in Nat
        OBVIOUS
      <4>4. QED
        BY <1>4, <2>2, <4>1, <4>2, <4>3
    <3>3. QED
      BY <3>1, <3>2
  <2>3. PICK q \in Nat : q = s \div n
    BY <2>1
  <2>4. n * q <= s /\ s < n * q + n
    BY <2>1, <2>3
  <2>5. a <= q /\ q <= b
    BY <2>2, <2>4
  <2>6. QED
    BY <2>3, <2>5
<1>5. QED
  BY <1>2, <1>3, <1>4 DEF Mean

\* Four bytes that are sent are read back as the same bits.
LEMMA BytesAreReadBack ==
  ASSUME NEW bits \in SUBSET (0..31)
  PROVE  DecodeBigEndian(EncodeBigEndian(bits)) = bits
<1> DEFINE bytes == EncodeBigEndian(bits)
<1>1. \A i \in 1..4 : bytes[i] = {b \in 0..7 : 8 * (4 - i) + b \in bits}
  BY DEF EncodeBigEndian
<1>2. DecodeBigEndian(bytes) = UNION {{8 * (4 - i) + b : b \in bytes[i]} : i \in 1..4}
  BY DEF DecodeBigEndian
<1> HIDE DEF bytes
<1>3. ASSUME NEW n \in DecodeBigEndian(bytes)
      PROVE  n \in bits
  BY <1>1, <1>2
<1>4. ASSUME NEW n \in bits
      PROVE  n \in DecodeBigEndian(bytes)
  <2>1. PICK i \in 1..4, b \in 0..7 : n = 8 * (4 - i) + b
    <3>1. n \in 0..31
      OBVIOUS
    <3>2. /\ 4 - (n \div 8) \in 1..4 /\ (n % 8) \in 0..7
          /\ n = 8 * (4 - (4 - (n \div 8))) + (n % 8)
      BY <3>1
    <3>3. QED
      BY <3>2
  <2>2. b \in bytes[i]
    BY <1>1, <2>1
  <2>3. QED
    BY <1>2, <2>1, <2>2
<1>5. QED
  BY <1>3, <1>4 DEF bytes

\* A button is read as pressed when it is held, whatever the unused inputs say.
LEMMA HeldArePressed ==
  ASSUME NEW down \in SUBSET Buttons, NEW others \in SUBSET (0..31)
  PROVE  PressedButtons(LevelBytes(down, others)) = down
<1> DEFINE mapped == {InputNumber[b] : b \in Buttons}
           bits == {InputNumber[b] : b \in Buttons \ down} \cup (others \ mapped)
<1>1. /\ \A b \in Buttons : InputNumber[b] \in 0..31
      /\ \A b, c \in Buttons : InputNumber[b] = InputNumber[c] => b = c
  BY ReadingsAssumption DEF Buttons
<1>2. bits \in SUBSET (0..31)
  BY <1>1
<1>3. LevelBytes(down, others) = EncodeBigEndian(bits)
  BY DEF LevelBytes
<1>4. DecodeBigEndian(LevelBytes(down, others)) = bits
  <2> HIDE DEF bits
  <2>1. QED
    BY <1>2, <1>3, BytesAreReadBack
<1>5. PressedButtons(LevelBytes(down, others)) = {b \in Buttons : InputNumber[b] \notin bits \cap mapped}
  BY <1>4 DEF PressedButtons
<1>6. \A b \in Buttons : InputNumber[b] \in bits \cap mapped <=> b \notin down
  <2> SUFFICES ASSUME NEW b \in Buttons
               PROVE  InputNumber[b] \in bits \cap mapped <=> b \notin down
    OBVIOUS
  <2>1. InputNumber[b] \in mapped
    OBVIOUS
  <2>2. InputNumber[b] \in bits => \E c \in Buttons \ down : InputNumber[b] = InputNumber[c]
    BY <2>1
  <2>3. b \notin down => InputNumber[b] \in bits
    OBVIOUS
  <2>4. QED
    BY <1>1, <2>1, <2>2, <2>3
<1>7. QED
  BY <1>5, <1>6

\* Where one axis says the stick is, for any centre that was measured at rest and any dead
\* zone not smaller than what a stick at rest wobbles.
LEMMA AxisFollowsStick ==
  ASSUME NEW s \in Nat, NEW zone \in Nat, zone >= Max(RestValues) - Min(RestValues),
         NEW c \in AxisPosition(Max(RestValues))..AxisPosition(Min(RestValues)),
         NEW p, p = AxisPosition(s) \/ (p = c /\ s \in RestValues)
  PROVE  /\ p < c - zone => s > Max(RestValues)
         /\ p > c + zone => s < Min(RestValues)
         /\ s = 0 /\ c + zone < MaximumValue => p > c + zone
         /\ s = MaximumValue /\ c - zone > 0 => p < c - zone
<1> DEFINE low == Min(RestValues)
           high == Max(RestValues)
<1>1. /\ low \in Nat /\ high \in Nat /\ low <= high
      /\ s \in RestValues => low <= s /\ s <= high
  BY RestBounds
<1>2. /\ AxisPosition(low) = IF low > MaximumValue THEN 0 ELSE MaximumValue - low
      /\ AxisPosition(high) = IF high > MaximumValue THEN 0 ELSE MaximumValue - high
      /\ AxisPosition(s) = IF s > MaximumValue THEN 0 ELSE MaximumValue - s
  <2> HIDE DEF low, high
  <2>1. QED
    BY <1>1, AxisOf
<1>3. MaximumValue \in Nat /\ zone >= high - low /\ c \in AxisPosition(high)..AxisPosition(low)
  BY ReadingsAssumption
<1> HIDE DEF low, high
<1>4. /\ p < c - zone => s > high
      /\ p > c + zone => s < low
      /\ s = 0 /\ c + zone < MaximumValue => p > c + zone
      /\ s = MaximumValue /\ c - zone > 0 => p < c - zone
  BY <1>1, <1>2, <1>3
<1>5. QED
  BY <1>4 DEF low, high

\* The HAT has no calibration and no noise: its position is that of the keys.  On the gamepad
\* an axis is where the stick was read, or at the centre right after it was measured.
HatInv ==
  board = "hat" =>
    /\ stick \in SUBSET Arrows
    /\ position = [x |-> KeyAxis("left", "right", stick), y |-> KeyAxis("down", "up", stick)]
    /\ centre = [x |-> Middle, y |-> Middle] /\ deadZone = DefaultDeadZone
AxisInv(axis) ==
  /\ stick[axis] \in Nat
  /\ calibrated => centre[axis] \in AxisPosition(Max(RestValues))..AxisPosition(Min(RestValues))
  /\ \/ position[axis] = AxisPosition(stick[axis])
     \/ position[axis] = centre[axis] /\ (calibrated => stick[axis] \in RestValues)
ReadingsInv ==
  /\ board \in {"gamepad", "hat"} /\ pressed = held /\ deadZone \in Nat
  /\ HatInv
  /\ board = "gamepad" => AxisInv("x") /\ AxisInv("y")

LEMMA ReadingsInvInitially == ReadingsInit => ReadingsInv
<1> SUFFICES ASSUME ReadingsInit
             PROVE  ReadingsInv
  OBVIOUS
<1>1. HatInv
  BY DEF ReadingsInit, HatInv, KeyAxis
<1>2. MaximumValue - Middle \in Nat
  BY ReadingsAssumption DEF Middle, DefaultDeadZone
<1>3. ASSUME board = "gamepad"
      PROVE  AxisInv("x") /\ AxisInv("y")
  BY <1>2, <1>3 DEF ReadingsInit, AxisInv, Untouched
<1>4. QED
  BY <1>1, <1>3 DEF ReadingsInit, ReadingsInv, DefaultDeadZone

LEMMA CalibrationKeepsAxis ==
  ASSUME NEW samples \in SampleRuns, NEW axis \in {"x", "y"}
  PROVE  /\ Last(samples)[axis] \in Nat
         /\ (\A i \in DOMAIN samples : Range(samples[i]) \subseteq RestValues) =>
              /\ Last(samples)[axis] \in RestValues
              /\ Mean([i \in DOMAIN samples |-> AxisPosition(samples[i][axis])])
                   \in AxisPosition(Max(RestValues))..AxisPosition(Min(RestValues))
<1>1. samples \in Seq([{"x", "y"} -> RawValues]) /\ samples # << >> /\ RawValues \subseteq Nat
  BY ReadingsAssumption
<1> DEFINE n == Len(samples)
<1>2. n \in Nat \ {0} /\ DOMAIN samples = 1..n
  BY <1>1, EmptySeq, LenProperties
<1>3. \A i \in 1..n : samples[i] \in [{"x", "y"} -> RawValues]
  BY <1>1, <1>2, ElementOfSeq
<1> HIDE DEF n
<1>4. \A i \in 1..n : samples[i][axis] \in Nat /\ samples[i][axis] \in Range(samples[i])
  BY <1>1, <1>3 DEF Range
<1>5. Last(samples)[axis] \in Nat
  BY <1>2, <1>4 DEF Last, n
<1>6. ASSUME \A i \in DOMAIN samples : Range(samples[i]) \subseteq RestValues
      PROVE  /\ Last(samples)[axis] \in RestValues
             /\ Mean([i \in DOMAIN samples |-> AxisPosition(samples[i][axis])])
                  \in AxisPosition(Max(RestValues))..AxisPosition(Min(RestValues))
  <2>1. \A i \in 1..n : samples[i][axis] \in RestValues
    BY <1>2, <1>4, <1>6
  <2>2. Last(samples)[axis] \in RestValues
    BY <1>2, <2>1 DEF Last, n
  <2> DEFINE values == [i \in DOMAIN samples |-> AxisPosition(samples[i][axis])]
             a == AxisPosition(Max(RestValues))
             b == AxisPosition(Min(RestValues))
  <2>3. a \in Nat /\ b \in Nat
    <3>1. Min(RestValues) \in Nat /\ Max(RestValues) \in Nat /\ MaximumValue \in Nat
      BY RestBounds, ReadingsAssumption
    <3>2. QED
      BY <3>1, AxisOf
  <2>4. \A i \in 1..n : values[i] \in a..b
    <3> SUFFICES ASSUME NEW i \in 1..n
                 PROVE  values[i] \in a..b
      OBVIOUS
    <3>1. values[i] = AxisPosition(samples[i][axis])
      BY <1>2
    <3> DEFINE r == samples[i][axis]
    <3>2. /\ r \in Nat /\ Min(RestValues) <= r /\ r <= Max(RestValues)
          /\ Min(RestValues) \in Nat /\ Max(RestValues) \in Nat /\ MaximumValue \in Nat
      BY <2>1, RestBounds, ReadingsAssumption
    <3> HIDE DEF r, values
    <3>3. AxisPosition(r) \in a..b
      BY <3>2, AxisOf
    <3>4. QED
      BY <3>1, <3>3 DEF r
  <2>5. DOMAIN values = 1..n /\ Len(values) = n
    <3>1. values = [i \in 1..n |-> AxisPosition(samples[i][axis])]
      BY <1>2
    <3> HIDE DEF values
    <3>2. QED
      BY <1>2, <3>1
  <2> HIDE DEF values, a, b
  <2>6. Mean(values) \in a..b
    BY <1>2, <2>3, <2>4, <2>5, MeanBetween
  <2>7. QED
    BY <2>2, <2>6 DEF values, a, b
<1>7. QED
  BY <1>5, <1>6

LEMMA ReadingsInvIsKept == ReadingsInv /\ [ReadingsNext]_readingVars => ReadingsInv'
<1> SUFFICES ASSUME ReadingsInv, [ReadingsNext]_readingVars
             PROVE  ReadingsInv'
  OBVIOUS
<1>1. CASE RefreshGamepad
  <2>1. PICK x \in RawValues, y \in RawValues, down \in Grips, others \in {{}, 0..31} :
          /\ pressed' = PressedButtons(LevelBytes(down, others)) /\ held' = down
          /\ stick' = [x |-> x, y |-> y] /\ position' = StickPosition(stick')
    BY <1>1 DEF RefreshGamepad
  <2>2. pressed' = held'
    <3>1. down \in SUBSET Buttons /\ others \in SUBSET (0..31)
      BY ReadingsAssumption DEF Buttons
    <3>2. QED
      BY <2>1, <3>1, HeldArePressed
  <2>3. x \in Nat /\ y \in Nat
    BY ReadingsAssumption
  <2>4. /\ stick'["x"] = x /\ stick'["y"] = y
        /\ position'["x"] = AxisPosition(x) /\ position'["y"] = AxisPosition(y)
    BY <2>1 DEF StickPosition
  <2>5. AxisInv("x")' /\ AxisInv("y")'
    BY <1>1, <2>3, <2>4 DEF RefreshGamepad, ReadingsInv, AxisInv
  <2>6. QED
    BY <1>1, <2>2, <2>5 DEF RefreshGamepad, ReadingsInv, HatInv
<1>2. CASE CalibrateJoystick
  <2>1. PICK samples \in SampleRuns, zone \in DeadZones \cap (0..MaximumValue) :
          /\ centre' = [axis \in {"x", "y"} |->
                          Mean([i \in DOMAIN samples |-> AxisPosition(samples[i][axis])])]
          /\ deadZone' = zone /\ position' = centre' /\ stick' = Last(samples)
          /\ calibrated' = \A i \in DOMAIN samples : Range(samples[i]) \subseteq RestValues
    BY <1>2 DEF CalibrateJoystick
  <2>2. deadZone' \in Nat
    BY <2>1, ReadingsAssumption
  <2>3. ASSUME NEW axis \in {"x", "y"}
        PROVE  AxisInv(axis)'
    <3>1. /\ stick'[axis] \in Nat
          /\ calibrated' => stick'[axis] \in RestValues
          /\ calibrated' =>
               centre'[axis] \in AxisPosition(Max(RestValues))..AxisPosition(Min(RestValues))
      BY <2>1, CalibrationKeepsAxis
    <3>2. position'[axis] = centre'[axis]
      BY <2>1
    <3>3. QED
      BY <3>1, <3>2 DEF AxisInv
  <2>4. QED
    BY <1>2, <2>2, <2>3 DEF CalibrateJoystick, ReadingsInv, HatInv
<1>3. CASE RefreshHat
  <2>1. PICK down \in SUBSET (Arrows \cup Keys) :
          /\ position' = [x |-> KeyAxis("left", "right", down), y |-> KeyAxis("down", "up", down)]
          /\ pressed' = down \cap Keys /\ held' = down \cap Keys /\ stick' = down \cap Arrows
    BY <1>3 DEF RefreshHat
  <2>2. /\ KeyAxis("left", "right", down) = KeyAxis("left", "right", stick')
        /\ KeyAxis("down", "up", down) = KeyAxis("down", "up", stick')
    BY <2>1 DEF KeyAxis, Arrows
  <2>3. HatInv'
    BY <1>3, <2>1, <2>2 DEF RefreshHat, ReadingsInv, HatInv
  <2>4. QED
    BY <1>3, <2>1, <2>3 DEF RefreshHat, ReadingsInv
<1>4. CASE UNCHANGED readingVars
  BY <1>4 DEF readingVars, ReadingsInv, HatInv, AxisInv
<1>5. QED
  BY <1>1, <1>2, <1>3, <1>4 DEF ReadingsNext

LEMMA ReadingsInvIsEnough == ReadingsInv => ReadingsFollowHand
<1> SUFFICES ASSUME ReadingsInv
             PROVE  ReadingsFollowHand
  OBVIOUS
<1>1. ASSUME board = "hat"
      PROVE  Direction = {d \in stick : Opposite[d] \notin stick}
  <2>1. /\ stick \in SUBSET Arrows
        /\ position.x = KeyAxis("left", "right", stick) /\ position.y = KeyAxis("down", "up", stick)
        /\ centre.x = Middle /\ centre.y = Middle /\ deadZone = DefaultDeadZone
    BY <1>1 DEF ReadingsInv, HatInv
  <2>2. ASSUME NEW low, NEW high
        PROVE  /\ KeyAxis(low, high, stick) < Middle - DefaultDeadZone <=>
                    low \in stick /\ high \notin stick
               /\ KeyAxis(low, high, stick) > Middle + DefaultDeadZone <=>
                    high \in stick /\ low \notin stick
    BY ReadingsAssumption DEF KeyAxis, Middle, DefaultDeadZone
  <2>3. /\ "left" \in Direction <=> "left" \in stick /\ "right" \notin stick
        /\ "right" \in Direction <=> "right" \in stick /\ "left" \notin stick
        /\ "down" \in Direction <=> "down" \in stick /\ "up" \notin stick
        /\ "up" \in Direction <=> "up" \in stick /\ "down" \notin stick
    BY <2>1, <2>2 DEF Direction, Arrows
  <2>4. /\ Opposite["left"] = "right" /\ Opposite["right"] = "left"
        /\ Opposite["down"] = "up" /\ Opposite["up"] = "down"
    BY DEF Opposite
  <2>5. Direction \subseteq Arrows
    BY DEF Direction
  <2>6. QED
    BY <2>1, <2>3, <2>4, <2>5 DEF Arrows
<1>2. ASSUME board # "hat", calibrated, deadZone >= Max(RestValues) - Min(RestValues)
      PROVE  /\ Direction \subseteq Pushed
             /\ stick.x = 0 /\ centre.x + deadZone < MaximumValue => "right" \in Direction
             /\ stick.y = MaximumValue /\ centre.y - deadZone > 0 => "down" \in Direction
  <2>1. deadZone \in Nat /\ AxisInv("x") /\ AxisInv("y")
    BY <1>2 DEF ReadingsInv
  <2>2. /\ position.x < centre.x - deadZone => stick.x > Max(RestValues)
        /\ position.x > centre.x + deadZone => stick.x < Min(RestValues)
        /\ stick.x = 0 /\ centre.x + deadZone < MaximumValue => position.x > centre.x + deadZone
    <3>1. /\ stick.x \in Nat
          /\ centre.x \in AxisPosition(Max(RestValues))..AxisPosition(Min(RestValues))
          /\ position.x = AxisPosition(stick.x) \/ (position.x = centre.x /\ stick.x \in RestValues)
      BY <1>2, <2>1 DEF AxisInv
    <3>2. QED
      BY <1>2, <2>1, <3>1, AxisFollowsStick
  <2>3. /\ position.y < centre.y - deadZone => stick.y > Max(RestValues)
        /\ position.y > centre.y + deadZone => stick.y < Min(RestValues)
        /\ stick.y = MaximumValue /\ centre.y - deadZone > 0 => position.y < centre.y - deadZone
    <3>1. /\ stick.y \in Nat
          /\ centre.y \in AxisPosition(Max(RestValues))..AxisPosition(Min(RestValues))
          /\ position.y = AxisPosition(stick.y) \/ (position.y = centre.y /\ stick.y \in RestValues)
      BY <1>2, <2>1 DEF AxisInv
    <3>2. QED
      BY <1>2, <2>1, <3>1, AxisFollowsStick
  <2>4. /\ "left" \in Direction <=> position.x < centre.x - deadZone
        /\ "right" \in Direction <=> position.x > centre.x + deadZone
        /\ "down" \in Direction <=> position.y < centre.y - deadZone
        /\ "up" \in Direction <=> position.y > centre.y + deadZone
    BY DEF Direction, Arrows
  <2>5. /\ "left" \in Pushed <=> stick.x > Max(RestValues)
        /\ "right" \in Pushed <=> stick.x < Min(RestValues)
        /\ "down" \in Pushed <=> stick.y > Max(RestValues)
        /\ "up" \in Pushed <=> stick.y < Min(RestValues)
    BY DEF Pushed, Arrows
  <2>6. Direction \subseteq {"left", "right", "down", "up"}
    BY DEF Direction, Arrows
  <2>7. QED
    BY <2>2, <2>3, <2>4, <2>5, <2>6
<1>3. QED
  BY <1>1, <1>2 DEF ReadingsFollowHand, ReadingsInv

\* For any wiring without shared inputs, any range of the stick, any noise at rest and any
\* samples: what a program reads follows the hand.  The invariant keeps, of each axis, that
\* the position is either what the stick says or the centre just measured, and that a
\* centre measured at rest is between the positions of the extreme resting values.
THEOREM ReadingsFollow ==
  ReadingsInit /\ [][ReadingsNext]_readingVars => []ReadingsFollowHand
<1>1. ReadingsInit => ReadingsInv
  BY ReadingsInvInitially
<1>2. ReadingsInv /\ [ReadingsNext]_readingVars => ReadingsInv'
  BY ReadingsInvIsKept
<1>3. ReadingsInv => ReadingsFollowHand
  BY ReadingsInvIsEnough
<1>4. QED
  BY <1>1, <1>2, <1>3, PTL

-----------------------------------------------------------------------------
(***************************************************************************)
(* The life of the process.                                                *)
(***************************************************************************)

\* What libmosquitto holds at each stage, and that only the service holds it.
ReceiverInv ==
  /\ loop <=> networkThread # "absent"
  /\ loop => client
  /\ client => library
  /\ stage \notin StartSteps \cup StopSteps => (library => loop)
  /\ stage \in StartSteps => ~loop
  /\ stage \in StartUp \cup {"initializeLibrary"} => ~library
  /\ stage = "createClient" => library /\ ~client
  /\ stage \in {"configureClient", "connect", "startLoop"} => client
  /\ stage = "destroyClient" => ~loop
  /\ stage = "cleanupLibrary" => ~client
  /\ library => "deploymentService" \in objects \/ stage \in StopSteps

\* The parts that main() has made when it gets to a stage.
PythonParts == {"screenManager", "fileDownloader", "pythonManager"}
IsRunning   == stage \in StartSteps \cup MainLoop \/ (stage \in StopSteps /\ resume = "checking")
PartsInv ==
  /\ ~handlers => /\ stage \in {"config", "oled", "displays", "signals", "unwind", "ended", "killed"}
                  /\ objects \subseteq {"statusDisplay"}
  /\ stage \in {"downloader", "manager"} => "screenManager" \in objects
  /\ stage = "manager" => "fileDownloader" \in objects
  /\ stage \in {"defaultApplication", "service"} => PythonParts \subseteq objects
  /\ IsRunning => PythonParts \cup {"deploymentService"} \subseteq objects
  /\ stage = "ended" => objects = {}

ProcessInv ==
  /\ TypeOK /\ ReceiverInv /\ PartsInv
  /\ UsersFindTheirObjects /\ OledIsNotLeftLit

LEMMA ProcessInvInitially == Init => ProcessInv
BY DEF Init, ProcessInv, TypeOK, ReceiverInv, PartsInv, PythonParts, IsRunning, UsersFindTheirObjects,
       OledIsNotLeftLit, Stages, StartUp, StartSteps, StopSteps, MainLoop

LEMMA StartUpKeepsInv == ProcessInv /\ StartUpStep => ProcessInv'
<1> SUFFICES ASSUME ProcessInv, StartUpStep
             PROVE  ProcessInv'
  OBVIOUS
<1> USE DEF ProcessInv, TypeOK, ReceiverInv, PartsInv, PythonParts, IsRunning, UsersFindTheirObjects,
            OledIsNotLeftLit, Stages, StartUp, StartSteps, StopSteps, MainLoop, ShutDown, Parts,
            At, Goes, Throws, receiverVars, oledVars, pythonVars, signalVars
<1>1. CASE LoadConfig
  BY <1>1 DEF LoadConfig
<1>2. CASE OpenStatusDisplay
  <2>1. TypeOK'
    BY <1>2, ZenonT(60) DEF OpenStatusDisplay, Make
  <2>2. ReceiverInv'
    BY <1>2 DEF OpenStatusDisplay, Make
  <2>3. PartsInv'
    BY <1>2 DEF OpenStatusDisplay, Make
  <2>4. UsersFindTheirObjects'
    BY <1>2 DEF OpenStatusDisplay, Make
  <2>5. OledIsNotLeftLit'
    <3>1. \/ "statusDisplay" \in objects'
          \/ lit' = lit /\ oledSilent' = oledSilent /\ objects' = objects
          \/ oledSilent' = TRUE
      BY <1>2 DEF OpenStatusDisplay, Make
    <3>2. stage # "killed"
      BY <1>2 DEF OpenStatusDisplay
    <3>3. QED
      BY <3>1, <3>2 DEF OledIsNotLeftLit
  <2>6. QED
    BY <2>1, <2>2, <2>3, <2>4, <2>5
<1>3. CASE ChooseDisplay
  BY <1>3 DEF ChooseDisplay, Required
<1>4. CASE InstallHandlers
  BY <1>4 DEF InstallHandlers
<1>5. CASE LoadDefaultApplication
  BY <1>5 DEF LoadDefaultApplication, Required
<1>6. CASE StartScreen
  BY <1>6 DEF StartScreen, Make
<1>7. CASE MakeDownloader
  <2>1. TypeOK'
    BY <1>7, ZenonT(60) DEF MakeDownloader, MakePart, Make
  <2>2. ReceiverInv'
    BY <1>7 DEF MakeDownloader, MakePart, Make
  <2>3. PartsInv'
    BY <1>7 DEF MakeDownloader, MakePart, Make
  <2>4. UsersFindTheirObjects'
    BY <1>7 DEF MakeDownloader, MakePart, Make
  <2>5. OledIsNotLeftLit'
    BY <1>7 DEF MakeDownloader, MakePart, Make
  <2>6. QED
    BY <2>1, <2>2, <2>3, <2>4, <2>5
<1>8. CASE MakeManager
  BY <1>8 DEF MakeManager, Make
<1>9. CASE MakeService
  <2>1. TypeOK'
    BY <1>9, ZenonT(60) DEF MakeService, MakePart, Make
  <2>2. ReceiverInv'
    BY <1>9 DEF MakeService, MakePart, Make
  <2>3. PartsInv'
    BY <1>9 DEF MakeService, MakePart, Make
  <2>4. UsersFindTheirObjects'
    BY <1>9 DEF MakeService, MakePart, Make
  <2>5. OledIsNotLeftLit'
    BY <1>9 DEF MakeService, MakePart, Make
  <2>6. QED
    BY <2>1, <2>2, <2>3, <2>4, <2>5
<1>10. QED
  BY <1>1, <1>2, <1>3, <1>4, <1>5, <1>6, <1>7, <1>8, <1>9 DEF StartUpStep

LEMMA StartReceiverKeepsInv == ProcessInv /\ StartReceiverStep => ProcessInv'
<1> SUFFICES ASSUME ProcessInv, StartReceiverStep
             PROVE  ProcessInv'
  OBVIOUS
<1> USE DEF ProcessInv, TypeOK, ReceiverInv, PartsInv, PythonParts, IsRunning, UsersFindTheirObjects,
            OledIsNotLeftLit, Stages, StartUp, StartSteps, StopSteps, MainLoop, ShutDown, Parts,
            At, Goes, Throws, receiverVars, oledVars, pythonVars, signalVars
<1>1. CASE InitializeLibrary
  <2>1. TypeOK'
    BY <1>1, ZenonT(60) DEF InitializeLibrary
  <2>2. ReceiverInv'
    BY <1>1 DEF InitializeLibrary
  <2>3. PartsInv'
    BY <1>1 DEF InitializeLibrary
  <2>4. UsersFindTheirObjects'
    BY <1>1 DEF InitializeLibrary
  <2>5. OledIsNotLeftLit'
    BY <1>1 DEF InitializeLibrary
  <2>6. QED
    BY <2>1, <2>2, <2>3, <2>4, <2>5
<1>2. CASE CreateClient
  BY <1>2 DEF CreateClient, StartStep, StopReceiver
<1>3. CASE ConfigureClient
  BY <1>3 DEF ConfigureClient, StartStep, StopReceiver
<1>4. CASE Connect
  BY <1>4 DEF Connect, StartStep, StopReceiver
<1>5. CASE StartNetworkLoop
  BY <1>5 DEF StartNetworkLoop, StartStep, StopReceiver
<1>6. QED
  BY <1>1, <1>2, <1>3, <1>4, <1>5 DEF StartReceiverStep

LEMMA StopReceiverKeepsInv == ProcessInv /\ StopReceiverStep => ProcessInv'
<1> SUFFICES ASSUME ProcessInv, StopReceiverStep
             PROVE  ProcessInv'
  OBVIOUS
<1> USE DEF ProcessInv, TypeOK, ReceiverInv, PartsInv, PythonParts, IsRunning, UsersFindTheirObjects,
            OledIsNotLeftLit, Stages, StartUp, StartSteps, StopSteps, MainLoop, ShutDown, Parts,
            At, Goes, Throws, receiverVars, oledVars, pythonVars, signalVars
<1>1. CASE StopNetworkLoop
  BY <1>1 DEF StopNetworkLoop, StopStepUnchanged
<1>2. CASE DestroyClient
  BY <1>2, ZenonT(60) DEF DestroyClient, StopStepUnchanged
<1>3. CASE CleanupLibrary
  BY <1>3, ZenonT(60) DEF CleanupLibrary, StopStepUnchanged
<1>4. QED
  BY <1>1, <1>2, <1>3 DEF StopReceiverStep

LEMMA LoopKeepsInv == ProcessInv /\ LoopStep => ProcessInv'
<1> SUFFICES ASSUME ProcessInv, LoopStep
             PROVE  ProcessInv'
  OBVIOUS
<1> USE DEF ProcessInv, TypeOK, ReceiverInv, PartsInv, PythonParts, IsRunning, UsersFindTheirObjects,
            OledIsNotLeftLit, Stages, StartUp, StartSteps, StopSteps, MainLoop, ShutDown, Parts,
            At, Goes, Throws, receiverVars, oledVars, pythonVars, signalVars
<1>1. CASE CheckLoop
  BY <1>1 DEF CheckLoop, LoopUnchanged
<1>2. CASE WaitForMessage
  <2>1. TypeOK'
    <3>1. /\ stage' \in Stages /\ resume' \in {"checking", "stopManager", "unwind"}
          /\ objects' \subseteq Parts /\ exitCode' \in {0, 1}
      BY <1>2 DEF WaitForMessage
    <3>2. /\ networkThread' \in {"absent", "idle", "inHandler"}
          /\ renderer' \in {"absent", "running", "failed"}
      BY <1>2 DEF WaitForMessage
    <3>3. /\ handlers' \in BOOLEAN /\ shutdownRequested' \in BOOLEAN
          /\ library' \in BOOLEAN /\ client' \in BOOLEAN /\ loop' \in BOOLEAN
      BY <1>2 DEF WaitForMessage
    <3>4. /\ lit' \in BOOLEAN /\ oledSilent' \in BOOLEAN
          /\ interpreter' \in BOOLEAN /\ playing' \in BOOLEAN
      BY <1>2 DEF WaitForMessage
    <3>5. QED
      BY <3>1, <3>2, <3>3, <3>4
  <2>2. ReceiverInv'
    BY <1>2 DEF WaitForMessage
  <2>3. PartsInv'
    BY <1>2 DEF WaitForMessage
  <2>4. UsersFindTheirObjects'
    BY <1>2 DEF WaitForMessage
  <2>5. OledIsNotLeftLit'
    BY <1>2 DEF WaitForMessage
  <2>6. QED
    BY <2>1, <2>2, <2>3, <2>4, <2>5
<1>3. CASE ShowStatus
  <2>1. TypeOK'
    BY <1>3, ZenonT(60) DEF ShowStatus, DropStatusDisplay, LoopUnchanged
  <2>2. ReceiverInv'
    BY <1>3 DEF ShowStatus, DropStatusDisplay, LoopUnchanged
  <2>3. PartsInv'
    BY <1>3 DEF ShowStatus, DropStatusDisplay, LoopUnchanged
  <2>4. UsersFindTheirObjects'
    BY <1>3 DEF ShowStatus, DropStatusDisplay, LoopUnchanged
  <2>5. OledIsNotLeftLit'
    <3>1. \/ lit' = lit /\ oledSilent' = oledSilent /\ objects' = objects
          \/ lit' = FALSE
          \/ oledSilent' = TRUE
      BY <1>3 DEF ShowStatus, DropStatusDisplay
    <3>2. stage # "killed"
      BY <1>3 DEF ShowStatus
    <3>3. QED
      BY <3>1, <3>2 DEF OledIsNotLeftLit
  <2>6. QED
    BY <2>1, <2>2, <2>3, <2>4, <2>5
<1>4. QED
  BY <1>1, <1>2, <1>3 DEF LoopStep

LEMMA ShutDownKeepsInv == ProcessInv /\ ShutDownStep => ProcessInv'
<1> SUFFICES ASSUME ProcessInv, ShutDownStep
             PROVE  ProcessInv'
  OBVIOUS
<1> USE DEF ProcessInv, TypeOK, ReceiverInv, PartsInv, PythonParts, IsRunning, UsersFindTheirObjects,
            OledIsNotLeftLit, Stages, StartUp, StartSteps, StopSteps, MainLoop, ShutDown, Parts,
            At, Goes, Throws, receiverVars, oledVars, pythonVars, signalVars
<1>1. CASE SwitchOledOff
  BY <1>1, ZenonT(60) DEF SwitchOledOff, DropStatusDisplay, StopReceiver
<1>2. CASE StopManager
  BY <1>2, ZenonT(60) DEF StopManager
<1>3. CASE StopScreen
  BY <1>3 DEF StopScreen
<1>4. CASE \E part \in Parts : DestroyPart(part)
  <2>1. TypeOK'
    <3>1. /\ stage' \in Stages /\ resume' \in {"checking", "stopManager", "unwind"}
          /\ objects' \subseteq Parts /\ exitCode' \in {0, 1}
      BY <1>4 DEF DestroyPart, DropStatusDisplay, StopReceiver
    <3>2. /\ networkThread' \in {"absent", "idle", "inHandler"}
          /\ renderer' \in {"absent", "running", "failed"}
      BY <1>4 DEF DestroyPart, DropStatusDisplay, StopReceiver
    <3>3. /\ handlers' \in BOOLEAN /\ shutdownRequested' \in BOOLEAN
          /\ library' \in BOOLEAN /\ client' \in BOOLEAN /\ loop' \in BOOLEAN
      BY <1>4 DEF DestroyPart, DropStatusDisplay, StopReceiver
    <3>4. /\ lit' \in BOOLEAN /\ oledSilent' \in BOOLEAN
          /\ interpreter' \in BOOLEAN /\ playing' \in BOOLEAN
      BY <1>4 DEF DestroyPart, DropStatusDisplay, StopReceiver
    <3>5. QED
      BY <3>1, <3>2, <3>3, <3>4
  <2>2. ReceiverInv'
    BY <1>4 DEF DestroyPart, DropStatusDisplay, StopReceiver, Youngest, Age
  <2>3. PartsInv'
    <3>1. stage = "unwind" /\ (stage' = "unwind" \/ (stage' = "stopLoop" /\ resume' = "unwind"))
      BY <1>4 DEF DestroyPart, StopReceiver
    <3>2. objects' \subseteq objects /\ handlers' = handlers
      BY <1>4 DEF DestroyPart, DropStatusDisplay
    <3>3. ~handlers => objects' \subseteq {"statusDisplay"} /\ stage' = "unwind"
      <4>1. ~handlers => objects \subseteq {"statusDisplay"}
        OBVIOUS
      <4>2. "deploymentService" \notin objects => stage' = "unwind"
        BY <1>4, <3>1 DEF DestroyPart, Youngest
      <4>3. QED
        BY <3>2, <4>1, <4>2
    <3>4. QED
      BY <3>1, <3>2, <3>3
  <2>4. UsersFindTheirObjects'
    BY <1>4 DEF DestroyPart, DropStatusDisplay, StopReceiver, Youngest, Age
  <2>5. OledIsNotLeftLit'
    BY <1>4 DEF DestroyPart, DropStatusDisplay, StopReceiver, Youngest, Age
  <2>6. QED
    BY <2>1, <2>2, <2>3, <2>4, <2>5
<1>5. CASE End
  BY <1>5 DEF End
<1>6. QED
  BY <1>1, <1>2, <1>3, <1>4, <1>5 DEF ShutDownStep

LEMMA OthersKeepInv == ProcessInv /\ (\/ PythonReturns \/ ApplicationStarts \/ PlayVideo \/ ReleaseDisplay \/ RenderThreadFails \/ HandlerRuns \/ SignalArrives) => ProcessInv'
<1> SUFFICES ASSUME ProcessInv, (\/ PythonReturns \/ ApplicationStarts \/ PlayVideo \/ ReleaseDisplay \/ RenderThreadFails \/ HandlerRuns \/ SignalArrives)
             PROVE  ProcessInv'
  OBVIOUS
<1> USE DEF ProcessInv, TypeOK, ReceiverInv, PartsInv, PythonParts, IsRunning, UsersFindTheirObjects,
            OledIsNotLeftLit, Stages, StartUp, StartSteps, StopSteps, MainLoop, ShutDown, Parts,
            At, Goes, Throws, receiverVars, oledVars, pythonVars, signalVars
<1>1. CASE PythonReturns
  <2>1. TypeOK'
    <3>1. /\ stage' \in Stages /\ resume' \in {"checking", "stopManager", "unwind"}
          /\ objects' \subseteq Parts /\ exitCode' \in {0, 1}
      BY <1>1 DEF PythonReturns, PythonUnchanged, PythonRuns
    <3>2. /\ networkThread' \in {"absent", "idle", "inHandler"}
          /\ renderer' \in {"absent", "running", "failed"}
      BY <1>1 DEF PythonReturns, PythonUnchanged, PythonRuns
    <3>3. /\ handlers' \in BOOLEAN /\ shutdownRequested' \in BOOLEAN
          /\ library' \in BOOLEAN /\ client' \in BOOLEAN /\ loop' \in BOOLEAN
      BY <1>1 DEF PythonReturns, PythonUnchanged, PythonRuns
    <3>4. /\ lit' \in BOOLEAN /\ oledSilent' \in BOOLEAN
          /\ interpreter' \in BOOLEAN /\ playing' \in BOOLEAN
      BY <1>1 DEF PythonReturns, PythonUnchanged, PythonRuns
    <3>5. QED
      BY <3>1, <3>2, <3>3, <3>4
  <2>2. ReceiverInv'
    BY <1>1 DEF PythonReturns, PythonUnchanged, PythonRuns
  <2>3. PartsInv'
    BY <1>1 DEF PythonReturns, PythonUnchanged, PythonRuns
  <2>4. UsersFindTheirObjects'
    BY <1>1 DEF PythonReturns, PythonUnchanged, PythonRuns
  <2>5. OledIsNotLeftLit'
    BY <1>1 DEF PythonReturns, PythonUnchanged, PythonRuns
  <2>6. QED
    BY <2>1, <2>2, <2>3, <2>4, <2>5
<1>2. CASE ApplicationStarts
  BY <1>2 DEF ApplicationStarts, PythonUnchanged
<1>3. CASE PlayVideo
  BY <1>3 DEF PlayVideo, PythonUnchanged
<1>4. CASE ReleaseDisplay
  <2>1. TypeOK'
    <3>1. /\ stage' \in Stages /\ resume' \in {"checking", "stopManager", "unwind"}
          /\ objects' \subseteq Parts /\ exitCode' \in {0, 1}
      BY <1>4 DEF ReleaseDisplay, PythonUnchanged
    <3>2. /\ networkThread' \in {"absent", "idle", "inHandler"}
          /\ renderer' \in {"absent", "running", "failed"}
      BY <1>4 DEF ReleaseDisplay, PythonUnchanged
    <3>3. /\ handlers' \in BOOLEAN /\ shutdownRequested' \in BOOLEAN
          /\ library' \in BOOLEAN /\ client' \in BOOLEAN /\ loop' \in BOOLEAN
      BY <1>4 DEF ReleaseDisplay, PythonUnchanged
    <3>4. /\ lit' \in BOOLEAN /\ oledSilent' \in BOOLEAN
          /\ interpreter' \in BOOLEAN /\ playing' \in BOOLEAN
      BY <1>4 DEF ReleaseDisplay, PythonUnchanged
    <3>5. QED
      BY <3>1, <3>2, <3>3, <3>4
  <2>2. ReceiverInv'
    BY <1>4 DEF ReleaseDisplay, PythonUnchanged
  <2>3. PartsInv'
    BY <1>4 DEF ReleaseDisplay, PythonUnchanged
  <2>4. UsersFindTheirObjects'
    BY <1>4 DEF ReleaseDisplay, PythonUnchanged
  <2>5. OledIsNotLeftLit'
    BY <1>4 DEF ReleaseDisplay, PythonUnchanged
  <2>6. QED
    BY <2>1, <2>2, <2>3, <2>4, <2>5
<1>5. CASE RenderThreadFails
  BY <1>5 DEF RenderThreadFails, PythonUnchanged
<1>6. CASE HandlerRuns
  BY <1>6 DEF HandlerRuns
<1>7. CASE SignalArrives
  <2>1. TypeOK'
    <3>1. /\ stage' \in Stages /\ resume' \in {"checking", "stopManager", "unwind"}
          /\ objects' \subseteq Parts /\ exitCode' \in {0, 1}
      BY <1>7, ZenonT(60) DEF SignalArrives
    <3>2. /\ networkThread' \in {"absent", "idle", "inHandler"}
          /\ renderer' \in {"absent", "running", "failed"}
      BY <1>7 DEF SignalArrives
    <3>3. /\ handlers' \in BOOLEAN /\ shutdownRequested' \in BOOLEAN
          /\ library' \in BOOLEAN /\ client' \in BOOLEAN /\ loop' \in BOOLEAN
      BY <1>7 DEF SignalArrives
    <3>4. /\ lit' \in BOOLEAN /\ oledSilent' \in BOOLEAN
          /\ interpreter' \in BOOLEAN /\ playing' \in BOOLEAN
      BY <1>7 DEF SignalArrives
    <3>5. QED
      BY <3>1, <3>2, <3>3, <3>4
  <2>2. ReceiverInv'
    BY <1>7 DEF SignalArrives
  <2>3. PartsInv'
    BY <1>7 DEF SignalArrives
  <2>4. UsersFindTheirObjects'
    BY <1>7 DEF SignalArrives
  <2>5. OledIsNotLeftLit'
    BY <1>7 DEF SignalArrives
  <2>6. QED
    BY <2>1, <2>2, <2>3, <2>4, <2>5
<1>8. QED
  BY <1>1, <1>2, <1>3, <1>4, <1>5, <1>6, <1>7

LEMMA AlwaysProcessInv == Spec => []ProcessInv
<1>1. ProcessInv /\ [Next]_vars => ProcessInv'
  <2>1. ProcessInv /\ UNCHANGED vars => ProcessInv'
    BY DEF vars, receiverVars, oledVars, pythonVars, signalVars, ProcessInv, TypeOK, ReceiverInv,
           PartsInv, IsRunning, UsersFindTheirObjects, OledIsNotLeftLit
  <2>2. QED
    BY <2>1, StartUpKeepsInv, StartReceiverKeepsInv, StopReceiverKeepsInv, LoopKeepsInv,
       ShutDownKeepsInv, OthersKeepInv DEF Next, MainStep, StopPlaybackAtShutdown, PlaybackEnds
<1>2. QED
  BY <1>1, ProcessInvInitially, PTL DEF Spec

\* The types are kept.
THEOREM ProcessTypesAreKept == Spec => []TypeOK
<1>1. ProcessInv => TypeOK
  BY DEF ProcessInv
<1>2. QED
  BY <1>1, AlwaysProcessInv, PTL

\* The network thread, Python, the render thread and mpv find what they use at every step of
\* startup, main loop, shutdown and exceptions.
THEOREM UsersAlwaysFindTheirObjects == Spec => []UsersFindTheirObjects
<1>1. ProcessInv => UsersFindTheirObjects
  BY DEF ProcessInv
<1>2. QED
  BY <1>1, AlwaysProcessInv, PTL

\* start() and stop() of the receiver undo what they did: of every stage it is known what
\* libmosquitto holds, and whoever holds it is the service, which stops it when it goes.
THEOREM ReceiverUndoesItsSteps == Spec => []ReceiverIsWholeOrGone
<1>1. ProcessInv => ReceiverIsWholeOrGone
  BY DEF ProcessInv, ReceiverInv, PartsInv, ReceiverIsWholeOrGone, TypeOK, StartSteps, StopSteps,
         MainLoop
<1>2. QED
  BY <1>1, AlwaysProcessInv, PTL

\* No way through the process forgets to switch the OLED off.
THEOREM OledIsSwitchedOff == Spec => []OledIsNotLeftLit
<1>1. ProcessInv => OledIsNotLeftLit
  BY DEF ProcessInv
<1>2. QED
  BY <1>1, AlwaysProcessInv, PTL

-----------------------------------------------------------------------------
(***************************************************************************)
(* The status on the OLED.                                                 *)
(***************************************************************************)

\* Entries of getifaddrs().
Entry == [name : Nat, family : STRING, up : BOOLEAN, running : BOOLEAN, loopback : BOOLEAN,
          text : Seq(STRING)]

LEMMA NamedEntries ==
  ASSUME StatusTypeOK, NEW name \in Nat
  PROVE  /\ Named(addresses, name) \in Seq(Entry)
         /\ \A n \in DOMAIN Named(addresses, name) : \E i \in DOMAIN addresses :
              /\ Named(addresses, name)[n] = addresses[i]
              /\ Counts(addresses[i]) /\ addresses[i].name = name
<1> DEFINE I == {i \in DOMAIN addresses : Counts(addresses[i]) /\ addresses[i].name = name}
<1>1. addresses \in Seq(Entry) /\ DOMAIN addresses = 1..Len(addresses)
  BY LenProperties DEF StatusTypeOK, Entry
<1>2. Named(addresses, name) = ElementsAt(addresses, I) /\ I \in SUBSET (1..Len(addresses))
  BY <1>1 DEF Named
<1>3. Named(addresses, name) \in Seq(Entry)
  <2> HIDE DEF I
  <2>1. QED
    BY <1>1, <1>2, ElementsAtType
<1>4. DOMAIN Named(addresses, name) = 1..Len(Named(addresses, name))
  BY <1>3, LenProperties
<1>5. ASSUME NEW n \in DOMAIN Named(addresses, name)
      PROVE  \E i \in I : Named(addresses, name)[n] = addresses[i]
  <2> HIDE DEF I
  <2>1. n \in 1..Len(ElementsAt(addresses, I))
    BY <1>2, <1>4
  <2>2. QED
    BY <1>1, <1>2, <2>1, ElementsAtIsFrom
<1>6. QED
  BY <1>3, <1>5

LEMMA NamedHas ==
  ASSUME StatusTypeOK, NEW i \in DOMAIN addresses, Counts(addresses[i])
  PROVE  \E n \in DOMAIN Named(addresses, addresses[i].name) :
           Named(addresses, addresses[i].name)[n] = addresses[i]
<1> DEFINE name == addresses[i].name
           I == {j \in DOMAIN addresses : Counts(addresses[j]) /\ addresses[j].name = name}
<1>1. addresses \in Seq(Entry) /\ DOMAIN addresses = 1..Len(addresses)
  BY LenProperties DEF StatusTypeOK, Entry
<1>2. Named(addresses, name) = ElementsAt(addresses, I) /\ I \in SUBSET (1..Len(addresses)) /\ i \in I
  BY <1>1 DEF Named
<1>3. name \in Nat
  <2>1. addresses[i] \in Entry
    BY <1>1, ElementOfSeq
  <2>2. QED
    BY <2>1 DEF Entry
<1>4. DOMAIN Named(addresses, name) = 1..Len(Named(addresses, name))
  BY <1>3, NamedEntries, LenProperties
<1> HIDE DEF I
<1>5. \E n \in 1..Len(ElementsAt(addresses, I)) : ElementsAt(addresses, I)[n] = addresses[i]
  BY <1>1, <1>2, ElementsAtHas
<1>6. QED
  BY <1>2, <1>4, <1>5

\* An interface's address is the text of one of its entries, and it has one if any of its
\* entries has a text.
LEMMA AddressOfInterface ==
  ASSUME StatusTypeOK, NEW name \in Nat
  PROVE  LET ip == FirstIpv4(Named(addresses, name))
         IN  /\ ip # NoText => \E i \in DOMAIN addresses :
                  Counts(addresses[i]) /\ addresses[i].name = name /\ addresses[i].text = ip
             /\ (\E n \in DOMAIN Named(addresses, name) : Named(addresses, name)[n].text # NoText)
                  => ip # NoText
<1> DEFINE entries == Named(addresses, name)
           ipv4 == {n \in DOMAIN entries : entries[n].family = "inet" /\ entries[n].text # NoText}
           ip == FirstIpv4(entries)
<1>1. DOMAIN entries = 1..Len(entries) /\ Len(entries) \in Nat
  BY NamedEntries, LenProperties
<1>2. \A n \in DOMAIN entries : \E i \in DOMAIN addresses :
        entries[n] = addresses[i] /\ Counts(addresses[i]) /\ addresses[i].name = name
  BY NamedEntries
<1>3. ip = IF ipv4 = {} THEN NoText ELSE entries[Min(ipv4)].text
  BY DEF FirstIpv4
<1>4. ipv4 # {} => Min(ipv4) \in ipv4
  <2>1. ipv4 \in SUBSET Nat
    BY <1>1
  <2> HIDE DEF ipv4, entries
  <2>2. ipv4 # {} => \E i \in ipv4 : \A j \in ipv4 : i <= j
    BY <2>1, LeastNumber
  <2>3. QED
    BY <2>2 DEF Min
<1>5. ASSUME ip # NoText
      PROVE  \E i \in DOMAIN addresses :
               Counts(addresses[i]) /\ addresses[i].name = name /\ addresses[i].text = ip
  <2>1. Min(ipv4) \in DOMAIN entries /\ ip = entries[Min(ipv4)].text
    BY <1>3, <1>4, <1>5
  <2>2. QED
    BY <1>2, <2>1
<1>6. ASSUME NEW n \in DOMAIN entries, entries[n].text # NoText
      PROVE  ip # NoText
  <2>1. entries[n].family = "inet"
    BY <1>2, <1>6 DEF StatusTypeOK
  <2>2. n \in ipv4
    BY <1>6, <2>1
  <2>3. QED
    BY <1>3, <1>4, <2>2
<1>7. QED
  BY <1>5, <1>6

\* The list has an entry for every name, and no other.
LEMMA InterfacesAreNamed ==
  ASSUME StatusTypeOK
  PROVE  LET names == InterfaceNames(addresses)
             all   == NetworkInterfaces(addresses)
         IN  /\ names \in SUBSET Nat /\ DOMAIN all = 1..Cardinality(names) /\ Cardinality(names) \in Nat
             /\ \A n \in DOMAIN all : \E name \in names : all[n] = Interface(addresses, name)
             /\ \A name \in names : \E n \in DOMAIN all : all[n] = Interface(addresses, name)
<1> DEFINE names == InterfaceNames(addresses)
           all == NetworkInterfaces(addresses)
           places == {j \in DOMAIN addresses : Counts(addresses[j])}
<1>1. addresses \in Seq(Entry) /\ DOMAIN addresses = 1..Len(addresses) /\ Len(addresses) \in Nat
  BY LenProperties DEF StatusTypeOK, Entry
<1>2. \A i \in DOMAIN addresses : addresses[i].name \in Nat
  <2>1. \A i \in DOMAIN addresses : addresses[i] \in Entry
    BY <1>1, ElementOfSeq
  <2>2. QED
    BY <2>1 DEF Entry
<1>3. names = {addresses[i].name : i \in places} /\ names \in SUBSET Nat
  BY <1>2 DEF InterfaceNames
<1>4. IsFiniteSet(names) /\ Cardinality(names) \in Nat
  <2> DEFINE f == [i \in places |-> addresses[i].name]
  <2>1. IsFiniteSet(places)
    <3>1. places \subseteq 1..Len(addresses)
      BY <1>1
    <3>2. IsFiniteSet(1..Len(addresses))
      BY <1>1, FS_Interval
    <3>3. QED
      BY <3>1, <3>2, FS_Subset
  <2>2. f \in Surjection(places, names)
    BY <1>3 DEF Surjection
  <2> HIDE DEF f, places, names
  <2>3. QED
    BY <2>1, <2>2, FS_Surjection, FS_CardinalityType
<1>5. all = [n \in 1..Cardinality(names) |-> Interface(addresses, Nth(names, n))]
  BY DEF NetworkInterfaces
<1> HIDE DEF names, all, places
<1>6. ASSUME NEW n \in 1..Cardinality(names)
      PROVE  Nth(names, n) \in names /\ all[n] = Interface(addresses, Nth(names, n))
  BY <1>3, <1>4, <1>5, NthHasRank
<1>7. ASSUME NEW name \in names
      PROVE  \E n \in 1..Cardinality(names) : all[n] = Interface(addresses, name)
  <2>1. RankIn(names, name) \in 1..Cardinality(names) /\ Nth(names, RankIn(names, name)) = name
    BY <1>3, <1>4, RankType, RankIsNth
  <2>2. QED
    BY <1>6, <2>1
<1>8. DOMAIN all = 1..Cardinality(names)
  BY <1>5
<1>9. QED
  BY <1>3, <1>4, <1>6, <1>7, <1>8 DEF names, all

\* An address is shown exactly if an interface is reachable, and is one of its addresses.
LEMMA ShownIpIsReachable ==
  ASSUME StatusTypeOK
  PROVE  /\ IsConnected => IsReachable(ShownIp) /\ \E i \in DOMAIN addresses : addresses[i].text = ShownIp
         /\ ~IsConnected => \A i \in DOMAIN addresses :
              addresses[i].text # NoText => ~IsReachable(addresses[i].text)
<1> DEFINE names == InterfaceNames(addresses)
           all == NetworkInterfaces(addresses)
<1>1. /\ names \in SUBSET Nat /\ DOMAIN all = 1..Cardinality(names) /\ Cardinality(names) \in Nat
      /\ \A n \in DOMAIN all : \E name \in names : all[n] = Interface(addresses, name)
      /\ \A name \in names : \E n \in DOMAIN all : all[n] = Interface(addresses, name)
  BY InterfacesAreNamed
<1>2. ShownInterfaces = {n \in DOMAIN all : all[n].connected /\ all[n].ipv4Address # NoText}
  BY DEF ShownInterfaces
<1>3. ASSUME NEW i \in DOMAIN addresses, Counts(addresses[i])
      PROVE  addresses[i].name \in names
  BY <1>3 DEF InterfaceNames
<1> HIDE DEF names, all
<1>4. ASSUME IsConnected
      PROVE  IsReachable(ShownIp) /\ \E i \in DOMAIN addresses : addresses[i].text = ShownIp
  <2> DEFINE k == Min(ShownInterfaces)
  <2>1. k \in ShownInterfaces /\ ShownIp = all[k].ipv4Address
    <3>1. ShownInterfaces \in SUBSET Nat /\ ShownInterfaces # {}
      BY <1>1, <1>2, <1>4 DEF IsConnected
    <3>2. \E i \in ShownInterfaces : \A j \in ShownInterfaces : i <= j
      BY <3>1, LeastNumber
    <3>3. QED
      BY <1>4, <3>2 DEF Min, ShownIp, all
  <2> HIDE DEF k
  <2>2. PICK name \in names : all[k] = Interface(addresses, name)
    BY <1>1, <1>2, <2>1
  <2>3. /\ name \in Nat /\ Connected(Named(addresses, name))
        /\ ShownIp = FirstIpv4(Named(addresses, name)) /\ ShownIp # NoText
    BY <1>1, <1>2, <2>1, <2>2 DEF Interface
  <2>4. PICK j \in DOMAIN addresses :
          Counts(addresses[j]) /\ addresses[j].name = name /\ addresses[j].text = ShownIp
    BY <2>3, AddressOfInterface
  <2>5. PICK n \in DOMAIN Named(addresses, name) :
          Named(addresses, name)[n].up /\ Named(addresses, name)[n].running
    BY <2>3 DEF Connected
  <2>6. PICK i \in DOMAIN addresses : /\ Named(addresses, name)[n] = addresses[i]
                                      /\ Counts(addresses[i]) /\ addresses[i].name = name
    BY <2>3, <2>5, NamedEntries
  <2>7. QED
    BY <2>4, <2>5, <2>6 DEF IsReachable
<1>5. ASSUME NEW t \in DOMAIN addresses, addresses[t].text # NoText, IsReachable(addresses[t].text)
      PROVE  IsConnected
  <2>1. PICK i \in DOMAIN addresses, j \in DOMAIN addresses :
          /\ addresses[i].name = addresses[j].name /\ Counts(addresses[i]) /\ Counts(addresses[j])
          /\ addresses[i].up /\ addresses[i].running /\ addresses[j].text = addresses[t].text
    BY <1>5 DEF IsReachable
  <2> DEFINE name == addresses[i].name
  <2>2. name \in names /\ name \in Nat
    BY <1>1, <1>3, <2>1
  <2>3. Connected(Named(addresses, name))
    BY <2>1, NamedHas DEF Connected
  <2>4. FirstIpv4(Named(addresses, name)) # NoText
    <3>1. \E n \in DOMAIN Named(addresses, name) : Named(addresses, name)[n] = addresses[j]
      BY <2>1, NamedHas
    <3>2. \E n \in DOMAIN Named(addresses, name) : Named(addresses, name)[n].text # NoText
      BY <1>5, <2>1, <3>1
    <3> HIDE DEF name
    <3>3. QED
      BY <2>2, <3>2, AddressOfInterface
  <2> HIDE DEF name
  <2>5. PICK n \in DOMAIN all : all[n] = Interface(addresses, name)
    BY <1>1, <2>2
  <2>6. n \in ShownInterfaces
    BY <1>2, <2>3, <2>4, <2>5 DEF Interface
  <2>7. QED
    BY <2>6 DEF IsConnected
<1>6. QED
  BY <1>4, <1>5

\* The address on the panel can be used to reach the device.
LEMMA ShownAddressesAreReachable == StatusTypeOK => ShownAddressIsReachable
  BY ShownIpIsReachable DEF ShownAddressIsReachable

\* A text that ends on the panel is drawn to its end.
LEMMA DrawnToItsEnd ==
  ASSUME NEW S, NEW x \in Nat, NEW y \in Nat, NEW text \in Seq(S),
         x + 6 * Len(text) - 1 <= PanelWidth, y + 7 <= PanelHeight
  PROVE  DrawnLength(x, y, text) = Len(text)
<1> DEFINE l == Len(text)
           N == {0} \cup {n \in 1..l : \A i \in 1..n : Fits(x, y, i)}
<1>1. l \in Nat
  BY LenProperties
<1>2. \A i \in 1..l : Fits(x, y, i)
  <2> SUFFICES ASSUME NEW i \in 1..l
               PROVE  Fits(x, y, i)
    OBVIOUS
  <2>1. x + 6 * (i - 1) + 5 <= PanelWidth
    BY <1>1 DEF PanelWidth
  <2>2. QED
    BY <2>1 DEF Fits
<1> HIDE DEF l
<1>3. l \in N /\ \A n \in N : l >= n
  BY <1>1, <1>2
<1>4. N \in SUBSET Nat
  BY <1>1
<1>5. Max(N) = l
  <2> HIDE DEF N
  <2>2. QED
    BY <1>3, <1>4, MaxIsGreatest
<1>6. QED
  BY <1>5 DEF DrawnLength, l

\* The characters of a text, those of the literals among them.
Character == STRING \cup HasGlyph \cup {" "}

LEMMA LiteralCharacters ==
  /\ "-" \in Character /\ "." \in Character /\ "?" \in Character /\ ":" \in Character
  /\ " " \in Character /\ "A" \in Character /\ "C" \in Character /\ "I" \in Character
  /\ "P" \in Character /\ "U" \in Character
  BY DEF Character, HasGlyph, Upper

LEMMA Dots == <<"-", "-">> \in Seq(Character) /\ Len(<<"-", "-">>) = 2
  BY LiteralCharacters, Tuples, Zenon

LEMMA ShortText ==
  ASSUME NEW S, NEW t \in Seq(S), Len(t) <= 15
  PROVE  Len(t) \in 0..15
<1>1. PICK n : n = Len(t)
  OBVIOUS
<1>2. n \in Nat
  BY <1>1, LenProperties
<1>3. n <= 15
  BY <1>1
<1> HIDE <1>1
<1>4. n \in 0..15
  BY ONLY <1>2, <1>3
<1>5. QED
  BY <1>1, <1>4, Zenon

LEMMA ShownIpType ==
  ASSUME StatusTypeOK
  PROVE  ShownIp \in Seq(Character) /\ Len(ShownIp) \in 0..15
<1>1. CASE IsConnected
  <2>1. PICK i \in DOMAIN addresses : addresses[i].text = ShownIp
    BY <1>1, ShownIpIsReachable
  <2>2. addresses \in Seq(Entry) /\ DOMAIN addresses = 1..Len(addresses)
    BY LenProperties DEF StatusTypeOK, Entry
  <2>3. addresses[i] \in Entry
    BY <2>2, ElementOfSeq
  <2>4. addresses[i].text \in Seq(STRING)
    BY <2>3 DEF Entry
  <2>5. Len(addresses[i].text) <= 15
    BY DEF StatusTypeOK
  <2>6. PICK t : t = ShownIp
    OBVIOUS
  <2>7. t \in Seq(STRING)
    BY <2>1, <2>4, <2>6
  <2>8. Len(t) <= 15
    BY <2>1, <2>5, <2>6
  <2> HIDE <2>1
  <2>9. Len(t) \in 0..15
    BY <2>7, <2>8, ShortText
  <2>10. t \in Seq(Character)
    BY <2>7, SeqMonotonic DEF Character
  <2>11. QED
    BY <2>6, <2>9, <2>10, Zenon
<1>2. CASE ~IsConnected
  <2>1. ShownIp = <<"-", "-">>
    BY <1>2 DEF ShownIp
  <2>2. 2 \in 0..15
    OBVIOUS
  <2>3. QED
    BY <2>1, <2>2, Dots, Zenon
<1>3. QED
  BY <1>1, <1>2

\* At most 17 characters are left of a name: all of it, or its beginning and three dots.
LEMMA ClippedName ==
  ASSUME NEW name \in Seq(STRING)
  PROVE  LET shown == ClippedAppName(name)
         IN  /\ shown \in Seq(Character) /\ Len(shown) \in 0..17
             /\ Len(name) <= 17 => Len(shown) = Len(name)
             /\ \A i \in 1..Min({Len(name), 14}) : shown[i] = Printable(name[i])
<1>1. PICK l : l = Len(name)
  OBVIOUS
<1>2. l \in Nat /\ DOMAIN name = 1..l
  BY <1>1, LenProperties
<1>3. \A i \in 1..l : Printable(name[i]) \in Character
  <2>1. \A i \in 1..l : name[i] \in STRING
    BY <1>1, ElementOfSeq
  <2>2. QED
    BY <2>1, LiteralCharacters, Zenon DEF Printable, Character
<1>4. CASE l > MaxNameCharacters
  <2>1. ClippedAppName(name) = [i \in 1..14 |-> Printable(name[i])] \o <<".", ".", ".">>
    BY <1>1, <1>4 DEF ClippedAppName, MaxNameCharacters
  <2>2. PICK start, dots : start = [i \in 1..14 |-> Printable(name[i])] /\ dots = <<".", ".", ".">>
    OBVIOUS
  <2>3. start \in Seq(Character) /\ Len(start) = 14
    <3>1. \A i \in 1..14 : Printable(name[i]) \in Character
      BY <1>2, <1>3, <1>4 DEF MaxNameCharacters
    <3>2. PICK n \in Nat : n = 14
      OBVIOUS
    <3>3. start \in [1..n -> Character]
      BY <2>2, <3>1, <3>2
    <3>4. start \in Seq(Character) /\ Len(start) = n
      BY ONLY <3>3, n \in Nat, SeqOfLength
    <3>5. QED
      BY ONLY <3>2, <3>4, Zenon
  <2>4. dots \in Seq(Character) /\ Len(dots) = 3
    BY <2>2, Tuples, LiteralCharacters, Zenon
  <2>5. /\ start \o dots \in Seq(Character) /\ Len(start \o dots) = 17
        /\ \A i \in 1..14 : (start \o dots)[i] = start[i]
    <3>1. 14 \in Nat /\ 3 \in Nat /\ 17 = 14 + 3
      OBVIOUS
    <3>2. /\ start \o dots \in Seq(Character) /\ Len(start \o dots) = 14 + 3
      <4>1. start \o dots \in Seq(Character) /\ Len(start \o dots) = Len(start) + Len(dots)
        BY ONLY <2>3, <2>4, ConcatProperties
      <4>2. QED
        BY ONLY <2>3, <2>4, <4>1, Zenon
    <3>3. \A i \in 1..14 : (start \o dots)[i] = start[i]
      <4>1. \A i \in 1..(Len(start) + Len(dots)) :
               (start \o dots)[i] = IF i <= Len(start) THEN start[i] ELSE dots[i - Len(start)]
        BY ONLY <2>3, <2>4, ConcatProperties
      <4>2. \A i \in 1..(14 + 3) :
               (start \o dots)[i] = IF i <= 14 THEN start[i] ELSE dots[i - 14]
        BY ONLY <2>3, <2>4, <4>1, Zenon
      <4>3. ASSUME NEW i \in 1..14
            PROVE  i \in 1..(14 + 3) /\ i <= 14
        BY ONLY <4>3
      <4>4. QED
        BY ONLY <4>2, <4>3, Zenon
    <3>4. QED
      BY ONLY <3>1, <3>2, <3>3, Zenon
  <2>6. Min({l, 14}) = 14
    BY <1>2, <1>4, MinIsLeast DEF MaxNameCharacters
  <2>7. \A i \in 1..14 : start[i] = Printable(name[i])
    BY <2>2
  <2>8. ClippedAppName(name) = start \o dots
    BY <2>1, <2>2, Zenon
  <2>9. 17 \in 0..17 /\ ~(l <= 17)
    BY <1>2, <1>4 DEF MaxNameCharacters
  <2>10. QED
    BY <1>1, <2>5, <2>6, <2>7, <2>8, <2>9, Zenon
<1>5. CASE ~(l > MaxNameCharacters)
  <2>1. PICK shown : shown = ClippedAppName(name)
    OBVIOUS
  <2>2. shown = [i \in 1..l |-> Printable(name[i])]
    BY <1>1, <1>2, <1>5, <2>1 DEF ClippedAppName
  <2>3. shown \in Seq(Character) /\ Len(shown) = l
    <3>1. shown \in [1..l -> Character]
      BY <1>3, <2>2
    <3>2. QED
      BY ONLY <1>2, <3>1
  <2>4. l \in 0..17
    BY <1>2, <1>5 DEF MaxNameCharacters
  <2>5. \A i \in 1..Min({l, 14}) : i \in 1..l
    <3>1. Min({l, 14}) \in {l, 14} /\ Min({l, 14}) <= l
      <4>1. CASE l <= 14
        BY <1>2, <4>1, MinIsLeast
      <4>2. CASE ~(l <= 14)
        BY <1>2, <4>2, MinIsLeast
      <4>3. QED
        BY <4>1, <4>2
    <3>2. QED
      BY <1>2, <3>1
  <2>6. QED
    BY <1>1, <2>1, <2>2, <2>3, <2>4, <2>5, Zenon
<1>6. QED
  BY <1>4, <1>5

\* A temperature the sensor can have has at most three digits.
LEMMA TemperatureIsShort ==
  ASSUME NEW milli \in Nat, milli <= 150000
  PROVE  Rounded(milli) \in 0..150
<1> DEFINE whole == milli \div 1000
           rest == milli % 1000
<1>1. /\ whole \in Nat /\ whole <= 150 /\ rest \in Nat /\ rest < 1000
      /\ milli = 1000 * whole + rest
  BY SMT
<1>2. \/ Rounded(milli) = whole
      \/ Rounded(milli) = whole + 1 /\ rest >= 500
  <2>1. CASE rest > 500 \/ (rest = 500 /\ whole % 2 = 1)
    BY <1>1, <2>1, SMT DEF Rounded
  <2>2. CASE ~(rest > 500 \/ (rest = 500 /\ whole % 2 = 1))
    BY <2>2, SMT DEF Rounded
  <2>3. QED
    BY <2>1, <2>2, SMT
<1> HIDE DEF whole, rest
<1>3. rest >= 500 => whole + 1 <= 150
  BY <1>1, SMT
<1>4. CASE Rounded(milli) = whole
  BY <1>1, <1>4, SMT
<1>5. CASE Rounded(milli) = whole + 1 /\ rest >= 500
  BY <1>1, <1>3, <1>5, SMT
<1>6. QED
  BY <1>2, <1>4, <1>5, SMT

LEMMA DigitIsCharacter ==
  ASSUME NEW k \in 0..9
  PROVE  <<Digit[k + 1]>> \in Seq(Character) /\ Len(<<Digit[k + 1]>>) = 1
<1>1. k + 1 \in 1..10 /\ DOMAIN Digit = 1..10
  BY DEF Digit
<1>2. ToSet(Digit) = {Digit[i] : i \in DOMAIN Digit}
  BY DEF ToSet, Range
<1>3. Digit[k + 1] \in Character
  BY <1>1, <1>2 DEF Character, HasGlyph
<1>4. QED
  BY <1>3, Tuples

LEMMA DecimalIsShort ==
  ASSUME NEW n \in 0..150
  PROVE  Decimal(n) \in Seq(Character) /\ Len(Decimal(n)) \in 1..3
<1> DEFINE hundreds == IF n < 100 THEN << >> ELSE <<Digit[n \div 100 + 1]>>
           tens == IF n < 10 THEN << >> ELSE <<Digit[((n \div 10) % 10) + 1]>>
           ones == <<Digit[(n % 10) + 1]>>
<1>1. (n \div 100) \in 0..9 /\ ((n \div 10) % 10) \in 0..9 /\ (n % 10) \in 0..9
  OBVIOUS
<1>2. << >> \in Seq(Character) /\ Len(<< >>) = 0
  OBVIOUS
<1>3. hundreds \in Seq(Character) /\ \E h \in {0, 1} : Len(hundreds) = h
  BY <1>1, <1>2, DigitIsCharacter, Zenon
<1>4. tens \in Seq(Character) /\ \E t \in {0, 1} : Len(tens) = t
  BY <1>1, <1>2, DigitIsCharacter, Zenon
<1>5. ones \in Seq(Character) /\ Len(ones) = 1
  BY <1>1, DigitIsCharacter, Zenon
<1>6. Decimal(n) = (hundreds \o tens) \o ones
  BY Zenon DEF Decimal
<1> HIDE DEF hundreds, tens, ones
<1>7. PICK h \in {0, 1} : Len(hundreds) = h
  BY <1>3
<1>8. PICK t \in {0, 1} : Len(tens) = t
  BY <1>4
<1>9. h \in Nat /\ t \in Nat /\ h + t \in Nat /\ 1 \in Nat /\ (h + t) + 1 \in 1..3
  OBVIOUS
<1>10. hundreds \o tens \in Seq(Character) /\ Len(hundreds \o tens) = h + t
  <2>1. /\ hundreds \o tens \in Seq(Character)
        /\ Len(hundreds \o tens) = Len(hundreds) + Len(tens)
    BY ONLY <1>3, <1>4, ConcatProperties
  <2>2. QED
    BY ONLY <1>7, <1>8, <2>1, Zenon
<1>11. /\ (hundreds \o tens) \o ones \in Seq(Character)
       /\ Len((hundreds \o tens) \o ones) = (h + t) + 1
  <2>1. /\ (hundreds \o tens) \o ones \in Seq(Character)
        /\ Len((hundreds \o tens) \o ones) = Len(hundreds \o tens) + Len(ones)
    BY ONLY <1>5, <1>10, ConcatProperties
  <2>2. QED
    BY ONLY <1>5, <1>10, <2>1, Zenon
<1>12. QED
  BY <1>6, <1>9, <1>11, Zenon

LEMMA TemperatureType ==
  ASSUME NEW milli \in Nat \cup {Unavailable}
  PROVE  TemperatureText(milli) \in Seq(Character) /\ Len(TemperatureText(milli)) \in 6..8
<1>1. <<"C", "P", "U", " ">> \in Seq(Character) /\ Len(<<"C", "P", "U", " ">>) = 4
  BY Tuples, LiteralCharacters, Zenon
<1>2. PICK cpu : cpu = <<"C", "P", "U", " ">>
  OBVIOUS
<1>3. cpu \in Seq(Character) /\ Len(cpu) = 4
  BY <1>1, <1>2, Zenon
<1>4. 6 \in 6..8 /\ 7 \in 6..8 /\ 8 \in 6..8
  OBVIOUS
<1>5. CASE IsPlausible(milli)
  <2>1. PICK digits : digits = Decimal(Rounded(milli))
    OBVIOUS
  <2>2. Rounded(milli) \in 0..150
    <3>1. milli \in Nat /\ milli <= 150000
      BY <1>5, SMT DEF IsPlausible, Unavailable
    <3>2. QED
      BY <3>1, TemperatureIsShort, SMT
  <2>20. digits \in Seq(Character) /\ Len(digits) \in 1..3
    BY <2>1, <2>2, DecimalIsShort, Zenon
  <2>3. PICK n \in 1..3 : n = Len(digits)
    BY <2>20
  <2>4. <<"C">> \in Seq(Character) /\ Len(<<"C">>) = 1
    BY Tuples, LiteralCharacters, Zenon
  <2>5. n \in Nat /\ 1 \in Nat /\ n + 1 \in Nat /\ 4 \in Nat /\ 4 + (n + 1) \in 6..8
    OBVIOUS
  <2>6. digits \o <<"C">> \in Seq(Character) /\ Len(digits \o <<"C">>) = n + 1
    <3>1. /\ digits \o <<"C">> \in Seq(Character)
          /\ Len(digits \o <<"C">>) = Len(digits) + Len(<<"C">>)
      BY ONLY <2>20, <2>4, ConcatProperties
    <3>2. QED
      BY ONLY <2>3, <2>4, <3>1, Zenon
  <2>7. /\ cpu \o (digits \o <<"C">>) \in Seq(Character)
        /\ Len(cpu \o (digits \o <<"C">>)) = 4 + (n + 1)
    <3>1. /\ cpu \o (digits \o <<"C">>) \in Seq(Character)
          /\ Len(cpu \o (digits \o <<"C">>)) = Len(cpu) + Len(digits \o <<"C">>)
      BY ONLY <1>3, <2>6, ConcatProperties
    <3>2. QED
      BY ONLY <1>3, <2>6, <3>1, Zenon
  <2>8. TemperatureText(milli) = cpu \o (digits \o <<"C">>)
    BY <1>2, <1>5, <2>1, Zenon DEF TemperatureText
  <2>9. QED
    BY <2>5, <2>7, <2>8, Zenon
<1>6. CASE ~IsPlausible(milli)
  <2>1. 4 \in Nat /\ 2 \in Nat /\ 6 = 4 + 2
    OBVIOUS
  <2>2. cpu \o <<"-", "-">> \in Seq(Character) /\ Len(cpu \o <<"-", "-">>) = 6
    <3>1. /\ cpu \o <<"-", "-">> \in Seq(Character)
          /\ Len(cpu \o <<"-", "-">>) = Len(cpu) + Len(<<"-", "-">>)
      BY ONLY <1>3, Dots, ConcatProperties
    <3>2. QED
      BY ONLY <1>3, <2>1, Dots, <3>1, Zenon
  <2>3. TemperatureText(milli) = cpu \o <<"-", "-">>
    BY <1>2, <1>6, Zenon DEF TemperatureText
  <2>4. QED
    BY <1>4, <2>2, <2>3, Zenon
<1>7. QED
  BY <1>5, <1>6, Zenon
LEMMA CpuTemperatureType ==
  ASSUME StatusTypeOK
  PROVE  CpuTemperature(zones) \in Nat \cup {Unavailable}
<1> DEFINE Z == [isZone : BOOLEAN, temp : [kind : STRING, value : Nat], type : STRING]
           readable == {i \in DOMAIN zones :
                          zones[i].isZone /\ ReadUnsignedInteger(zones[i].temp) # Unavailable}
           cpu == {i \in readable : zones[i].type \in CpuZoneTypes}
           chosen == IF cpu # {} THEN cpu ELSE readable
<1>1. zones \in Seq(Z) /\ DOMAIN zones = 1..Len(zones) /\ Len(zones) \in Nat
  BY LenProperties DEF StatusTypeOK
<1>2. \A i \in DOMAIN zones : zones[i] \in Z
  BY <1>1, ElementOfSeq
<1>3. \A i \in DOMAIN zones : ReadUnsignedInteger(zones[i].temp) \in Nat \cup {Unavailable}
  BY <1>2 DEF ReadUnsignedInteger
<1>4. CpuTemperature(zones) =
        IF readable = {} THEN Unavailable ELSE ReadUnsignedInteger(zones[Min(chosen)].temp)
  BY Zenon DEF CpuTemperature
<1>5. readable # {} => Min(chosen) \in DOMAIN zones
  <2>1. chosen \in SUBSET Nat /\ chosen \subseteq DOMAIN zones
    BY <1>1
  <2>2. readable # {} => chosen # {}
    OBVIOUS
  <2> HIDE DEF chosen, readable
  <2>3. ASSUME readable # {}
        PROVE  Min(chosen) \in chosen
    <3>1. PICK m \in chosen : \A n \in chosen : m <= n
      BY <2>1, <2>2, <2>3, LeastNumber
    <3>2. QED
      BY <2>1, <3>1, MinIsLeast
  <2>4. QED
    BY <2>1, <2>3
<1> HIDE DEF chosen, readable
<1>6. QED
  BY <1>3, <1>4, <1>5

\* n characters from (x, y) end on the panel; an item of n characters drawn to its end.
EndsOnPanel(x, y, n) == x + 6 * n - 1 <= PanelWidth /\ y + 7 <= PanelHeight
IsWhole(item, x, y, n) == item.x = x /\ item.y = y /\ Len(item.text) = n /\ item.drawn = n

\* An item whose text ends on the panel, by the length of its text.
LEMMA WholeText ==
  ASSUME NEW x \in Nat, NEW y \in Nat, NEW n \in Nat, NEW text \in Seq(Character), Len(text) = n,
         EndsOnPanel(x, y, n)
  PROVE  IsWhole(Text(x, y, text), x, y, n)
<1>1. PICK d : d = DrawnLength(x, y, text)
  OBVIOUS
<1>2. d = n
  <2>1. DrawnLength(x, y, text) = Len(text)
    <3>1. x + 6 * Len(text) - 1 <= PanelWidth /\ y + 7 <= PanelHeight
      BY Zenon DEF EndsOnPanel
    <3>2. QED
      BY <3>1, DrawnToItsEnd, Zenon
  <2>2. QED
    BY <1>1, <2>1, Zenon
<1>3. Text(x, y, text) = [x |-> x, y |-> y, text |-> text, drawn |-> d]
  BY <1>1, Zenon DEF Text
<1> HIDE <1>1
<1>4. PICK item : item = Text(x, y, text)
  OBVIOUS
<1>5. item.x = x /\ item.y = y /\ item.text = text /\ item.drawn = d
  BY ONLY <1>3, <1>4
<1>6. QED
  BY <1>2, <1>4, <1>5, Zenon DEF IsWhole

LEMMA LabelledText ==
  ASSUME NEW x \in Nat, NEW y \in Nat, NEW m \in Nat, NEW n \in Nat,
         NEW label \in Seq(Character), NEW text \in Seq(Character), Len(label) = m, Len(text) = n,
         EndsOnPanel(x, y, m + n)
  PROVE  IsWhole(Text(x, y, label \o text), x, y, m + n)
<1>1. label \o text \in Seq(Character) /\ Len(label \o text) = Len(label) + Len(text)
  BY ConcatProperties
<1>2. PICK all : all = label \o text
  OBVIOUS
<1>3. all \in Seq(Character) /\ Len(all) = m + n
  BY <1>1, <1>2, Zenon
<1>4. m + n \in Nat
  OBVIOUS
<1>5. QED
  BY <1>2, <1>3, <1>4, WholeText

\* The place and the length of each text.
TextsAre(n, m, k) ==
  /\ IpItem.x = 2           /\ IpItem.y = 3           /\ IpItem.drawn = n
  /\ NameItem.x = 3         /\ NameItem.y = 43        /\ NameItem.drawn = m
  /\ TemperatureItem.x = 2  /\ TemperatureItem.y = 57 /\ TemperatureItem.drawn = k
  /\ TimeItem.x = 78        /\ TimeItem.y = 57        /\ TimeItem.drawn = 8

LEMMA TextsFit ==
  ASSUME StatusTypeOK
  PROVE  /\ \A item \in TextItems : item.drawn = Len(item.text)
         /\ \E n \in 3..18, m \in 4..21, k \in 6..8 : TextsAre(n, m, k)
<1>1. PICK n \in 3..18 : IsWhole(IpItem, 2, 3, n)
  <2>1. PICK label : label = <<"I", "P", " ">>
    OBVIOUS
  <2>2. label \in Seq(Character) /\ Len(label) = 3
    BY <2>1, Tuples, LiteralCharacters, Zenon
  <2>3. PICK ip : ip = ShownIp
    OBVIOUS
  <2>4. PICK n \in 0..15 : ip \in Seq(Character) /\ Len(ip) = n
    BY <2>3, ShownIpType, Zenon
  <2>5. /\ 2 \in Nat /\ 3 \in Nat /\ n \in Nat /\ EndsOnPanel(2, 3, 3 + n) /\ 3 + n \in 3..18
    BY SMT DEF EndsOnPanel, PanelWidth, PanelHeight
  <2>6. IpItem = Text(2, 3, label \o ip)
    BY <2>1, <2>3, Zenon DEF IpItem
  <2>7. QED
    BY ONLY <2>2, <2>4, <2>5, <2>6, LabelledText
<1>2. PICK m \in 4..21 : IsWhole(NameItem, 3, 43, m)
  <2>1. PICK label : label = <<"A", "P", "P", " ">>
    OBVIOUS
  <2>2. label \in Seq(Character) /\ Len(label) = 4
    BY <2>1, Tuples, LiteralCharacters, Zenon
  <2>3. PICK name : name = ClippedAppName(applicationName)
    OBVIOUS
  <2>4. PICK m \in 0..17 : name \in Seq(Character) /\ Len(name) = m
    <3>1. applicationName \in Seq(STRING)
      BY DEF StatusTypeOK
    <3>2. QED
      BY <2>3, <3>1, ClippedName, Zenon
  <2>5. /\ 3 \in Nat /\ 43 \in Nat /\ 4 \in Nat /\ m \in Nat /\ EndsOnPanel(3, 43, 4 + m) /\ 4 + m \in 4..21
    BY SMT DEF EndsOnPanel, PanelWidth, PanelHeight
  <2>6. NameItem = Text(3, 43, label \o name)
    BY <2>1, <2>3, Zenon DEF NameItem
  <2>7. QED
    BY ONLY <2>2, <2>4, <2>5, <2>6, LabelledText
<1>3. PICK k \in 6..8 : IsWhole(TemperatureItem, 2, 57, k)
  <2>1. PICK text : text = TemperatureText(CpuTemperature(zones))
    OBVIOUS
  <2>2. PICK k \in 6..8 : text \in Seq(Character) /\ Len(text) = k
    BY <2>1, CpuTemperatureType, TemperatureType, Zenon
  <2>3. 2 \in Nat /\ 57 \in Nat /\ k \in Nat /\ EndsOnPanel(2, 57, k)
    BY SMT DEF EndsOnPanel, PanelWidth, PanelHeight
  <2>4. TemperatureItem = Text(2, 57, text)
    BY <2>1, Zenon DEF TemperatureItem
  <2>5. QED
    BY ONLY <2>2, <2>3, <2>4, WholeText
<1>4. IsWhole(TimeItem, 78, 57, 8)
  <2>1. PICK text : text = [i \in 1..8 |-> IF i \in {3, 6} THEN ":" ELSE "-"]
    OBVIOUS
  <2>2. text \in Seq(Character) /\ Len(text) = 8
    <3>1. text \in [1..8 -> Character]
      <4>1. \A i \in 1..8 : (IF i \in {3, 6} THEN ":" ELSE "-") \in Character
        BY LiteralCharacters, Zenon
      <4>2. QED
        BY ONLY <2>1, <4>1, Zenon
    <3>2. PICK l \in Nat : l = 8
      OBVIOUS
    <3>3. text \in [1..l -> Character]
      BY ONLY <3>1, <3>2, Zenon
    <3>4. text \in Seq(Character) /\ Len(text) = l
      BY ONLY <3>3, l \in Nat, SeqOfLength
    <3>5. QED
      BY ONLY <3>2, <3>4, Zenon
  <2>3. 78 \in Nat /\ 57 \in Nat /\ 8 \in Nat /\ EndsOnPanel(78, 57, 8)
    BY SMT DEF EndsOnPanel, PanelWidth, PanelHeight
  <2>4. TimeItem = Text(78, 57, text)
    BY <2>1, Zenon DEF TimeItem
  <2>5. QED
    BY ONLY <2>2, <2>3, <2>4, WholeText
<1>5. \A item \in TextItems : item.drawn = Len(item.text)
  <2>1. /\ IpItem.drawn = Len(IpItem.text) /\ NameItem.drawn = Len(NameItem.text)
        /\ TemperatureItem.drawn = Len(TemperatureItem.text) /\ TimeItem.drawn = Len(TimeItem.text)
    BY <1>1, <1>2, <1>3, <1>4, Zenon DEF IsWhole
  <2>2. QED
    BY ONLY <2>1, Zenon DEF TextItems
<1>6. TextsAre(n, m, k)
  BY <1>1, <1>2, <1>3, <1>4, Zenon DEF TextsAre, IsWhole
<1>7. QED
  BY <1>5, <1>6
\* The eight boxes of a frame, apart from each other and inside of the panel.
LEMMA BoxesFit ==
  ASSUME NEW n \in 3..18, NEW m \in 4..21, NEW k \in 6..8, TextsAre(n, m, k)
  PROVE  /\ Cardinality(TextItems) = 4 /\ Cardinality(Boxes) = 8
         /\ \A box \in Boxes : IsInside(box, Rectangle(0, 0, PanelWidth, PanelHeight))
         /\ \A a, b \in Boxes : a # b => IsApart(a, b)
<1>1. PICK b1, b2, b3, b4, b5, b6, b7, b8 :
        /\ b1 = BoxOf(IpItem) /\ b2 = BoxOf(NameItem) /\ b3 = BoxOf(TemperatureItem)
        /\ b4 = BoxOf(TimeItem) /\ b5 = ConnectionIcon /\ b6 = TitleBand /\ b7 = HorizontalLine
        /\ b8 = Divider
  OBVIOUS
<1>2. Boxes = {b1, b2, b3, b4, b5, b6, b7, b8}
  BY <1>1 DEF Boxes, TextItems
<1>3. /\ b1.x = 2   /\ b1.y = 3  /\ b1.width = 6 * n - 1 /\ b1.height = 7
      /\ b2.x = 3   /\ b2.y = 43 /\ b2.width = 6 * m - 1 /\ b2.height = 7
      /\ b3.x = 2   /\ b3.y = 57 /\ b3.width = 6 * k - 1 /\ b3.height = 7
      /\ b4.x = 78  /\ b4.y = 57 /\ b4.width = 6 * 8 - 1 /\ b4.height = 7
  BY <1>1 DEF TextsAre, BoxOf, Rectangle
<1>4. /\ b5.x = 114 /\ b5.y = 3  /\ b5.width = 12        /\ b5.height = 8
      /\ b6.x = 0   /\ b6.y = 16 /\ b6.width = 128       /\ b6.height = 24
      /\ b7.x = 1   /\ b7.y = 53 /\ b7.width = 126       /\ b7.height = 1
      /\ b8.x = 64  /\ b8.y = 57 /\ b8.width = 1         /\ b8.height = 7
  BY <1>1 DEF ConnectionIcon, TitleBand, HorizontalLine, Divider, Rectangle, PanelWidth
<1> HIDE <1>1
<1>5. 6 * n - 1 \in Nat /\ 6 * n - 1 <= 107 /\ 6 * m - 1 \in Nat /\ 6 * m - 1 <= 125
      /\ 6 * k - 1 \in Nat /\ 6 * k - 1 <= 47
  OBVIOUS
<1>6. \A box \in Boxes : IsInside(box, Rectangle(0, 0, PanelWidth, PanelHeight))
  BY ONLY <1>2, <1>3, <1>4, <1>5, SMT DEF IsInside, Rectangle, PanelWidth, PanelHeight
<1>7. \A a, b \in Boxes : a # b => IsApart(a, b)
  BY ONLY <1>2, <1>3, <1>4, <1>5, SMT DEF IsApart
<1>8. Cardinality(TextItems) = 4
  <2>1. PICK i1, i2, i3, i4 : i1 = IpItem /\ i2 = NameItem /\ i3 = TemperatureItem /\ i4 = TimeItem
    OBVIOUS
  <2>2. /\ i1.x = 2 /\ i1.y = 3 /\ i2.x = 3 /\ i2.y = 43 /\ i3.x = 2 /\ i3.y = 57
        /\ i4.x = 78 /\ i4.y = 57
    BY <2>1, Zenon DEF TextsAre
  <2>3. i1 # i2 /\ i1 # i3 /\ i1 # i4 /\ i2 # i3 /\ i2 # i4 /\ i3 # i4
    BY ONLY <2>2, SMT
  <2>4. TextItems = {i1, i2, i3, i4}
    BY <2>1, Zenon DEF TextItems
  <2>5. QED
    BY ONLY <2>3, <2>4, FourElements, Zenon
<1>9. Cardinality(Boxes) = 8
  <2>1. /\ b1 # b2 /\ b1 # b3 /\ b1 # b4 /\ b2 # b3 /\ b2 # b4 /\ b3 # b4
        /\ b5 # b6 /\ b5 # b7 /\ b5 # b8 /\ b6 # b7 /\ b6 # b8 /\ b7 # b8
        /\ \A b \in {b5, b6, b7, b8} : b \notin {b1, b2, b3, b4}
    BY ONLY <1>3, <1>4, SMT
  <2>2. PICK T : T = {b1, b2, b3, b4}
    OBVIOUS
  <2>3. IsFiniteSet(T) /\ Cardinality(T) = 4
    BY ONLY <2>1, <2>2, FourElements, Zenon
  <2>4. Boxes = T \cup {b5, b6, b7, b8}
    BY <1>2, <2>2
  <2>5. b5 \notin T /\ b6 \notin T /\ b7 \notin T /\ b8 \notin T
    BY ONLY <2>1, <2>2
  <2>6. QED
    <3>1. Cardinality(T \cup {b5, b6, b7, b8}) = Cardinality(T) + 4
      BY ONLY <2>1, <2>3, <2>5, FourMore
    <3>2. 4 + 4 = 8
      OBVIOUS
    <3>3. QED
      BY ONLY <2>3, <2>4, <3>1, <3>2, Zenon
<1>10. QED
  BY <1>6, <1>7, <1>8, <1>9

\* The letters of the title stay apart and on the panel.
LEMMA TitleFits ==
  /\ \A i, j \in DOMAIN TitleInk : i < j => LetterColumns(i) \cap LetterColumns(j) = {}
  /\ UNION {LetterColumns(i) : i \in DOMAIN TitleInk} \subseteq 0..(PanelWidth - 1)
<1>1. DOMAIN TitleInk = 1..7 /\ TitleStart = 25
  BY DEF TitleInk, TitleStart, FontWidth, PanelWidth
<1>2. \A i \in 1..7 : TitleInk[i] \subseteq 1..10
  BY DEF TitleInk, InkOfI, InkOfO, InkOfT, InkOfA, InkOfP
<1>3. ASSUME NEW i \in 1..7, NEW x \in LetterColumns(i)
      PROVE  x \in Int /\ 26 + 11 * (i - 1) <= x /\ x <= 36 + 11 * (i - 1)
  <2>1. PICK c \in TitleInk[i] : x = 25 + (i - 1) * 11 + c \/ x = 25 + (i - 1) * 11 + c + 1
    BY <1>1, <1>3 DEF LetterColumns, FontWidth
  <2>2. c \in 1..10
    BY <1>2
  <2>3. QED
    BY <2>1, <2>2
<1>4. ASSUME NEW i \in 1..7, NEW j \in 1..7, i < j, NEW x \in LetterColumns(i), x \in LetterColumns(j)
      PROVE  FALSE
  <2>1. x \in Int /\ x <= 36 + 11 * (i - 1) /\ 26 + 11 * (j - 1) <= x
    BY <1>3, <1>4
  <2>2. QED
    BY <1>4, <2>1
<1>5. ASSUME NEW i \in 1..7, NEW x \in LetterColumns(i)
      PROVE  x \in 0..(PanelWidth - 1)
  BY <1>3 DEF PanelWidth
<1>6. QED
  BY <1>1, <1>4, <1>5

\* Whatever the device is called, reads and measures, its status can be read off the panel.
THEOREM StatusCanBeRead == StatusTypeOK => StatusIsLegible
<1> SUFFICES ASSUME StatusTypeOK
             PROVE  StatusIsLegible
  OBVIOUS
<1>1. PICK n \in 3..18, m \in 4..21, k \in 6..8 : TextsAre(n, m, k)
  BY TextsFit
<1>2. Cardinality(Boxes) = Cardinality(TextItems) + 4
  BY <1>1, BoxesFit
<1>3. /\ \A box \in Boxes : IsInside(box, Rectangle(0, 0, PanelWidth, PanelHeight))
      /\ \A a, b \in Boxes : a # b => IsApart(a, b)
  BY <1>1, BoxesFit, Zenon
<1>4. IsInside(IconStroke, ConnectionIcon) /\ IsInside(TitleRows, TitleBand)
  BY DEF IsInside, IconStroke, ConnectionIcon, TitleRows, TitleBand, Rectangle, PanelWidth
<1> DEFINE shown == ClippedAppName(applicationName)
<1>5. /\ \A i \in 1..Min({Len(applicationName), 14}) : shown[i] = Printable(applicationName[i])
      /\ Len(applicationName) <= 17 => Len(shown) = Len(applicationName)
  <2>1. applicationName \in Seq(STRING)
    BY DEF StatusTypeOK
  <2>2. QED
    BY <2>1, ClippedName, Zenon
<1>6. \A i \in 1..Min({Len(applicationName), 14}) :
        shown[i] = applicationName[i] \/ (shown[i] = "?" /\ ~IsPrintable(applicationName[i]))
  BY <1>5, Zenon DEF Printable
<1>7. \A i \in DOMAIN shown :
        shown[i] \in Upper \cup Lower \cup ToSet(Digit) \cup {"?", "."} => shown[i] \in HasGlyph
  BY Zenon DEF HasGlyph
<1>8. \A item \in TextItems : item.drawn = Len(item.text)
  BY TextsFit
<1>9. QED
  BY <1>2, <1>3, <1>4, <1>5, <1>6, <1>7, <1>8, ShownAddressesAreReachable, TitleFits, Zenon
  DEF StatusIsLegible

-----------------------------------------------------------------------------
(***************************************************************************)
(* Sequences and their elements.                                           *)
(***************************************************************************)

\* The places and elements of a sequence.
LEMMA SequenceIs ==
  ASSUME NEW s, IsSequence(s)
  PROVE  /\ s \in Seq(ToSet(s)) /\ Len(s) \in Nat /\ DOMAIN s = 1..Len(s)
         /\ \A i \in 1..Len(s) : s[i] \in ToSet(s)
BY LenProperties DEF IsSequence, ToSet

LEMMA FiniteRange ==
  ASSUME NEW s, IsSequence(s)
  PROVE  IsFiniteSet(ToSet(s))
<1>1. DOMAIN s = 1..Len(s) /\ Len(s) \in Nat /\ s = [i \in 1..Len(s) |-> s[i]]
  BY SequenceIs DEF IsSequence
<1>2. s \in Surjection(1..Len(s), ToSet(s))
  BY <1>1 DEF Surjection, ToSet
<1>3. QED
  BY <1>1, <1>2, FS_Interval, FS_Surjection

\* A permutation of a finite set has all of its elements.
LEMMA OrderHasAll ==
  ASSUME NEW S, IsFiniteSet(S), NEW order \in SetToSeqs(S)
  PROVE  ToSet(order) = S
<1> DEFINE n == Cardinality(S)
<1>1. n \in Nat
  BY FS_CardinalityType
<1>2. order \in [1..n -> S] /\ \A i, j \in 1..n : i # j => order[i] # order[j]
  BY DEF SetToSeqs
<1>3. order \in Injection(1..n, S)
  BY <1>2 DEF Injection, IsInjective
<1>4. Cardinality(1..n) = n /\ IsFiniteSet(1..n)
  BY <1>1, FS_Interval
<1>5. order \in Surjection(1..n, S)
  BY <1>3, <1>4, FS_Injection
<1>6. QED
  BY <1>2, <1>5 DEF Surjection, ToSet

-----------------------------------------------------------------------------
(***************************************************************************)
(* Monitors: the texts of an EDID block.                                   *)
(***************************************************************************)

LEMMA TrimmedIsClean ==
  ASSUME NEW text, IsSequence(text)
  PROVE  IsClean(TrimDescriptor(text))
<1> DEFINE E    == {Len(text) + 1} \cup {i \in DOMAIN text : text[i] \in Padding}
           end  == Min(E)
           head == SubSeq(text, 1, end - 1)
           L    == {0} \cup {i \in DOMAIN head : head[i] \notin Spaces}
           last == Max(L)
           s    == SubSeq(head, 1, last)
<1>1. TrimDescriptor(text) = s
  BY DEF TrimDescriptor
<1>2. text \in Seq(ToSet(text)) /\ Len(text) \in Nat /\ DOMAIN text = 1..Len(text)
  BY SequenceIs
<1>3. /\ end \in 1..(Len(text) + 1) /\ \A i \in 1..(end - 1) : text[i] \notin Padding
  <2>1. E \in SUBSET Nat /\ E # {}
    BY <1>2
  <2>2. PICK e \in E : \A i \in E : e <= i
    <3> HIDE DEF E
    <3>1. QED
      BY <2>1, LeastNumber
  <2>3. end = e
    <3> HIDE DEF E
    <3>1. QED
      BY <2>1, <2>2, MinIsLeast
  <2> HIDE DEF end
  <2>4. \A i \in 1..(e - 1) : i \notin E
    BY <1>2, <2>2
  <2>5. QED
    BY <1>2, <2>2, <2>3, <2>4
<1> HIDE DEF end, E
<1>4. /\ head \in Seq(ToSet(text)) /\ Len(head) = end - 1 /\ DOMAIN head = 1..(end - 1)
      /\ \A i \in 1..(end - 1) : head[i] = text[i]
  <2>1. end - 1 \in 0..Len(text)
    BY <1>2, <1>3
  <2>2. \A i \in 1..(end - 1) : text[i] \in ToSet(text)
    BY <1>2, <2>1, SequenceIs
  <2>3. head = [i \in 1..(end - 1) |-> text[i]]
    BY <1>2, <2>1, SubSeqProperties
  <2>4. QED
    BY <2>1, <2>2, <2>3, SubSeqProperties, <1>2
<1> HIDE DEF head
<1>5. last \in L /\ last \in 0..(end - 1)
  <2>1. /\ L \in SUBSET (0..(end - 1)) /\ L \in SUBSET Nat /\ L # {} /\ end - 1 \in Nat
        /\ \A i \in L : i <= end - 1
    BY <1>3, <1>4, <1>2
  <2>2. PICK l \in L : \A i \in L : i <= l
    <3> HIDE DEF L
    <3>1. QED
      BY <2>1, GreatestNumber
  <2>3. last = l
    <3>1. \A i \in L : l >= i
      BY <2>1, <2>2
    <3> HIDE DEF L
    <3>2. QED
      BY <2>1, <2>2, <3>1, MaxIsGreatest
  <2> HIDE DEF L, last
  <2>4. QED
    BY <2>1, <2>2, <2>3
<1> DEFINE x == last
<1> HIDE DEF last
<1>6. /\ s \in Seq(ToSet(text)) /\ Len(s) = last /\ DOMAIN s = 1..last
      /\ \A i \in 1..last : s[i] = text[i] /\ i \in 1..(end - 1)
  <2>1. last \in Nat /\ end - 1 \in Nat /\ last <= end - 1 /\ last \in 0..Len(head)
    BY <1>2, <1>3, <1>4, <1>5
  <2>2. s = [i \in 1..last |-> head[i]]
    BY <1>4, <2>1, SubSeqProperties
  <2>3. \A i \in 1..last : i \in 1..(end - 1) /\ head[i] = text[i]
    BY <1>4, <2>1
  <2>4. s \in Seq(ToSet(text)) /\ Len(s) = last
    BY <1>4, <2>1, SubSeqProperties
  <2>5. QED
    BY <2>2, <2>3, <2>4
<1> HIDE DEF s
<1>7. CASE last = 0
  BY <1>1, <1>6, <1>7, EmptySeq DEF IsClean
<1>8. CASE last # 0
  <2>1. last \in 1..last /\ last \in 1..(end - 1) /\ head[last] \notin Spaces
    BY <1>3, <1>4, <1>5, <1>8
  <2>2. Last(s) \notin Spaces
    BY <1>4, <1>6, <2>1 DEF Last
  <2>3. ToSet(s) \cap Padding = {}
    BY <1>3, <1>6 DEF ToSet
  <2>4. QED
    BY <1>1, <2>2, <2>3 DEF IsClean
<1>9. QED
  BY <1>7, <1>8

\* The connectors of a directory.
ConnectorAssumption(connector) ==
  /\ IsSequence(connector.edid.descriptors) /\ connector.edid.number \notin Padding \cup Spaces
  /\ \A k \in DOMAIN connector.edid.descriptors : IsSequence(connector.edid.descriptors[k].text)

LEMMA DescriptorIsClean ==
  ASSUME NEW connector, ConnectorAssumption(connector), NEW tag
  PROVE  IsClean(DescriptorText(connector.edid, tag))
<1> DEFINE d == connector.edid.descriptors
           T == {i \in DOMAIN d : d[i].tag = tag}
<1>1. IsSequence(d) /\ \A k \in DOMAIN d : IsSequence(d[k].text)
  BY DEF ConnectorAssumption
<1>2. DescriptorText(connector.edid, tag) = IF T = {} THEN << >> ELSE TrimDescriptor(d[Max(T)].text)
  BY DEF DescriptorText
<1>3. DOMAIN d = 1..Len(d) /\ Len(d) \in Nat
  BY <1>1, SequenceIs
<1>4. CASE T = {}
  BY <1>2, <1>4 DEF IsClean
<1>5. CASE T # {}
  <2>1. T \in SUBSET Nat /\ \A i \in T : i <= Len(d) /\ i \in DOMAIN d
    BY <1>3
  <2>2. PICK l \in T : \A i \in T : i <= l
    <3> HIDE DEF T
    <3>1. QED
      BY <1>3, <1>5, <2>1, GreatestNumber
  <2>3. Max(T) = l
    <3>1. \A i \in T : l >= i
      BY <2>1, <2>2
    <3> HIDE DEF T
    <3>2. QED
      BY <2>1, <2>2, <3>1, MaxIsGreatest
  <2>4. IsSequence(d[Max(T)].text)
    BY <1>1, <2>1, <2>3
  <2>5. QED
    BY <1>2, <1>5, <2>4, TrimmedIsClean
<1>6. QED
  BY <1>4, <1>5

LEMMA EdidIsClean ==
  ASSUME NEW connector, ConnectorAssumption(connector)
  PROVE  /\ IsClean(ParseEdid(connector.edid).model)
         /\ IsClean(ParseEdid(connector.edid).serial)
<1> DEFINE edid == connector.edid
           text == DescriptorText(edid, "serial")
           name == DescriptorText(edid, "name")
<1>1. IsClean(text) /\ IsClean(name)
  BY DescriptorIsClean
<1>2. IsClean(<< >>)
  BY DEF IsClean
<1>3. IsClean(<<edid.number>>)
  <2>1. edid.number \notin Padding /\ edid.number \notin Spaces
    BY DEF ConnectorAssumption
  <2>2. \E x : x = edid.number
    OBVIOUS
  <2>3. ASSUME NEW x, x \notin Padding, x \notin Spaces
        PROVE  IsClean(<<x>>)
    BY <2>3 DEF IsClean, ToSet, Last
  <2>4. QED
    BY <2>1, <2>3
<1>4. \/ ParseEdid(edid) = EmptyEdid
      \/ /\ ParseEdid(edid).model = name
         /\ ParseEdid(edid).serial \in {text, <<edid.number>>}
  BY DEF ParseEdid
<1>5. EmptyEdid.model = << >> /\ EmptyEdid.serial = << >>
  BY DEF EmptyEdid
<1> HIDE DEF text, name, edid
<1>6. QED
  BY <1>1, <1>2, <1>3, <1>4, <1>5 DEF edid

-----------------------------------------------------------------------------
(***************************************************************************)
(* Monitors: the order of the cards.  Their numbers are compared as text,  *)
(* which is a total order, so each card has a place of its own.            *)
(***************************************************************************)

\* s is before t, and this can be told at place i.
DiffersAt(s, t, i) ==
  /\ i \in 1..(Len(s) + 1) /\ i \in 1..Len(t)
  /\ \A k \in 1..(i - 1) : s[k] = t[k]
  /\ i <= Len(s) => s[i] < t[i]

LEMMA BeforeIs ==
  ASSUME NEW a, NEW b, a.number \in Seq(Digits), b.number \in Seq(Digits)
  PROVE  IsBefore(a, b) <=> \E i \in 1..(Len(a.number) + 1) : DiffersAt(a.number, b.number, i)
<1> DEFINE s == a.number
           t == b.number
<1>0. /\ s \in Seq(Digits) /\ t \in Seq(Digits) /\ Len(s) \in Nat /\ Len(t) \in Nat
      /\ DOMAIN s = 1..Len(s) /\ DOMAIN t = 1..Len(t)
  BY LenProperties
<1>1. IsBefore(a, b) <=> \/ IsStrictPrefix(s, t)
                         \/ \E i \in DOMAIN s \cap DOMAIN t :
                              SubSeq(s, 1, i - 1) = SubSeq(t, 1, i - 1) /\ s[i] < t[i]
  BY DEF IsBefore
<1> HIDE DEF s, t
<1>2. ASSUME NEW i \in Nat, i <= Len(s), i <= Len(t)
      PROVE  SubSeq(s, 1, i) = SubSeq(t, 1, i) <=> \A k \in 1..i : s[k] = t[k]
  <2>1. SubSeq(s, 1, i) = [k \in 1..i |-> s[k]] /\ SubSeq(t, 1, i) = [k \in 1..i |-> t[k]]
    BY <1>0, <1>2, SubSeqProperties
  <2>2. QED
    BY <2>1
<1>3. IsStrictPrefix(s, t) <=> DiffersAt(s, t, Len(s) + 1)
  <2>1. ASSUME IsStrictPrefix(s, t)
        PROVE  DiffersAt(s, t, Len(s) + 1)
    <3>1. Len(s) <= Len(t) /\ SubSeq(s, 1, Len(s)) = SubSeq(t, 1, Len(s)) /\ s # t
      BY <2>1 DEF IsStrictPrefix, IsPrefix
    <3>2. \A k \in 1..Len(s) : s[k] = t[k]
      BY <1>0, <1>2, <3>1
    <3>3. Len(s) # Len(t)
      <4>1. ASSUME Len(s) = Len(t)
            PROVE  s = t
        BY <1>0, <3>2, <4>1, SeqEqual
      <4>2. QED
        BY <3>1, <4>1
    <3>4. Len(s) + 1 \in 1..(Len(s) + 1) /\ Len(s) + 1 \in 1..Len(t) /\ Len(s) + 1 - 1 = Len(s)
      <4>1. Len(s) \in Nat /\ Len(t) \in Nat /\ Len(s) <= Len(t)
        BY <1>0, <3>1
      <4>2. QED
        BY <3>3, <4>1
    <3>5. QED
      BY <1>0, <3>2, <3>4 DEF DiffersAt
  <2>2. ASSUME DiffersAt(s, t, Len(s) + 1)
        PROVE  IsStrictPrefix(s, t)
    <3>1. Len(s) < Len(t) /\ \A k \in 1..Len(s) : s[k] = t[k]
      BY <1>0, <2>2 DEF DiffersAt
    <3>2. SubSeq(s, 1, Len(s)) = SubSeq(t, 1, Len(s))
      BY <1>0, <1>2, <3>1
    <3>3. s # t
      BY <1>0, <3>1
    <3>4. QED
      BY <1>0, <3>1, <3>2, <3>3 DEF IsStrictPrefix, IsPrefix
  <2>3. QED
    BY <2>1, <2>2
<1>4. ASSUME NEW i \in 1..Len(s)
      PROVE  DiffersAt(s, t, i) <=>
               i \in DOMAIN t /\ SubSeq(s, 1, i - 1) = SubSeq(t, 1, i - 1) /\ s[i] < t[i]
  <2>1. CASE i \in 1..Len(t)
    <3>1. i - 1 \in Nat /\ i - 1 <= Len(s) /\ i - 1 <= Len(t)
      BY <1>0, <2>1
    <3>2. SubSeq(s, 1, i - 1) = SubSeq(t, 1, i - 1) <=> \A k \in 1..(i - 1) : s[k] = t[k]
      BY <1>2, <3>1
    <3>3. QED
      BY <1>0, <2>1, <3>2 DEF DiffersAt
  <2>2. CASE i \notin 1..Len(t)
    BY <1>0, <2>2 DEF DiffersAt
  <2>3. QED
    BY <2>1, <2>2
<1>5. \A i \in 1..(Len(s) + 1) : i \in 1..Len(s) \/ i = Len(s) + 1
  BY <1>0
<1>6. Len(s) + 1 \in 1..(Len(s) + 1) /\ \A i \in 1..Len(s) : i \in 1..(Len(s) + 1)
  BY <1>0
<1>7. (\E i \in DOMAIN s \cap DOMAIN t : SubSeq(s, 1, i - 1) = SubSeq(t, 1, i - 1) /\ s[i] < t[i])
        <=> \E i \in 1..Len(s) : DiffersAt(s, t, i)
  BY <1>0, <1>4
<1>8. (\E i \in 1..(Len(s) + 1) : DiffersAt(s, t, i))
        <=> DiffersAt(s, t, Len(s) + 1) \/ \E i \in 1..Len(s) : DiffersAt(s, t, i)
  BY <1>5, <1>6
<1>9. QED
  BY <1>1, <1>3, <1>7, <1>8 DEF s, t

\* Two different numbers are in one order or the other.
LEMMA OneIsBefore ==
  ASSUME NEW s \in Seq(Digits), NEW t \in Seq(Digits), s # t
  PROVE  \/ \E i \in 1..(Len(s) + 1) : DiffersAt(s, t, i)
         \/ \E i \in 1..(Len(t) + 1) : DiffersAt(t, s, i)
<1>0. /\ Len(s) \in Nat /\ Len(t) \in Nat /\ DOMAIN s = 1..Len(s) /\ DOMAIN t = 1..Len(t)
      /\ \A k \in 1..Len(s) : s[k] \in Int
      /\ \A k \in 1..Len(t) : t[k] \in Int
  <2>1. \A k \in 1..Len(s) : s[k] \in Digits
    OBVIOUS
  <2>2. \A k \in 1..Len(t) : t[k] \in Digits
    OBVIOUS
  <2>3. Len(s) \in Nat /\ Len(t) \in Nat /\ DOMAIN s = 1..Len(s) /\ DOMAIN t = 1..Len(t)
    BY LenProperties
  <2>4. Digits \subseteq Int
    BY DEF Digits
  <2>5. QED
    BY <2>1, <2>2, <2>3, <2>4
<1> DEFINE D == {k \in 1..(Len(s) + 1) : k = Len(s) + 1 \/ k > Len(t) \/ s[k] # t[k]}
<1>1. D \in SUBSET Nat /\ Len(s) + 1 \in D
  BY <1>0
<1>2. PICK i \in D : \A k \in D : i <= k
  <2> HIDE DEF D
  <2>1. QED
    BY <1>1, LeastNumber
<1>3. /\ i \in 1..(Len(s) + 1)
      /\ \A k \in 1..(i - 1) : k \in 1..Len(s) /\ k <= Len(t) /\ s[k] = t[k]
  BY <1>0, <1>2
<1>4. i <= Len(t) + 1
  BY <1>0, <1>3
<1>5. CASE i = Len(s) + 1 /\ i <= Len(t)
  BY <1>0, <1>3, <1>5 DEF DiffersAt
<1>6. CASE i <= Len(s) /\ i = Len(t) + 1
  BY <1>0, <1>3, <1>6 DEF DiffersAt
<1>7. CASE i <= Len(s) /\ i <= Len(t)
  <2>1. s[i] # t[i] /\ s[i] \in Int /\ t[i] \in Int
    BY <1>0, <1>2, <1>3, <1>7
  <2>2. s[i] < t[i] \/ t[i] < s[i]
    BY <2>1
  <2>3. QED
    BY <1>0, <1>3, <1>7, <2>2 DEF DiffersAt
<1>8. CASE i = Len(s) + 1 /\ i = Len(t) + 1
  <2>1. Len(s) = Len(t) /\ \A k \in 1..Len(s) : s[k] = t[k]
    <3>1. i - 1 = Len(s) /\ Len(s) = Len(t)
      <4>1. Len(s) \in Nat /\ Len(t) \in Nat
        BY <1>0
      <4>2. QED
        BY <1>8, <4>1
    <3>2. QED
      BY <1>3, <3>1
  <2>2. s = t
    BY <1>0, <2>1, SeqEqual
  <2>3. QED
    BY <2>2
<1>9. QED
  BY <1>0, <1>3, <1>4, <1>5, <1>6, <1>7, <1>8

LEMMA BeforeIsTransitive ==
  ASSUME NEW s \in Seq(Digits), NEW t \in Seq(Digits), NEW u \in Seq(Digits),
         NEW i \in Nat, DiffersAt(s, t, i), NEW j \in Nat, DiffersAt(t, u, j)
  PROVE  \E k \in 1..(Len(s) + 1) : DiffersAt(s, u, k)
<1>0. /\ Len(s) \in Nat /\ Len(t) \in Nat /\ Len(u) \in Nat
      /\ \A k \in 1..Len(s) : s[k] \in Int
      /\ \A k \in 1..Len(t) : t[k] \in Int
      /\ \A k \in 1..Len(u) : u[k] \in Int
  <2>1. /\ \A k \in 1..Len(s) : s[k] \in Digits
        /\ \A k \in 1..Len(t) : t[k] \in Digits
        /\ \A k \in 1..Len(u) : u[k] \in Digits
    OBVIOUS
  <2>2. Len(s) \in Nat /\ Len(t) \in Nat /\ Len(u) \in Nat
    BY LenProperties
  <2>3. Digits \subseteq Int
    BY DEF Digits
  <2>4. QED
    BY <2>1, <2>2, <2>3
<1>1. /\ i <= Len(s) + 1 /\ i \in 1..Len(t) /\ \A k \in 1..(i - 1) : s[k] = t[k]
      /\ i <= Len(s) => s[i] < t[i]
  BY DEF DiffersAt
<1>2. /\ j <= Len(t) + 1 /\ j \in 1..Len(u) /\ \A k \in 1..(j - 1) : t[k] = u[k]
      /\ j <= Len(t) => t[j] < u[j]
  BY DEF DiffersAt
<1>4. CASE i <= j
  <2>1. i \in 1..Len(u) /\ i \in 1..(Len(s) + 1) /\ \A k \in 1..(i - 1) : s[k] = u[k]
    BY <1>0, <1>1, <1>2, <1>4
  <2>2. ASSUME i <= Len(s)
        PROVE  s[i] < u[i]
    <3>1. s[i] < t[i] /\ s[i] \in Int /\ t[i] \in Int /\ u[i] \in Int
      BY <1>0, <1>1, <2>1, <2>2
    <3>2. CASE i < j
      <4>1. i \in 1..(j - 1)
        BY <1>1, <1>2, <3>2
      <4>2. t[i] = u[i]
        BY <1>2, <4>1
      <4>3. QED
        BY <3>1, <4>2
    <3>3. CASE i = j
      BY <1>1, <1>2, <3>1, <3>3
    <3>4. QED
      BY <1>2, <1>4, <3>2, <3>3
  <2>3. QED
    BY <2>1, <2>2 DEF DiffersAt
<1>5. CASE j < i
  <2>1. j \in 1..(i - 1) /\ j \in 1..Len(s) /\ j \in 1..Len(t) /\ j \in 1..(Len(s) + 1)
    BY <1>0, <1>1, <1>2, <1>5
  <2>2. s[j] = t[j] /\ t[j] < u[j]
    BY <1>1, <1>2, <2>1
  <2>3. \A k \in 1..(j - 1) : s[k] = u[k]
    BY <1>0, <1>1, <1>2, <1>5
  <2>4. QED
    BY <1>2, <2>1, <2>2, <2>3 DEF DiffersAt
<1>6. QED
  BY <1>0, <1>1, <1>2, <1>4, <1>5

LEMMA BeforeIsStrict ==
  ASSUME NEW s \in Seq(Digits), NEW i \in Nat
  PROVE  ~DiffersAt(s, s, i)
<1>1. Len(s) \in Nat /\ \A k \in 1..Len(s) : s[k] \in Digits
  BY LenProperties
<1>2. \A k \in 1..Len(s) : s[k] \in Int
  BY <1>1 DEF Digits
<1>3. QED
  BY <1>1, <1>2 DEF DiffersAt

CardsOf(entries) == {card \in ToSet(entries) : IsPrimaryDevice(card)}

\* The cards of a directory are ordered by their numbers.
LEMMA CardsAreOrdered ==
  ASSUME NEW entries \in Directories, NEW a \in CardsOf(entries), NEW b \in CardsOf(entries)
  PROVE  /\ ~IsBefore(a, a)
         /\ a # b => IsBefore(a, b) \/ IsBefore(b, a)
         /\ \A c \in CardsOf(entries) : IsBefore(a, b) /\ IsBefore(b, c) => IsBefore(a, c)
<1>1. ASSUME NEW c \in CardsOf(entries)
      PROVE  c.prefix = "card" /\ c.number \in Seq(Digits)
  <2>1. c \in ToSet(entries) /\ IsPrimaryDevice(c)
    BY DEF CardsOf
  <2>2. IsSequence(c.number)
    BY <2>1, DiscoveryAssumption
  <2>3. c.number \in Seq(ToSet(c.number)) /\ ToSet(c.number) \subseteq Digits /\ c.prefix = "card"
    BY <2>1, <2>2 DEF IsSequence, IsPrimaryDevice
  <2>4. QED
    BY <2>3
<1>2. a # b => a.number # b.number
  <2>1. a \in ToSet(entries) /\ b \in ToSet(entries)
    BY DEF CardsOf
  <2>2. a.prefix = b.prefix
    BY <1>1
  <2>3. QED
    BY <2>1, <2>2, DiscoveryAssumption
<1>3. ~IsBefore(a, a)
  <2>1. \A i \in 1..(Len(a.number) + 1) : i \in Nat
    BY <1>1, LenProperties
  <2>2. QED
    BY <1>1, <2>1, BeforeIs, BeforeIsStrict
<1>4. a # b => IsBefore(a, b) \/ IsBefore(b, a)
  BY <1>1, <1>2, BeforeIs, OneIsBefore
<1>5. ASSUME NEW c \in CardsOf(entries), IsBefore(a, b), IsBefore(b, c)
      PROVE  IsBefore(a, c)
  <2>1. a.number \in Seq(Digits) /\ b.number \in Seq(Digits) /\ c.number \in Seq(Digits)
    BY <1>1
  <2>2. PICK i \in 1..(Len(a.number) + 1) : DiffersAt(a.number, b.number, i)
    BY <1>5, <2>1, BeforeIs
  <2>3. PICK j \in 1..(Len(b.number) + 1) : DiffersAt(b.number, c.number, j)
    BY <1>5, <2>1, BeforeIs
  <2>4. i \in Nat /\ j \in Nat
    OBVIOUS
  <2>5. \E k \in 1..(Len(a.number) + 1) : DiffersAt(a.number, c.number, k)
    BY <2>1, <2>2, <2>3, <2>4, BeforeIsTransitive
  <2>6. QED
    BY <2>1, <2>5, BeforeIs
<1>6. QED
  BY <1>3, <1>4, <1>5

\* Sorting neither loses a card nor repeats one.
LEMMA DevicesAreSorted ==
  ASSUME NEW entries \in Directories
  PROVE  /\ Cardinality(CardsOf(entries)) \in Nat
         /\ PrimaryDevices(entries) \in [1..Cardinality(CardsOf(entries)) -> CardsOf(entries)]
         /\ \A m, n \in 1..Cardinality(CardsOf(entries)) :
              PrimaryDevices(entries)[m] = PrimaryDevices(entries)[n] => m = n
<1> DEFINE cards     == CardsOf(entries)
           Below(a)  == {b \in cards : ~IsBefore(a, b)}
           Place(a)  == Cardinality(Below(a))
           N         == Cardinality(cards)
           place     == [a \in cards |-> Place(a)]
<1>1. IsFiniteSet(cards) /\ N \in Nat
  <2>1. IsSequence(entries) /\ cards \in SUBSET ToSet(entries)
    BY DiscoveryAssumption DEF CardsOf
  <2>2. QED
    BY <2>1, FiniteRange, FS_Subset, FS_CardinalityType
<1>2. ASSUME NEW a \in cards
      PROVE  /\ Below(a) \in SUBSET cards /\ IsFiniteSet(Below(a)) /\ a \in Below(a)
             /\ Place(a) \in 1..N
  <2>1. Below(a) \in SUBSET cards /\ a \in Below(a)
    BY CardsAreOrdered
  <2> HIDE DEF Below, cards
  <2>2. IsFiniteSet(Below(a)) /\ Place(a) \in Nat /\ Place(a) <= N
    BY <1>1, <2>1, FS_Subset, FS_CardinalityType
  <2>3. Place(a) # 0
    BY <2>1, <2>2, FS_EmptySet
  <2>4. QED
    BY <1>1, <2>1, <2>2, <2>3
<1>3. ASSUME NEW a \in cards, NEW b \in cards, IsBefore(a, b)
      PROVE  Place(a) # Place(b)
  <2>1. Below(a) \in SUBSET Below(b)
    BY <1>3, CardsAreOrdered
  <2>2. b \in Below(b) /\ b \notin Below(a) /\ IsFiniteSet(Below(b))
    BY <1>2, <1>3
  <2> HIDE DEF Below
  <2>3. QED
    BY <2>1, <2>2, FS_Subset
<1>4. place \in Injection(cards, 1..N)
  <2>1. place \in [cards -> 1..N]
    BY <1>2
  <2>2. ASSUME NEW a \in cards, NEW b \in cards, place[a] = place[b]
        PROVE  a = b
    <3>1. Place(a) = Place(b)
      BY <2>2
    <3> HIDE DEF Place
    <3>2. QED
      BY <1>3, <3>1, CardsAreOrdered
  <2> HIDE DEF place
  <2>3. QED
    BY <2>1, <2>2 DEF Injection, IsInjective
<1>5. Cardinality(1..N) = N /\ IsFiniteSet(1..N)
  BY <1>1, FS_Interval
<1>6. ASSUME NEW n \in 1..N
      PROVE  \E a \in cards : Place(a) = n
  <2>1. place \in Surjection(cards, 1..N)
    <3> HIDE DEF place, cards
    <3>1. QED
      BY <1>4, <1>5, FS_Injection
  <2>2. \E a \in cards : place[a] = n
    <3> HIDE DEF place, cards
    <3>1. QED
      BY <2>1 DEF Surjection
  <2>3. QED
    BY <2>2
<1>7. PrimaryDevices(entries) = [n \in 1..N |-> CHOOSE card \in cards : Place(card) = n]
  BY DEF PrimaryDevices, CardsOf
<1>8. ASSUME NEW n \in 1..N
      PROVE  PrimaryDevices(entries)[n] \in cards /\ Place(PrimaryDevices(entries)[n]) = n
  <2> HIDE DEF Place, cards
  <2>1. QED
    BY <1>6, <1>7
<1> HIDE DEF Place, cards
<1>9. \A m, n \in 1..N : PrimaryDevices(entries)[m] = PrimaryDevices(entries)[n] => m = n
  BY <1>8
<1>10. PrimaryDevices(entries) \in [1..N -> cards]
  BY <1>7, <1>8
<1>11. QED
  BY <1>1, <1>9, <1>10 DEF cards

-----------------------------------------------------------------------------
(***************************************************************************)
(* Monitors: the list of the scan, the choice, and what Python is told.    *)
(***************************************************************************)

Recursion(s, f) == [i \in 1..Len(s) |-> IF i = 1 THEN s[i] ELSE f[i - 1] \o s[i]]

LEMMA FlattenIs ==
  ASSUME NEW s
  PROVE  FlattenSeq(s) = IF Len(s) = 0 THEN s ELSE (CHOOSE f : f = Recursion(s, f))[Len(s)]
BY DEF FlattenSeq, Recursion

\* The recursion that joins the sequences of s has a solution.
LEMMA FlattenExists ==
  ASSUME NEW T, NEW s \in Seq(T)
  PROVE  \E f : f = Recursion(s, f)
<1> DEFINE Up(n, f) == f = [i \in 1..n |-> IF i = 1 THEN s[i] ELSE f[i - 1] \o s[i]]
           Bad == {n \in Nat : ~ \E f : Up(n, f)}
<1>1. Bad = {}
  <2> SUFFICES ASSUME Bad # {} PROVE FALSE
    OBVIOUS
  <2>1. PICK n \in Bad : \A k \in Bad : n <= k
    <3>1. Bad \in SUBSET Nat
      OBVIOUS
    <3> HIDE DEF Bad
    <3>2. QED
      BY <3>1, LeastNumber
  <2>2. n # 0
    <3>1. Up(0, [i \in 1..0 |-> 0])
      OBVIOUS
    <3>2. QED
      BY <3>1
  <2>3. n - 1 \in Nat /\ n - 1 \notin Bad
    <3>1. n \in Nat
      OBVIOUS
    <3> HIDE DEF Bad
    <3>2. n - 1 \in Nat /\ ~(n <= n - 1)
      BY <2>2, <3>1
    <3>3. QED
      BY <2>1, <3>2
  <2>4. PICK f : Up(n - 1, f)
    BY <2>3
  <2> DEFINE g == [i \in 1..n |-> IF i < n THEN f[i] ELSE IF i = 1 THEN s[i] ELSE f[i - 1] \o s[i]]
  <2>5. ASSUME NEW i \in 1..n
        PROVE  g[i] = IF i = 1 THEN s[i] ELSE g[i - 1] \o s[i]
    <3>1. i # 1 => i - 1 \in 1..(n - 1) /\ i - 1 \in 1..n /\ i - 1 < n
      BY <2>3
    <3>2. i # 1 => g[i - 1] = f[i - 1]
      BY <3>1
    <3>3. CASE i < n
      <4>1. i \in 1..(n - 1)
        BY <3>3
      <4>2. f[i] = IF i = 1 THEN s[i] ELSE f[i - 1] \o s[i]
        BY <2>4, <4>1
      <4>3. QED
        BY <3>2, <3>3, <4>2
    <3>4. CASE i = n
      BY <3>2, <3>4
    <3>5. QED
      BY <3>3, <3>4
  <2>6. Up(n, g)
    BY <2>5
  <2>7. QED
    BY <2>1, <2>6
<1>2. Len(s) \in Nat
  BY LenProperties
<1>3. PICK f : Up(Len(s), f)
  BY <1>1, <1>2
<1>4. QED
  BY <1>3 DEF Recursion

\* If elements with one id are in one place of one sequence, joining the sequences keeps this.
LEMMA FlattenedIds ==
  ASSUME NEW T, NEW s \in Seq(Seq(T)),
         \A m, n \in 1..Len(s) : \A i \in 1..Len(s[m]), j \in 1..Len(s[n]) :
           s[m][i].id = s[n][j].id => m = n /\ i = j
  PROVE  /\ FlattenSeq(s) \in Seq(T)
         /\ \A p, q \in 1..Len(FlattenSeq(s)) : FlattenSeq(s)[p].id = FlattenSeq(s)[q].id => p = q
<1>0. Len(s) \in Nat
  BY LenProperties
<1>1. CASE Len(s) = 0
  <2>1. s = << >>
    BY <1>0, <1>1, EmptySeq
  <2>2. FlattenSeq(s) = << >>
    BY <1>1, <2>1, FlattenIs
  <2>3. QED
    BY <2>2, EmptySeq
<1>2. CASE Len(s) # 0
  <2>1. PICK f : f = Recursion(s, f) /\ FlattenSeq(s) = f[Len(s)]
    BY <1>2, FlattenIs, FlattenExists
  <2>2. ASSUME NEW i \in 1..Len(s)
        PROVE  f[i] = IF i = 1 THEN s[i] ELSE f[i - 1] \o s[i]
    BY <2>1 DEF Recursion
  <2> DEFINE From(p, n) == \E m \in 1..n : \E i \in 1..Len(s[m]) : f[n][p] = s[m][i]
             Good(n) == /\ f[n] \in Seq(T)
                        /\ \A p \in 1..Len(f[n]) : From(p, n)
                        /\ \A p, q \in 1..Len(f[n]) : f[n][p].id = f[n][q].id => p = q
             Bad == {n \in 1..Len(s) : ~Good(n)}
  <2>3. Good(1)
    <3>1. f[1] = s[1] /\ s[1] \in Seq(T) /\ 1 \in 1..Len(s) /\ 1 \in 1..1
      BY <1>0, <1>2, <2>2
    <3>2. QED
      BY <3>1
  <2>4. ASSUME NEW n \in 1..Len(s), n # 1, Good(n - 1)
        PROVE  Good(n)
    <3> DEFINE a == f[n - 1]
               b == s[n]
    <3>1. f[n] = a \o b /\ n - 1 \in 1..Len(s) /\ n - 1 \in Nat
      <4>1. f[n] = f[n - 1] \o s[n]
        BY <2>2, <2>4
      <4>2. n - 1 \in 1..Len(s) /\ n - 1 \in Nat
        BY <1>0, <2>4
      <4>3. QED
        BY <4>1, <4>2
    <3>2. a \in Seq(T) /\ b \in Seq(T) /\ Len(a) \in Nat /\ Len(b) \in Nat
      BY <2>4, LenProperties
    <3>3. f[n] \in Seq(T) /\ Len(f[n]) = Len(a) + Len(b)
      BY <3>1, <3>2, ConcatProperties
    <3>4. ASSUME NEW p \in 1..Len(f[n])
          PROVE  \/ p \in 1..Len(a) /\ f[n][p] = a[p]
                 \/ p - Len(a) \in 1..Len(b) /\ f[n][p] = b[p - Len(a)] /\ p > Len(a)
      <4>1. CASE p <= Len(a)
        BY <3>1, <3>2, <3>3, <4>1, ConcatProperties
      <4>2. CASE p > Len(a)
        <5>1. p - Len(a) \in 1..Len(b)
          <6>1. Len(a) \in Nat /\ Len(b) \in Nat /\ p \in 1..(Len(a) + Len(b))
            BY <3>2, <3>3
          <6> HIDE DEF a, b
          <6>2. QED
            BY <4>2, <6>1
        <5>2. f[n][p] = b[p - Len(a)]
          BY <3>1, <3>2, <3>3, <4>2, ConcatProperties
        <5>3. QED
          BY <4>2, <5>1, <5>2
      <4>3. QED
        BY <3>2, <3>3, <4>1, <4>2
    <3>5. ASSUME NEW p \in 1..Len(a)
          PROVE  \E m \in 1..(n - 1) : \E i \in 1..Len(s[m]) : a[p] = s[m][i]
      BY <2>4
    <3>6. ASSUME NEW p \in 1..Len(a), NEW i \in 1..Len(b)
          PROVE  a[p].id # b[i].id
      <4>1. PICK m \in 1..(n - 1) : \E j \in 1..Len(s[m]) : a[p] = s[m][j]
        BY <3>5
      <4>2. m \in 1..Len(s) /\ m # n
        BY <1>0
      <4>3. QED
        BY <4>1, <4>2
    <3>7. \A p \in 1..Len(f[n]) : From(p, n)
      <4> SUFFICES ASSUME NEW p \in 1..Len(f[n])
                   PROVE  \E m \in 1..n : \E i \in 1..Len(s[m]) : f[n][p] = s[m][i]
        OBVIOUS
      <4>1. CASE p \in 1..Len(a) /\ f[n][p] = a[p]
        <5>1. PICK m \in 1..(n - 1) : \E i \in 1..Len(s[m]) : a[p] = s[m][i]
          BY <3>5, <4>1
        <5>2. m \in 1..n
          BY <3>1
        <5>3. QED
          BY <4>1, <5>1, <5>2
      <4>2. CASE p - Len(a) \in 1..Len(b) /\ f[n][p] = b[p - Len(a)]
        <5>1. n \in 1..n
          BY <1>0
        <5>2. QED
          BY <4>2, <5>1
      <4>3. QED
        BY <3>4, <4>1, <4>2
    <3>8. ASSUME NEW p \in 1..Len(a), NEW q \in 1..Len(a), a[p].id = a[q].id
          PROVE  p = q
      BY <2>4, <3>8
    <3>9. ASSUME NEW i \in 1..Len(b), NEW j \in 1..Len(b), b[i].id = b[j].id
          PROVE  i = j
      BY <3>9
    <3>10. ASSUME NEW p \in 1..Len(f[n]), NEW q \in 1..Len(f[n]), f[n][p].id = f[n][q].id
           PROVE  p = q
      <4> HIDE DEF a, b
      <4>1. p \in Int /\ q \in Int /\ Len(a) \in Int
        BY <3>2
      <4>2. p - Len(a) = q - Len(a) => p = q
        BY <4>1
      <4>3. CASE p \in 1..Len(a) /\ f[n][p] = a[p]
        <5>1. q \in 1..Len(a) /\ f[n][q] = a[q]
          BY <3>4, <3>6, <3>10, <4>3
        <5>2. QED
          BY <3>8, <3>10, <4>3, <5>1
      <4>4. CASE p - Len(a) \in 1..Len(b) /\ f[n][p] = b[p - Len(a)]
        <5>1. q - Len(a) \in 1..Len(b) /\ f[n][q] = b[q - Len(a)]
          BY <3>4, <3>6, <3>10, <4>4
        <5>2. p - Len(a) = q - Len(a)
          BY <3>9, <3>10, <4>4, <5>1
        <5>3. QED
          BY <4>2, <5>2
      <4>5. QED
        BY <3>4, <4>3, <4>4
    <3>11. QED
      BY <3>3, <3>7, <3>10
  <2>5. Bad = {}
    <3> SUFFICES ASSUME Bad # {} PROVE FALSE
      OBVIOUS
    <3>1. PICK n \in Bad : \A k \in Bad : n <= k
      <4>1. Bad \in SUBSET Nat
        BY <1>0
      <4> HIDE DEF Bad
      <4>2. QED
        BY <4>1, LeastNumber
    <3> HIDE DEF Good
    <3>2. n \in 1..Len(s) /\ ~Good(n)
      OBVIOUS
    <3>3. n # 1
      BY <2>3, <3>2
    <3>4. n - 1 \in 1..Len(s) /\ n - 1 < n
      BY <1>0, <3>2, <3>3
    <3>5. Good(n - 1)
      BY <3>1, <3>4
    <3>6. QED
      BY <2>4, <3>2, <3>3, <3>5
  <2>6. Good(Len(s))
    <3>1. Len(s) \in 1..Len(s)
      BY <1>0, <1>2
    <3> HIDE DEF Good
    <3>2. QED
      BY <2>5, <3>1
  <2>7. QED
    BY <2>1, <2>6
<1>3. QED
  BY <1>1, <1>2

\* The displays of a card have different connectors, and their texts are clean.
LEMMA DisplaysOfCard ==
  ASSUME NEW entries \in Directories, NEW card \in CardsOf(entries)
  PROVE  /\ DisplaysOf(card) \in Seq(ToSet(DisplaysOf(card)))
         /\ \A m \in 1..Len(DisplaysOf(card)) :
              /\ DisplaysOf(card)[m].id.device = card.number
              /\ IsClean(DisplaysOf(card)[m].edid.model) /\ IsClean(DisplaysOf(card)[m].edid.serial)
         /\ \A m, n \in 1..Len(DisplaysOf(card)) :
              DisplaysOf(card)[m].id = DisplaysOf(card)[n].id => m = n
<1> DEFINE c == card.connectors
           places == {i \in DOMAIN c : card.opens /\ IsUsable(c[i])}
           usable == ElementsAt(c, places)
           N == Cardinality(places)
           D == DisplaysOf(card)
<1>1. /\ IsSequence(c) /\ \A i, j \in DOMAIN c : c[i].id = c[j].id => i = j
      /\ \A i \in DOMAIN c : ConnectorAssumption(c[i])
  <2>1. card \in ToSet(entries)
    BY DEF CardsOf
  <2>2. QED
    BY <2>1, DiscoveryAssumption DEF ConnectorAssumption
<1>2. c \in Seq(ToSet(c)) /\ DOMAIN c = 1..Len(c) /\ Len(c) \in Nat
  BY <1>1, SequenceIs
<1>3. places \in SUBSET (1..Len(c)) /\ places \in SUBSET Nat
  BY <1>2
<1> HIDE DEF places
<1>4. /\ IsFiniteSet(places) /\ N \in Nat /\ Len(usable) = N /\ usable \in Seq(ToSet(c))
      /\ \A n \in 1..N : Nth(places, n) \in places /\ usable[n] = c[Nth(places, n)]
  BY <1>2, <1>3, ElementsAtType
<1>5. DOMAIN usable = 1..N
  BY <1>4, LenProperties
<1>6. D = [i \in 1..N |->
             [id          |-> [device |-> card.number, name |-> usable[i].name, connector |-> usable[i].id],
              edid        |-> ParseEdid(usable[i].edid),
              currentMode |-> CurrentMode(card, usable[i]),
              modes       |-> usable[i].modes]]
  BY <1>5 DEF DisplaysOf, places
<1> HIDE DEF D, usable, c
<1>7. /\ DOMAIN D = 1..N /\ Len(D) = N /\ D \in Seq(ToSet(D))
  <2>1. D \in [1..N -> ToSet(D)]
    BY <1>6 DEF ToSet
  <2>2. QED
    BY <1>4, <2>1, SeqOfLength
<1>8. ASSUME NEW n \in 1..N
      PROVE  /\ D[n].id.device = card.number /\ D[n].id.connector = c[Nth(places, n)].id
             /\ IsClean(D[n].edid.model) /\ IsClean(D[n].edid.serial)
  <2>1. usable[n] = c[Nth(places, n)] /\ Nth(places, n) \in DOMAIN c
    BY <1>2, <1>3, <1>4
  <2>2. /\ D[n].id.device = card.number /\ D[n].id.connector = usable[n].id
        /\ D[n].edid = ParseEdid(usable[n].edid)
    BY <1>6
  <2>3. ConnectorAssumption(usable[n])
    BY <1>1, <2>1
  <2>4. QED
    BY <2>1, <2>2, <2>3, EdidIsClean
<1>9. ASSUME NEW m \in 1..N, NEW n \in 1..N, D[m].id = D[n].id
      PROVE  m = n
  <2>1. Nth(places, m) \in DOMAIN c /\ Nth(places, n) \in DOMAIN c
    BY <1>2, <1>3, <1>4
  <2>2. Nth(places, m) = Nth(places, n)
    BY <1>1, <1>8, <1>9, <2>1
  <2>3. QED
    BY <1>3, <1>4, <2>2, NthHasRank
<1>10. QED
  BY <1>7, <1>8, <1>9 DEF D

\* The displays that a scan of a directory may list.
DisplaysIn(entries) == UNION {ToSet(DisplaysOf(card)) : card \in CardsOf(entries)}

LEMMA ScanFindsDisplays ==
  ASSUME NEW entries \in Directories
  PROVE  /\ ConnectedDisplays(entries) \in Seq(DisplaysIn(entries))
         /\ \A i, j \in 1..Len(ConnectedDisplays(entries)) :
              ConnectedDisplays(entries)[i].id = ConnectedDisplays(entries)[j].id => i = j
         /\ \A d \in DisplaysIn(entries) : IsClean(d.edid.model) /\ IsClean(d.edid.serial)
<1> DEFINE cards == CardsOf(entries)
           N == Cardinality(cards)
           pd == PrimaryDevices(entries)
           s == [i \in 1..N |-> DisplaysOf(pd[i])]
           T == DisplaysIn(entries)
<1>1. N \in Nat /\ pd \in [1..N -> cards] /\ \A m, n \in 1..N : pd[m] = pd[n] => m = n
  BY DevicesAreSorted
<1>2. ConnectedDisplays(entries) = FlattenSeq(s)
  BY <1>1 DEF ConnectedDisplays
<1>3. ASSUME NEW card \in cards
      PROVE  DisplaysOf(card) \in Seq(T)
  <2>1. DisplaysOf(card) \in Seq(ToSet(DisplaysOf(card)))
    BY DisplaysOfCard
  <2>2. ToSet(DisplaysOf(card)) \subseteq T
    BY DEF DisplaysIn
  <2> HIDE DEF T
  <2>3. QED
    BY <2>1, <2>2
<1>4. s \in Seq(Seq(T)) /\ Len(s) = N /\ \A n \in 1..N : s[n] = DisplaysOf(pd[n]) /\ pd[n] \in cards
  <2> HIDE DEF T, N, cards, pd
  <2>1. s \in [1..N -> Seq(T)]
    BY <1>1, <1>3
  <2>2. s \in Seq(Seq(T)) /\ Len(s) = N
    BY <1>1, <2>1, SeqOfLength
  <2>3. QED
    BY <1>1, <2>2
<1> HIDE DEF s, pd
<1>5. ASSUME NEW m \in 1..Len(s), NEW n \in 1..Len(s), NEW i \in 1..Len(s[m]), NEW j \in 1..Len(s[n]),
             s[m][i].id = s[n][j].id
      PROVE  m = n /\ i = j
  <2>1. /\ pd[m] \in cards /\ pd[n] \in cards /\ s[m] = DisplaysOf(pd[m]) /\ s[n] = DisplaysOf(pd[n])
        /\ m \in 1..N /\ n \in 1..N
    BY <1>4
  <2>2. pd[m].number = pd[n].number
    BY <1>5, <2>1, DisplaysOfCard
  <2>3. /\ pd[m] \in ToSet(entries) /\ pd[n] \in ToSet(entries)
        /\ pd[m].prefix = pd[n].prefix
    BY <2>1 DEF CardsOf, IsPrimaryDevice
  <2>4. pd[m] = pd[n]
    BY <2>2, <2>3, DiscoveryAssumption
  <2>5. m = n
    BY <1>1, <2>1, <2>4
  <2>6. QED
    BY <1>5, <2>1, <2>5, DisplaysOfCard
<1> HIDE DEF T, N, cards
<1>6. /\ FlattenSeq(s) \in Seq(T)
      /\ \A p, q \in 1..Len(FlattenSeq(s)) : FlattenSeq(s)[p].id = FlattenSeq(s)[q].id => p = q
  BY <1>4, <1>5, FlattenedIds
<1>7. ASSUME NEW d \in DisplaysIn(entries)
      PROVE  IsClean(d.edid.model) /\ IsClean(d.edid.serial)
  <2>1. PICK card \in CardsOf(entries) : d \in ToSet(DisplaysOf(card))
    BY DEF DisplaysIn
  <2>2. DOMAIN DisplaysOf(card) = 1..Len(DisplaysOf(card))
    BY DisplaysOfCard, LenProperties
  <2>3. PICK m \in 1..Len(DisplaysOf(card)) : d = DisplaysOf(card)[m]
    BY <2>1, <2>2 DEF ToSet
  <2>4. QED
    BY <2>3, DisplaysOfCard
<1>8. QED
  BY <1>2, <1>6, <1>7 DEF T

\* What is chosen is in the list and has a mode, and is HDMI-A-1 if that is in the list.
LEMMA ChoiceIs ==
  ASSUME NEW T, NEW list \in Seq(T), ChooseDisplayOf(list) # NoDisplay
  PROVE  /\ \E i \in 1..Len(list) : ChooseDisplayOf(list) = list[i]
         /\ ChooseDisplayOf(list).currentMode # NoMode
         /\ ChooseDisplayOf(list).id.name # Preferred =>
              \A i \in 1..Len(list) : list[i].id.name # Preferred
<1> DEFINE P == {i \in DOMAIN list : list[i].id.name = Preferred}
           choice == IF P # {} THEN list[Min(P)] ELSE IF list # << >> THEN Head(list) ELSE NoDisplay
<1>1. ChooseDisplayOf(list) = IF choice.currentMode = NoMode THEN NoDisplay ELSE choice
  BY DEF ChooseDisplayOf
<1>2. DOMAIN list = 1..Len(list) /\ Len(list) \in Nat
  BY LenProperties
<1>3. ChooseDisplayOf(list) = choice /\ choice.currentMode # NoMode /\ choice # NoDisplay
  <2> HIDE DEF choice
  <2>1. QED
    BY <1>1
<1>4. CASE P # {}
  <2>1. P \in SUBSET Nat
    BY <1>2
  <2>2. PICK l \in P : \A i \in P : l <= i
    <3> HIDE DEF P
    <3>1. QED
      BY <1>4, <2>1, LeastNumber
  <2>3. Min(P) = l
    <3> HIDE DEF P
    <3>1. QED
      BY <2>1, <2>2, MinIsLeast
  <2>4. choice = list[l] /\ l \in 1..Len(list) /\ list[l].id.name = Preferred
    BY <1>2, <1>4, <2>3
  <2> HIDE DEF choice
  <2>5. QED
    BY <1>3, <2>4
<1>5. CASE P = {} /\ list # << >>
  <2>1. choice = list[1] /\ 1 \in 1..Len(list)
    BY <1>2, <1>5, EmptySeq
  <2>2. \A i \in 1..Len(list) : list[i].id.name # Preferred
    BY <1>2, <1>5
  <2> HIDE DEF choice
  <2>3. QED
    BY <1>3, <2>1, <2>2
<1>6. CASE P = {} /\ list = << >>
  BY <1>3, <1>6
<1>7. QED
  BY <1>4, <1>5, <1>6

\* What is known of the list and the choice: of which directory they were made.
DiscoveryInv ==
  /\ directory \in Directories
  /\ displays # NotScanned =>
       \E entries \in Directories : /\ displays = ConnectedDisplays(entries)
                                    /\ active = ChooseDisplayOf(displays)

LEMMA FoundMonitorIsActive ==
  ASSUME DiscoveryInv, displays # NotScanned, active # NoDisplay
  PROVE  /\ Cardinality({i \in DOMAIN Monitors : Monitors[i].active}) = 1
         /\ ActiveMonitor = active /\ active.currentMode # NoMode
         /\ active.id.name # Preferred => \A i \in DOMAIN displays : displays[i].id.name # Preferred
         /\ \A i \in DOMAIN displays :
              IsClean(displays[i].edid.model) /\ IsClean(displays[i].edid.serial)
<1>1. PICK entries \in Directories :
        displays = ConnectedDisplays(entries) /\ active = ChooseDisplayOf(displays)
  BY DEF DiscoveryInv
<1> DEFINE T == DisplaysIn(entries)
           N == Len(displays)
<1>2. /\ displays \in Seq(T)
      /\ \A i, j \in 1..N : displays[i].id = displays[j].id => i = j
      /\ \A d \in T : IsClean(d.edid.model) /\ IsClean(d.edid.serial)
  BY <1>1, ScanFindsDisplays
<1> HIDE DEF T
<1>3. DOMAIN displays = 1..N /\ \A i \in 1..N : displays[i] \in T
  BY <1>2, LenProperties
<1>4. PICK k \in 1..N : active = displays[k]
  BY <1>1, <1>2, ChoiceIs
<1>5. /\ active.currentMode # NoMode
      /\ active.id.name # Preferred => \A i \in 1..N : displays[i].id.name # Preferred
  BY <1>1, <1>2, ChoiceIs
<1>6. /\ DOMAIN Monitors = 1..N
      /\ \A i \in 1..N : Monitors[i].display = displays[i]
      /\ \A i \in 1..N : Monitors[i].active <=> i = k
  <2>1. Monitors = [i \in 1..N |-> [display |-> displays[i],
                                    active  |-> displays[i].id = active.id]]
    BY <1>3 DEF Monitors, SameDisplay
  <2>2. \A i \in 1..N : displays[i].id = active.id <=> i = k
    BY <1>2, <1>4
  <2>3. QED
    BY <2>1, <2>2
<1>7. {i \in DOMAIN Monitors : Monitors[i].active} = {k}
  BY <1>6
<1>8. Min({k}) = k /\ Cardinality({k}) = 1
  <2>1. {k} \in SUBSET Nat /\ k \in {k} /\ \A n \in {k} : k <= n
    OBVIOUS
  <2>2. Min({k}) = k
    BY <2>1, MinIsLeast
  <2>3. QED
    BY <2>2, FS_Singleton
<1>9. ActiveMonitor = active
  <2>1. ActiveMonitor = IF {k} = {} THEN NoDisplay ELSE Monitors[Min({k})].display
    BY <1>7 DEF ActiveMonitor
  <2>2. QED
    BY <1>4, <1>6, <1>8, <2>1
<1>10. QED
  BY <1>2, <1>3, <1>5, <1>7, <1>8, <1>9

LEMMA OrderDoesNotMatter ==
  ASSUME directory \in Directories, NEW order \in SetToSeqs(ToSet(directory))
  PROVE  ChooseDisplayOf(ConnectedDisplays(order)) = ChooseDisplayOf(ConnectedDisplays(directory))
<1>1. IsFiniteSet(ToSet(directory))
  BY DiscoveryAssumption, FiniteRange
<1>2. ToSet(order) = ToSet(directory)
  BY <1>1, OrderHasAll
<1>3. PrimaryDevices(order) = PrimaryDevices(directory)
  BY <1>2 DEF PrimaryDevices
<1>4. QED
  BY <1>3 DEF ConnectedDisplays

\* Whatever devices, connectors and monitors there are, Python is told the monitor that the
\* process runs on.  Two displays of a scan differ in card or connector, because sorting and
\* joining repeat nothing; so exactly one of them is the active one.
THEOREM MonitorsAreFound ==
  DiscoveryInit /\ [][DiscoveryNext]_discoveryVars => []ActiveMonitorIsFound
<1>1. DiscoveryInit => DiscoveryInv
  BY DEF DiscoveryInit, DiscoveryInv
<1>2. DiscoveryInv /\ [DiscoveryNext]_discoveryVars => DiscoveryInv'
  <2> SUFFICES ASSUME DiscoveryInv, [DiscoveryNext]_discoveryVars
               PROVE  DiscoveryInv'
    OBVIOUS
  <2>1. CASE Scan
    BY <2>1 DEF Scan, DiscoveryInv
  <2>2. CASE Plug
    BY <2>2 DEF Plug, DiscoveryInv
  <2>3. CASE UNCHANGED discoveryVars
    BY <2>3 DEF discoveryVars, DiscoveryInv
  <2>4. QED
    BY <2>1, <2>2, <2>3 DEF DiscoveryNext
<1>3. DiscoveryInv => ActiveMonitorIsFound
  <2> SUFFICES ASSUME DiscoveryInv
               PROVE  ActiveMonitorIsFound
    OBVIOUS
  <2>1. directory \in Directories
    BY DEF DiscoveryInv
  <2>2. QED
    BY <2>1, FoundMonitorIsActive, OrderDoesNotMatter DEF ActiveMonitorIsFound
<1>4. QED
  BY <1>1, <1>2, <1>3, PTL
=============================================================================
