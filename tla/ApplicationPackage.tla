--------------------------- MODULE ApplicationPackage ---------------------------
(***************************************************************************)
(* What the sender (iot_app_sender/send_app.py) and the device (messaging/ *)
(* application_deployment_message.cpp, python/application_metadata.cpp,    *)
(* python/python_application_loader.cpp and the installer) ask of an       *)
(* application and of the message that carries it.  The checks are written *)
(* twice, in Python and in C++; when a message is worked on is in          *)
(* ApplicationDeployment and DeploymentDelivery.                           *)
(*                                                                         *)
(* An identifier is its length, whether all its characters are letters,    *)
(* numbers, '.', '-' and '_', and whether it is a reserved directory name. *)
(* A path is the sequence of what stands between its slashes.  A source is *)
(* its length, whether it has a null byte and is UTF-8, and its identity.  *)
(* A name has no null character: the sender would take one, and the JSON   *)
(* of the device would not give it back.                                   *)
(***************************************************************************)
EXTENDS Integers, SequencesExt, FiniteSetsExt, SubSequences

CONSTANTS
  Configurations,      \* bound: sender configurations
  Packages,            \* bound: application directories on the sender's disk
  OtherMessages,       \* bound: what others publish to the device's topic
  ThisDevice,          \* the device ID of the device, an identifier
  MaximumSourceSize,   \* bytes; MAXIMUM_PYTHON_SOURCE_SIZE_BYTES, maximumPythonSourceSizeInBytes
  MaximumPayload,      \* bytes; MAXIMUM_DEPLOYMENT_MESSAGE_SIZE_BYTES of the sender
  MaximumMqttMessage,  \* bytes; maximumMqttMessageSizeInBytes of the device
  MaximumMetadataSize, \* bytes; maximumApplicationMetadataSizeInBytes
  Overhead             \* bytes of the JSON text around the values

Identifier == [length : Nat, clean : BOOLEAN, reserved : BOOLEAN]
Name       == [length : Nat, escaped : Nat]

\* The base64 text that stands for a file on disk is one that can be decoded.
ASSUME PackageAssumption ==
  /\ {MaximumSourceSize, MaximumPayload, MaximumMqttMessage, MaximumMetadataSize, Overhead} \subseteq Nat
  /\ MaximumPayload <= MaximumMqttMessage
  /\ \A c \in Configurations : c.deviceId \in Identifier
  /\ \A p \in Packages :
       /\ p.id \in Identifier /\ p.name \in Name /\ p.entry \in Seq(STRING) \ {<< >>}
       /\ p.source.base64 /\ p.source.length \in Nat
  /\ \A m \in OtherMessages : m.name \in Name

VARIABLES
  configuration,  \* sender_config.json
  package,        \* app.json and the file it names
  message,        \* the payload on the way to the device
  builtBySender,  \* history: the sender made the message from the package
  application,    \* what installApplication() returns
  installed       \* the files that it wrote

packageVars == <<configuration, package, message, builtBySender, application, installed>>

NoMessage      == [complete |-> FALSE, bytes |-> 0]
NoApplication  == [id |-> "none"]
NoFiles        == [metadataBytes |-> 0]
MaximumIdLength == 128
PortRange      == 1..65535

PackageInit ==
  /\ configuration \in Configurations /\ package \in Packages
  /\ message = NoMessage /\ builtBySender = FALSE
  /\ application = NoApplication /\ installed = NoFiles

-----------------------------------------------------------------------------
(***************************************************************************)
(* Paths.                                                                  *)
(***************************************************************************)

PythonFiles == {"main.py", "..py"}

\* A path that starts with a slash starts with an empty segment.
IsAbsolute(path) == Len(path) > 1 /\ path[1] = ""

\* PurePosixPath.parts of a relative path, and what resolving such a path looks up.
Segments(path) == ElementsAt(path, {i \in DOMAIN path : path[i] \notin {"", "."}})

\* path::filename() is what follows the last slash.
FileName(path) == Last(path)

\* isSafeRelativePath()
IsSafeRelativePath(path) == path # <<"">> /\ ~IsAbsolute(path) /\ ".." \notin ToSet(path)

-----------------------------------------------------------------------------
(***************************************************************************)
(* The sender.                                                             *)
(***************************************************************************)

\* load_sender_configuration(): text is stripped before it is looked at.
ConfigurationIsValid ==
  /\ configuration.deviceId.length > 0 /\ configuration.deviceId.clean
  /\ configuration.port \in PortRange
  /\ configuration.hasHost /\ configuration.hasDirectory

\* load_and_validate_application_metadata()
SenderAcceptsMetadata ==
  /\ package.id.length \in 1..MaximumIdLength /\ package.id.clean
  /\ package.name.length > 0
  /\ ~IsAbsolute(package.entry) /\ ".." \notin ToSet(Segments(package.entry))
  /\ Segments(package.entry) # << >> /\ Last(Segments(package.entry)) \in PythonFiles

\* resolve_application_entry_point(), and the checks of the source.
SenderAcceptsSource ==
  /\ Segments(package.entry) \in package.files
  /\ package.source.utf8 /\ ~package.source.hasNul
  /\ package.source.length \in 1..MaximumSourceSize

\* b64encode(): four characters for every three bytes that have been begun.
Base64Length(bytes) == 4 * ((bytes + 2) \div 3)

\* The payload of build_deployment_message(); a name takes more bytes when it is escaped.
Payload ==
  [complete |-> TRUE,
   bytes    |-> Overhead + configuration.deviceId.length + package.id.length
                  + package.name.escaped + Base64Length(package.source.length),
   unusable |-> {},
   type     |-> "install_single_file_application",
   transfer |-> [length |-> 32, clean |-> TRUE, reserved |-> FALSE],
   device   |-> configuration.deviceId,
   id       |-> package.id, name |-> package.name, entry |-> package.entry,
   encoding |-> "base64",
   size     |-> package.source.length,
   hash     |-> package.source.identity,
   content  |-> package.source]

\* build_deployment_message(), with what it needs of the configuration.
BuildMessage ==
  /\ message = NoMessage
  /\ ConfigurationIsValid /\ SenderAcceptsMetadata /\ SenderAcceptsSource
  /\ Payload.bytes <= MaximumPayload
  /\ message' = Payload /\ builtBySender' = TRUE
  /\ UNCHANGED <<configuration, package, application, installed>>

\* External: another program publishes to the topic.
OtherPublishes ==
  /\ message = NoMessage
  /\ message' \in OtherMessages
  /\ UNCHANGED <<configuration, package, builtBySender, application, installed>>

-----------------------------------------------------------------------------
(***************************************************************************)
(* The device.                                                             *)
(***************************************************************************)

\* handleMessage(): the topic is that of the device, and the size is limited.
IsReceived ==
  /\ builtBySender => configuration.deviceId = ThisDevice
  /\ message.bytes \in 1..MaximumMqttMessage

\* isSafeDeploymentTransferId()
IsSafeTransferId(id) == id.length \in 1..MaximumIdLength /\ id.clean /\ ~id.reserved

\* Fault: the limit itself is refused.
IsShorterApplicationId(id) == id.length \in 1..(MaximumIdLength - 1) /\ id.clean

\* isValidApplicationId()
IsValidApplicationId(id) == id.length \in 1..MaximumIdLength /\ id.clean

\* validateApplicationMetadata()
IsValidMetadata(metadata) ==
  /\ IsValidApplicationId(metadata.id)
  /\ metadata.name.length > 0
  /\ IsSafeRelativePath(metadata.entry) /\ FileName(metadata.entry) \in PythonFiles

\* decodeBase64(), and the checks of what it decodes.
IsValidContent(content) ==
  /\ content.base64 /\ content.length \in 1..MaximumSourceSize /\ ~content.hasNul

\* parseCompleteJsonObject() and the readers of fields: "unusable" are the fields that are
\* missing, there twice, or of another type.
IsComplete(m) == m.complete /\ m.unusable = {}

\* ApplicationDeploymentMessageParser::parse()
IsValidMessage(m) ==
  /\ IsComplete(m)
  /\ m.type = "install_single_file_application"
  /\ IsSafeTransferId(m.transfer)
  /\ m.device = ThisDevice
  /\ IsValidMetadata(m)
  /\ m.encoding = "base64"
  /\ m.size \in 0..MaximumSourceSize
  /\ IsValidContent(m.content)
  /\ m.content.length = m.size /\ m.content.identity = m.hash

\* installApplication(): app.json and the source are written, and the application is made
\* of the message instead of these files.
Install ==
  /\ message # NoMessage /\ application = NoApplication
  /\ IsReceived /\ IsValidMessage(message)
  /\ application' = [id |-> message.id, name |-> message.name, entry |-> Segments(message.entry),
                     source |-> message.content]
  /\ installed' = [metadata      |-> [id |-> message.id, name |-> message.name, entry |-> message.entry],
                   metadataBytes |-> Overhead + message.id.length + message.name.escaped,
                   file          |-> Segments(message.entry),
                   contents      |-> message.content]
  /\ UNCHANGED <<configuration, package, message, builtBySender>>

\* A message that is refused leaves no application; another one may come.
Refuse ==
  /\ message # NoMessage
  /\ ~(IsReceived /\ IsValidMessage(message))
  /\ message' = NoMessage /\ builtBySender' = FALSE
  /\ UNCHANGED <<configuration, package, application, installed>>

PackageNext == BuildMessage \/ OtherPublishes \/ Install \/ Refuse

\* PythonApplicationLoader::load() of a directory with these files.
Loaded(files) ==
  IF /\ files.metadataBytes \in 1..MaximumMetadataSize
     /\ IsValidMetadata(files.metadata)
     /\ files.file = Segments(files.metadata.entry)
     /\ files.contents.length \in 1..MaximumSourceSize /\ ~files.contents.hasNul
  THEN [id |-> files.metadata.id, name |-> files.metadata.name, entry |-> files.file,
        source |-> files.contents]
  ELSE NoApplication

-----------------------------------------------------------------------------
(***************************************************************************)
(* Property.                                                               *)
(***************************************************************************)

\* An entry point that names its file in the end: "main.py/" is the same file for Python,
\* which drops the slash, and no file for C++, which refuses it.
EndsInFile(path) == Last(path) \notin {"", "."}

\* The two languages agree.  What the sender accepts for the device is neither too large
\* nor invalid for it, and arrives with the same names and source, if its entry point ends
\* in a file.  What is installed, whoever sent it, is a source within the limits with the
\* hash that was promised, and what the loader would read back from the directory that
\* was written, unless a name makes app.json larger than the loader reads.
PackageIsUnderstood ==
  /\ builtBySender /\ configuration.deviceId = ThisDevice /\ EndsInFile(package.entry) =>
       /\ IsReceived /\ IsValidMessage(message)
       /\ application # NoApplication =>
            /\ application.id = package.id /\ application.name = package.name
            /\ application.source = package.source
            /\ application.entry \in package.files
  /\ application # NoApplication =>
       /\ application.source.length \in 1..MaximumSourceSize /\ ~application.source.hasNul
       /\ application.source.identity = message.hash
       /\ installed.metadataBytes <= MaximumMetadataSize => Loaded(installed) = application
=============================================================================
