---------------------------- MODULE DisplayDiscovery ----------------------------
(***************************************************************************)
(* How iot_app finds its monitors: the scan of the DRM devices in          *)
(* platform/linux/display_manager.cpp with platform/linux/edid_parser.cpp, *)
(* the choice of one monitor in runtime/main.cpp, and what display         *)
(* .monitors() and display.active_monitor() tell Python of the scan.       *)
(*                                                                         *)
(* Everything DRM says is a record: a card has connectors, encoders and    *)
(* CRTCs, a connector has modes and perhaps an EDID block.  A text is a    *)
(* sequence of characters; of the bytes of an EDID block only what the     *)
(* parser reads is kept.                                                   *)
(***************************************************************************)
EXTENDS Integers, SequencesExt, FiniteSetsExt, SubSequences

CONSTANTS
  Directories   \* bound: what /dev/dri can hold

VARIABLES
  directory,    \* what /dev/dri holds now, in the order of the directory
  displays,     \* connectedDisplays in main(), the list of the scan
  active        \* the display in activeDisplay

discoveryVars == <<directory, displays, active>>

NoMode     == "none"
NoDisplay  == [id |-> [device |-> << >>, name |-> "", connector |-> 0], currentMode |-> NoMode]
NotScanned == <<NoDisplay>>
Preferred  == "HDMI-A-1"
Digits     == 0..9
Padding    == {"LF", "CR", "NUL"}
Spaces     == {" ", "TAB", "LF", "CR"}

IsSequence(s) == s \in Seq(ToSet(s))

\* Two entries of a directory have two names, and DRM gives two connectors of a card two IDs.
\* The serial number in the header of an EDID block is printed with digits.
ASSUME DiscoveryAssumption ==
  \A entries \in Directories :
    /\ IsSequence(entries)
    /\ \A card, other \in ToSet(entries) :
         card.prefix = other.prefix /\ card.number = other.number => card = other
    /\ \A card \in ToSet(entries) :
         /\ IsSequence(card.number) /\ IsSequence(card.connectors)
         /\ \A i, j \in DOMAIN card.connectors :
              card.connectors[i].id = card.connectors[j].id => i = j
         /\ \A i \in DOMAIN card.connectors :
              LET edid == card.connectors[i].edid
              IN  /\ IsSequence(edid.descriptors) /\ edid.number \notin Padding \cup Spaces
                  /\ \A k \in DOMAIN edid.descriptors : IsSequence(edid.descriptors[k].text)

DiscoveryInit ==
  /\ directory \in Directories
  /\ displays = NotScanned /\ active = NoDisplay

-----------------------------------------------------------------------------
(***************************************************************************)
(* EDID.                                                                   *)
(***************************************************************************)

\* trimDescriptor(): up to the first padding character, without spaces at the end.
TrimDescriptor(text) ==
  LET end  == Min({Len(text) + 1} \cup {i \in DOMAIN text : text[i] \in Padding})
      head == SubSeq(text, 1, end - 1)
      last == Max({0} \cup {i \in DOMAIN head : head[i] \notin Spaces})
  IN  SubSeq(head, 1, last)

\* The last of the four descriptors with a tag decides.
DescriptorText(edid, tag) ==
  LET tagged == {i \in DOMAIN edid.descriptors : edid.descriptors[i].tag = tag}
  IN  IF tagged = {} THEN << >> ELSE TrimDescriptor(edid.descriptors[Max(tagged)].text)

EmptyEdid == [manufacturer |-> << >>, model |-> << >>, serial |-> << >>]

\* parseEdidBytes(): five bits make a letter; without a text the number is the serial.
ParseEdid(edid) ==
  LET text    == DescriptorText(edid, "serial")
      letters == {i \in DOMAIN edid.letters : edid.letters[i] \in 1..26}
  IN  IF edid.length < 128 \/ ~edid.header \/ ~edid.checksum THEN EmptyEdid
      ELSE [manufacturer |-> ElementsAt(edid.letters, letters),
            model  |-> DescriptorText(edid, "name"),
            serial |-> IF text = << >> /\ edid.number # "0" THEN <<edid.number>> ELSE text]

-----------------------------------------------------------------------------
(***************************************************************************)
(* The scan.                                                               *)
(***************************************************************************)

\* The primary devices are card and a number; renderD128 is not one.
IsPrimaryDevice(card) ==
  card.prefix = "card" /\ card.number # << >> /\ ToSet(card.number) \subseteq Digits

\* The paths are compared as text: card10 is before card2.
IsBefore(a, b) ==
  \/ IsStrictPrefix(a.number, b.number)
  \/ \E i \in DOMAIN a.number \cap DOMAIN b.number :
       /\ SubSeq(a.number, 1, i - 1) = SubSeq(b.number, 1, i - 1)
       /\ a.number[i] < b.number[i]

\* findPrimaryDrmDevicePaths(): sorted, that is, the n-th card has n - 1 cards before it.
PrimaryDevices(entries) ==
  LET cards       == {card \in ToSet(entries) : IsPrimaryDevice(card)}
      Place(card) == Cardinality({other \in cards : ~IsBefore(card, other)})
  IN  [n \in 1..Cardinality(cards) |-> CHOOSE card \in cards : Place(card) = n]

\* currentMode(): the connector points to an encoder, and that to a CRTC with the mode.
CurrentMode(card, connector) ==
  LET crtc == IF connector.encoder \in DOMAIN card.encoders THEN card.encoders[connector.encoder] ELSE 0
  IN  IF crtc \in DOMAIN card.crtcs THEN card.crtcs[crtc] ELSE NoMode

IsUsable(connector) == connector.connected /\ connector.modes # << >>

\* findConnectedDisplays(): a card that cannot be opened has none.
DisplaysOf(card) ==
  LET places == {i \in DOMAIN card.connectors : card.opens /\ IsUsable(card.connectors[i])}
      usable == ElementsAt(card.connectors, places)
  IN  [i \in DOMAIN usable |->
        [id          |-> [device |-> card.number, name |-> usable[i].name, connector |-> usable[i].id],
         edid        |-> ParseEdid(usable[i].edid),
         currentMode |-> CurrentMode(card, usable[i]),
         modes       |-> usable[i].modes]]

ConnectedDisplays(entries) ==
  FlattenSeq([i \in DOMAIN PrimaryDevices(entries) |-> DisplaysOf(PrimaryDevices(entries)[i])])

\* choosePreferredDisplay() and what main() asks of its answer: a display without a mode
\* ends the process, although another one may have a mode.
ChooseDisplayOf(list) ==
  LET preferred == {i \in DOMAIN list : list[i].id.name = Preferred}
      choice    == IF preferred # {} THEN list[Min(preferred)]
                   ELSE IF list # << >> THEN Head(list) ELSE NoDisplay
  IN  IF choice.currentMode = NoMode THEN NoDisplay ELSE choice

\* The scan at the start of the process; there is no other.
Scan ==
  /\ displays = NotScanned
  /\ displays' = ConnectedDisplays(directory)
  /\ active' = ChooseDisplayOf(displays')
  /\ UNCHANGED directory

\* External: a monitor is plugged in or out, or a driver loaded.
Plug ==
  /\ directory' \in Directories
  /\ UNCHANGED <<displays, active>>

DiscoveryNext == Scan \/ Plug

-----------------------------------------------------------------------------
(***************************************************************************)
(* What Python sees.                                                       *)
(***************************************************************************)

\* Fault: connectors are compared without their device.
SameConnector(a, b) == a.name = b.name /\ a.connector = b.connector

\* operator== of DisplayId
SameDisplay(a, b) == a = b

\* display.monitors(): the list of the scan; one of them is called active.
Monitors == [i \in DOMAIN displays |-> [display |-> displays[i],
                                        active  |-> SameDisplay(displays[i].id, active.id)]]

\* display.active_monitor(): the first one, and an error if there is none.
ActiveMonitor ==
  LET found == {i \in DOMAIN Monitors : Monitors[i].active}
  IN  IF found = {} THEN NoDisplay ELSE Monitors[Min(found)].display

-----------------------------------------------------------------------------
(***************************************************************************)
(* Property.                                                               *)
(***************************************************************************)

IsClean(text) == text = << >> \/ (ToSet(text) \cap Padding = {} /\ Last(text) \notin Spaces)

\* The process runs on one of its monitors, and Python is told which.  Exactly one entry of
\* the list is active, also when two devices number their connectors alike and whatever
\* was plugged since, and it is the one the renderer was given, with a mode; HDMI-A-1 is
\* taken if it is there.  Which monitor is chosen depends neither on the order of the
\* directory nor on a damaged EDID block, and no text of a block has padding in it.
ActiveMonitorIsFound ==
  /\ displays # NotScanned /\ active # NoDisplay =>
       /\ Cardinality({i \in DOMAIN Monitors : Monitors[i].active}) = 1
       /\ ActiveMonitor = active /\ active.currentMode # NoMode
       /\ active.id.name # Preferred => \A i \in DOMAIN displays : displays[i].id.name # Preferred
       /\ \A i \in DOMAIN displays :
            IsClean(displays[i].edid.model) /\ IsClean(displays[i].edid.serial)
  /\ \A order \in SetToSeqs(ToSet(directory)) :
       ChooseDisplayOf(ConnectedDisplays(order)) = ChooseDisplayOf(ConnectedDisplays(directory))
=============================================================================
