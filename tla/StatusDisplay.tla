----------------------------- MODULE StatusDisplay -----------------------------
(***************************************************************************)
(* What status/seengreat_status_display.cpp puts on the OLED of 128 by 64  *)
(* pixels: two rows of text and a connection icon above and below a title, *)
(* the temperature and the time.  The frame is a set of items, each the    *)
(* rectangle that it covers; the pictures of the characters are left out,  *)
(* except which characters have one and how wide the title's letters are.  *)
(*                                                                         *)
(* When a frame is drawn, and what a failed transfer does, is in           *)
(* RuntimeProcess.  A text is a sequence of characters.                    *)
(***************************************************************************)
EXTENDS SystemInformation

VARIABLES
  addresses,        \* what getifaddrs() answers; nothing if it fails
  zones,            \* what is in /sys/class/thermal
  applicationName   \* the name of the running application

statusVars == <<addresses, zones, applicationName>>

\* An address of AF_INET has at most 15 characters, and the others have no text.
StatusTypeOK ==
  /\ addresses \in Seq([name : Nat, family : STRING, up : BOOLEAN, running : BOOLEAN,
                        loopback : BOOLEAN, text : Seq(STRING)])
  /\ \A i \in DOMAIN addresses :
       Len(addresses[i].text) <= 15 /\ (addresses[i].text # NoText => addresses[i].family = "inet")
  /\ zones \in Seq([isZone : BOOLEAN, temp : [kind : STRING, value : Nat], type : STRING])
  /\ applicationName \in Seq(STRING)

PanelWidth  == 128
PanelHeight == 64

-----------------------------------------------------------------------------
(***************************************************************************)
(* Characters.                                                             *)
(***************************************************************************)

Digit  == <<"0", "1", "2", "3", "4", "5", "6", "7", "8", "9">>
Upper  == {"A", "B", "C", "D", "E", "F", "G", "H", "I", "J", "K", "L", "M", "N", "O", "P", "Q",
           "R", "S", "T", "U", "V", "W", "X", "Y", "Z"}
Lower  == {"a", "b", "c", "d", "e", "f", "g", "h", "i", "j", "k", "l", "m", "n", "o", "p", "q",
           "r", "s", "t", "u", "v", "w", "x", "y", "z"}

\* The characters for which glyph() has a picture; any other one is blank.
HasGlyph == ToSet(Digit) \cup Upper \cup Lower \cup {":", ".", "?", "-", "_"}

\* The columns that the letters of the title use in Font16.
InkOfI == 2..9
InkOfO == 1..9
InkOfT == 1..8
InkOfA == 1..10
InkOfP == 1..9
TitleInk  == <<InkOfI, InkOfO, InkOfT, {}, InkOfA, InkOfP, InkOfP>>
FontWidth == 11

-----------------------------------------------------------------------------
(***************************************************************************)
(* Items of the frame.                                                     *)
(***************************************************************************)

Rectangle(x, y, width, height) == [x |-> x, y |-> y, width |-> width, height |-> height]

\* draw() stops at the first character that does not fit.
Fits(x, y, i) == x + 6 * (i - 1) + 5 <= PanelWidth /\ y + 7 <= PanelHeight
DrawnLength(x, y, text) == Max({0} \cup {n \in 1..Len(text) : \A i \in 1..n : Fits(x, y, i)})

Text(x, y, text) == [x |-> x, y |-> y, text |-> text, drawn |-> DrawnLength(x, y, text)]
BoxOf(item) == Rectangle(item.x, item.y, 6 * item.drawn - 1, 7)

\* The icon, with a stroke through it without a connection.
ConnectionIcon == Rectangle(114, 3, 12, 8)
IconStroke     == Rectangle(115, 3, 8, 8)

\* drawInverseTitle(): dark letters on a lit band, a pixel wider than the font.
TitleBand == Rectangle(0, 16, PanelWidth, 24)
TitleRows == Rectangle(0, 20, PanelWidth, 16)
TitleStart == (PanelWidth - Len(TitleInk) * FontWidth) \div 2
LetterColumns(i) ==
  UNION {{TitleStart + (i - 1) * FontWidth + c, TitleStart + (i - 1) * FontWidth + c + 1} : c \in TitleInk[i]}

HorizontalLine == Rectangle(1, 53, 126, 1)
Divider        == Rectangle(64, 57, 1, 7)

-----------------------------------------------------------------------------
(***************************************************************************)
(* The texts.                                                              *)
(***************************************************************************)

IsPrintable(char) == char # "unprintable"
Printable(char) == IF IsPrintable(char) THEN char ELSE "?"

MaxNameCharacters == 17

\* Fault: one more character of the name is kept.
ClippedOneLater(name) ==
  IF Len(name) > MaxNameCharacters + 1
  THEN [i \in 1..(MaxNameCharacters - 2) |-> Printable(name[i])] \o <<".", ".", ".">>
  ELSE [i \in DOMAIN name |-> Printable(name[i])]

\* clippedAppName()
ClippedAppName(name) ==
  IF Len(name) > MaxNameCharacters
  THEN [i \in 1..(MaxNameCharacters - 3) |-> Printable(name[i])] \o <<".", ".", ".">>
  ELSE [i \in DOMAIN name |-> Printable(name[i])]

\* printf("%.0f"): halves go to the even number.
Rounded(milli) ==
  LET whole == milli \div 1000
      rest  == milli % 1000
  IN  IF rest > 500 \/ (rest = 500 /\ whole % 2 = 1) THEN whole + 1 ELSE whole

Decimal(n) ==
  (IF n < 100 THEN << >> ELSE <<Digit[n \div 100 + 1]>>)
    \o (IF n < 10 THEN << >> ELSE <<Digit[((n \div 10) % 10) + 1]>>)
    \o <<Digit[(n % 10) + 1]>>

\* cpuTemperatureText(); a value that was read is never negative.
IsPlausible(milli) == milli >= -40000 /\ milli <= 150000
TemperatureText(milli) ==
  <<"C", "P", "U", " ">> \o
    (IF IsPlausible(milli) THEN Decimal(Rounded(milli)) \o <<"C">> ELSE <<"-", "-">>)

\* show(): the first connected interface with an address.
ShownInterfaces ==
  LET all == NetworkInterfaces(addresses)
  IN  {n \in DOMAIN all : all[n].connected /\ all[n].ipv4Address # NoText}
IsConnected == ShownInterfaces # {}
ShownIp     == IF IsConnected THEN NetworkInterfaces(addresses)[Min(ShownInterfaces)].ipv4Address
               ELSE <<"-", "-">>

IpItem          == Text(2, 3, <<"I", "P", " ">> \o ShownIp)
NameItem        == Text(3, 43, <<"A", "P", "P", " ">> \o ClippedAppName(applicationName))
TemperatureItem == Text(2, 57, TemperatureText(CpuTemperature(zones)))

\* The last eight characters of the local time, or --:--:-- if the clock cannot be read.
TimeItem == Text(78, 57, [i \in 1..8 |-> IF i \in {3, 6} THEN ":" ELSE "-"])

TextItems == {IpItem, NameItem, TemperatureItem, TimeItem}
Boxes     == {BoxOf(item) : item \in TextItems}
               \cup {ConnectionIcon, TitleBand, HorizontalLine, Divider}

-----------------------------------------------------------------------------
(***************************************************************************)
(* Properties.                                                             *)
(***************************************************************************)

IsInside(box, frame) ==
  /\ box.x >= frame.x /\ box.x + box.width <= frame.x + frame.width
  /\ box.y >= frame.y /\ box.y + box.height <= frame.y + frame.height
IsApart(a, b) ==
  \/ a.x + a.width <= b.x \/ b.x + b.width <= a.x
  \/ a.y + a.height <= b.y \/ b.y + b.height <= a.y

\* An interface that is there, up and running, and the address it has.
IsReachable(ip) ==
  \E i, j \in DOMAIN addresses :
    /\ addresses[i].name = addresses[j].name /\ Counts(addresses[i]) /\ Counts(addresses[j])
    /\ addresses[i].up /\ addresses[i].running /\ addresses[j].text = ip

\* An address is shown exactly if an interface is reachable, and is one of its addresses.
ShownAddressIsReachable ==
  IF IsConnected THEN IsReachable(ShownIp)
  ELSE \A i \in DOMAIN addresses : addresses[i].text # NoText => ~IsReachable(addresses[i].text)

\* Whatever the device is called, reads and measures, its status can be read off the panel.
\* Every text is drawn to its end, nothing is outside of the panel or over something else,
\* and the letters of the title stay apart although they are made wider.  No letter or
\* digit of the name, nor what stands for an unprintable character, is blank; a name that
\* is cut begins like the application's.  The address leads to the device.
StatusIsLegible ==
  /\ ShownAddressIsReachable
  /\ \A item \in TextItems : item.drawn = Len(item.text)
  /\ Cardinality(Boxes) = Cardinality(TextItems) + 4
  /\ \A box \in Boxes : IsInside(box, Rectangle(0, 0, PanelWidth, PanelHeight))
  /\ \A a, b \in Boxes : a # b => IsApart(a, b)
  /\ IsInside(IconStroke, ConnectionIcon) /\ IsInside(TitleRows, TitleBand)
  /\ \A i, j \in DOMAIN TitleInk : i < j => LetterColumns(i) \cap LetterColumns(j) = {}
  /\ UNION {LetterColumns(i) : i \in DOMAIN TitleInk} \subseteq 0..(PanelWidth - 1)
  /\ LET shown == ClippedAppName(applicationName)
     IN  /\ \A i \in 1..Min({Len(applicationName), 14}) :
              shown[i] = applicationName[i] \/ (shown[i] = "?" /\ ~IsPrintable(applicationName[i]))
         /\ \A i \in DOMAIN shown : shown[i] \in Upper \cup Lower \cup ToSet(Digit) \cup {"?", "."} =>
              shown[i] \in HasGlyph
         /\ Len(applicationName) <= 17 => Len(shown) = Len(applicationName)
=============================================================================
