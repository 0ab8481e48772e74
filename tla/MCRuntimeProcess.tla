--------------------------- MODULE MCRuntimeProcess ---------------------------
(***************************************************************************)
(* The process for TLC, and beside it what its parts compute from the data *)
(* they are given: the scan of the monitors, the picture on the OLED, the  *)
(* readings of the controllers, and the application in a message.  These   *)
(* depend on each other in nothing the modules describe, so a behaviour is *)
(* about one subject and the others stay as they are.                      *)
(***************************************************************************)
EXTENDS RuntimeProcess, DisplayDiscovery, StatusDisplay, InputReadings, ApplicationPackage

VARIABLE subject

Subjects == {"process", "monitors", "status", "readings", "package"}
allVars  == <<subject, vars, discoveryVars, statusVars, readingVars, packageVars>>

-----------------------------------------------------------------------------
(***************************************************************************)
(* Monitors: one or two cards, and a render node that is no card.          *)
(***************************************************************************)

NoEdid  == [length |-> 0, header |-> FALSE, checksum |-> FALSE, letters |-> << >>,
            descriptors |-> << >>, number |-> "0"]
Tagged(tag, characters) == [tag |-> tag, text |-> characters]
GoodEdid ==
  [length |-> 128, header |-> TRUE, checksum |-> TRUE, letters |-> <<4, 0, 27>>, number |-> "7",
   descriptors |-> << Tagged("timing", << >>), Tagged("name", <<"D", " ", "x", "LF", " ">>),
                      Tagged("serial", <<" ", "LF">>), Tagged("name", <<"E", " ", " ", "NUL", "z">>) >>]
BadEdid == [GoodEdid EXCEPT !.checksum = FALSE]

Connector(id, name, modes, encoder, edid) ==
  [id |-> id, name |-> name, connected |-> modes # << >>, modes |-> modes, encoder |-> encoder,
   edid |-> edid]
Hdmi(encoder, edid) == Connector(32, "HDMI-A-1", <<"1080p">>, encoder, edid)
Dp(encoder, edid)   == Connector(33, "DP-1", <<"1080p", "720p">>, encoder, edid)
Unplugged           == Connector(34, "HDMI-A-1", << >>, 0, NoEdid)

\* Encoder 5 drives a CRTC with a mode, 6 one without, 7 an unknown one.
Card(number, opens, connectors) ==
  [prefix |-> "card", number |-> number, opens |-> opens, connectors |-> connectors,
   encoders |-> [encoder \in {5, 6, 7} |-> encoder - 4],
   crtcs    |-> [crtc \in {1, 2} |-> IF crtc = 1 THEN "1080p" ELSE NoMode]]

FirstCards(number) ==
  {Card(number, TRUE, c) : c \in {<< >>, <<Unplugged, Dp(5, GoodEdid)>>, <<Hdmi(5, BadEdid)>>,
     <<Hdmi(6, NoEdid), Dp(5, GoodEdid)>>, <<Dp(0, NoEdid), Hdmi(5, GoodEdid)>>, <<Dp(7, BadEdid)>>}}
  \cup {Card(number, FALSE, <<Hdmi(5, GoodEdid)>>)}
OtherCards(number) == {Card(number, TRUE, c) : c \in {<<Hdmi(5, GoodEdid)>>, <<Dp(5, BadEdid)>>}}
RenderNode == [Card(<<1, 2, 8>>, TRUE, <<Hdmi(5, GoodEdid)>>) EXCEPT !.prefix = "renderD"]

SomeDirectories ==
  {<< >>, <<RenderNode>>} \cup {<<a>> : a \in FirstCards(<<0>>)}
    \cup {<<b, RenderNode, a>> : a \in FirstCards(<<2>>), b \in OtherCards(<<1, 0>>)}
    \cup {<<b, a>> : a \in FirstCards(<<0>>), b \in OtherCards(<<1>>)}

-----------------------------------------------------------------------------
(***************************************************************************)
(* The OLED: two interfaces and a loopback, temperatures around the limits *)
(* of rounding and of the range, and names around the length that fits.    *)
(***************************************************************************)

Repeat(n, char) == [i \in 1..n |-> char]
Address(name, family, up, running, loopback, text) ==
  [name |-> name, family |-> family, up |-> up, running |-> running, loopback |-> loopback,
   text |-> text]
SomeAddresses ==
  {Address(1, "packet", TRUE, TRUE, FALSE, NoText), Address(1, "inet", TRUE, TRUE, FALSE, Repeat(15, "2")),
   Address(1, "inet", TRUE, FALSE, FALSE, Repeat(8, "1")), Address(2, "inet", TRUE, TRUE, FALSE, Repeat(7, "3")),
   Address(2, "none", TRUE, TRUE, FALSE, NoText), Address(3, "inet", TRUE, TRUE, TRUE, Repeat(9, "7"))}
AddressLists == UNION {[1..n -> SomeAddresses] : n \in 0..3}

Contents(kind, value) == [kind |-> kind, value |-> value]
Zone(isZone, temp, type) == [isZone |-> isZone, temp |-> temp, type |-> type]
SomeZones ==
  {Zone(TRUE, Contents("number", t), "cpu-thermal") :
     t \in {0, 499, 500, 9500, 10499, 99500, 149999, 150000, 150001, 1000000}}
    \cup {Zone(TRUE, Contents("number", 42500), "gpu"), Zone(TRUE, Contents("other", 0), "cpu-thermal"),
          Zone(FALSE, Contents("number", 1), "cpu-thermal")}
ZoneLists == {<< >>} \cup [1..1 -> SomeZones] \cup [1..2 -> SomeZones]

Names == {Repeat(n, char) : n \in {0, 1, 14, 16, 17, 18, 19, 40}, char \in {"m", "7", "unprintable", "("}}

\* One of the three is varied at a time.
StatusInit ==
  \/ addresses \in AddressLists /\ zones = << >> /\ applicationName = Repeat(17, "m")
  \/ addresses = <<Address(1, "inet", TRUE, TRUE, FALSE, Repeat(15, "2"))>>
     /\ zones \in ZoneLists /\ applicationName = Repeat(18, "m")
  \/ addresses = << >> /\ zones = << >> /\ applicationName \in Names

-----------------------------------------------------------------------------
(***************************************************************************)
(* Readings: a stick that rests at 500 to 520 of 1023.                     *)
(***************************************************************************)

Wiring == [X |-> 6, Y |-> 2, A |-> 5, B |-> 1, Select |-> 0, Start |-> 16]
SomeDeadZones == {-1, 0, 20, 600, 1024}
SomeGrips == {{}, {"Start"}, {"Select", "Y"}, DOMAIN Wiring}
StickAt(x, y) == [x |-> x, y |-> y]
SomeRuns ==
  {<<StickAt(500, 520)>>, <<StickAt(500, 500), StickAt(520, 500)>>,
   <<StickAt(520, 520), StickAt(520, 500), StickAt(500, 500)>>, <<StickAt(0, 500), StickAt(1023, 500)>>}

-----------------------------------------------------------------------------
(***************************************************************************)
(* Applications and messages: each field around its limits, the fields     *)
(* that add up to the size of a message in all combinations.               *)
(***************************************************************************)

IdOf(length, clean, reserved) == [length |-> length, clean |-> clean, reserved |-> reserved]
Device == IdOf(4, TRUE, FALSE)
GoodConfiguration == [deviceId |-> Device, port |-> 1883, hasHost |-> TRUE, hasDirectory |-> TRUE]
SomeConfigurations ==
  {[GoodConfiguration EXCEPT !.deviceId = d, !.port = p, !.hasHost = h] :
     d \in {Device, IdOf(0, TRUE, FALSE), IdOf(4, FALSE, FALSE), IdOf(5, TRUE, FALSE)},
     p \in {0, 1883}, h \in BOOLEAN}

Source(length, hasNul, utf8) ==
  [length |-> length, hasNul |-> hasNul, utf8 |-> utf8, base64 |-> TRUE, identity |-> <<length, hasNul, utf8>>]
SomeSources ==
  {Source(n, FALSE, TRUE) : n \in {0, 1, 524288, 524289}} \cup {Source(9, TRUE, TRUE), Source(9, FALSE, FALSE)}
SomeIds == {IdOf(n, TRUE, FALSE) : n \in {0, 1, 128, 129}}
             \cup {IdOf(2, TRUE, TRUE), IdOf(3, FALSE, FALSE)}
NameOf(n) == [length |-> n, escaped |-> 6 * n]
SomeEntries ==
  {<<"">>, <<".">>, <<"main.py">>, <<"", "main.py">>, <<"main.py", "">>, <<"main.py", ".">>,
   <<"src", ".", "main.py">>, <<"src", "", "main.py">>, <<"..", "main.py">>, <<"..py">>, <<".py">>,
   <<"main.txt">>, <<"src">>}
SomeFiles == {<<"main.py">>, <<"src", "main.py">>, <<"..py">>, <<".py">>, <<"main.txt">>}

GoodPackage == [id |-> IdOf(1, TRUE, FALSE), name |-> NameOf(1), entry |-> <<"main.py">>,
                files |-> SomeFiles, source |-> Source(1, FALSE, TRUE)]
SomePackages ==
  {[GoodPackage EXCEPT !.entry = e, !.source = s] : e \in SomeEntries, s \in SomeSources}
    \cup {[GoodPackage EXCEPT !.id = i, !.name = NameOf(n), !.source = s] :
            i \in SomeIds, n \in {0, 1, 20000, 60000}, s \in SomeSources}

GoodMessage ==
  [complete |-> TRUE, bytes |-> 400, unusable |-> {}, type |-> "install_single_file_application",
   transfer |-> IdOf(128, TRUE, FALSE), device |-> Device, id |-> IdOf(1, TRUE, FALSE),
   name |-> NameOf(1), entry |-> <<"main.py">>, encoding |-> "base64", size |-> 1,
   hash |-> <<1, FALSE, TRUE>>, content |-> Source(1, FALSE, TRUE)]
SomeMessages ==
  {GoodMessage, [GoodMessage EXCEPT !.complete = FALSE], [GoodMessage EXCEPT !.bytes = 2000000],
   [GoodMessage EXCEPT !.unusable = {"source"}], [GoodMessage EXCEPT !.type = "other"],
   [GoodMessage EXCEPT !.transfer = IdOf(2, TRUE, TRUE)],
   [GoodMessage EXCEPT !.transfer = IdOf(129, TRUE, FALSE)],
   [GoodMessage EXCEPT !.device = IdOf(5, TRUE, FALSE)], [GoodMessage EXCEPT !.encoding = "hex"],
   [GoodMessage EXCEPT !.size = 2], [GoodMessage EXCEPT !.hash = <<2>>],
   [GoodMessage EXCEPT !.content.base64 = FALSE], [GoodMessage EXCEPT !.content.hasNul = TRUE],
   [GoodMessage EXCEPT !.content.utf8 = FALSE], [GoodMessage EXCEPT !.name = NameOf(20000)]}
    \cup {[GoodMessage EXCEPT !.entry = e] : e \in SomeEntries}

-----------------------------------------------------------------------------
MCInit ==
  /\ subject \in Subjects
  /\ Init
  /\ DiscoveryInit /\ (subject # "monitors" => directory = << >>)
  /\ StatusInit /\ (subject # "status" => applicationName = << >>)
  /\ ReadingsInit /\ (subject # "readings" => board = "hat")
  /\ PackageInit
  /\ IF subject = "package" THEN configuration = GoodConfiguration \/ package = GoodPackage
     ELSE configuration = GoodConfiguration /\ package = GoodPackage

MCNext ==
  \/ subject = "process"  /\ Next /\ UNCHANGED <<subject, discoveryVars, statusVars, readingVars, packageVars>>
  \/ subject = "monitors" /\ DiscoveryNext /\ UNCHANGED <<subject, vars, statusVars, readingVars, packageVars>>
  \/ subject = "readings" /\ ReadingsNext /\ UNCHANGED <<subject, vars, discoveryVars, statusVars, packageVars>>
  \/ subject = "package"  /\ PackageNext /\ UNCHANGED <<subject, vars, discoveryVars, statusVars, readingVars>>

\* The fairness of the process.
MCSpec == /\ MCInit /\ [][MCNext]_allVars
          /\ WF_vars(subject = "process" /\ MainStep)
          /\ SF_vars(subject = "process" /\ PythonReturns)
=============================================================================
