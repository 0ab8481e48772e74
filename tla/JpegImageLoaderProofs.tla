------------------------- MODULE JpegImageLoaderProofs -------------------------
(***************************************************************************)
(* Theorems about JpegImageLoader, for all pictures, sizes, slots, cache   *)
(* sizes and queue lengths: how much memory decoded pictures take while    *)
(* the render thread lets go of them at its own pace.  And a theorem about *)
(* JpegDecoder, for all files, requests and scaling factors.               *)
(***************************************************************************)
EXTENDS JpegImageLoader, JpegDecoder, CollectionLemmas

\* The pixels that are decoded and not yet admitted.
Decoding == IF call \in {"store", "scan"} THEN {loading} ELSE {}

Visible == {shown[s] : s \in Slots}

\* One buffer per picture.
Different(B) == \A a, b \in B : a.picture = b.picture => a = b

\* Everything of the present screen is in the cache, or just decoded and used nowhere yet,
\* and no picture is there twice.
ScreenIsCached ==
  /\ Live \ forgotten \subseteq ToSet(cached) \cup Decoding
  /\ Decoding \cap (ToSet(cached) \cup ShownBy(queue) \cup ShownBy(executing) \cup Visible) = {}
  /\ Different(ToSet(cached) \cup Decoding)
  /\ call = "enqueue" => loading \in ToSet(cached)
  /\ retained <= MaximumRetainedPixelBytes

\* What a scan has found free stays free: only the main thread could use it again.
SeenAreFree ==
  /\ seen \cap Held = {}
  /\ call # "scan" => seen = {}

HasWipe(commands)     == \E i \in DOMAIN commands : commands[i].op = "wipe"
WipeIsFirst(commands) == \A i \in DOMAIN commands : commands[i].op = "wipe" => i = 1

\* An earlier screen is held by the render thread alone, and a wipe is on its way that
\* has nothing of the present screen before it.
OldScreenIsLeaving ==
  /\ WipeIsFirst(queue)
  /\ forgotten \subseteq Visible \cup ShownBy(executing)
  /\ forgotten \cap (ToSet(cached) \cup ShownBy(queue) \cup {loading}) = {}
  /\ HasWipe(queue) => Visible \cup ShownBy(executing) \subseteq forgotten \cup {NoBuffer}
  /\ HasWipe(executing) => Visible \subseteq forgotten \cup {NoBuffer}
  /\ HasWipe(queue) \/ HasWipe(executing) \/ forgotten = {}
  /\ Different(forgotten)
  /\ IsFiniteSet(forgotten) /\ OldScreensAreReleased

IInv == TypeOK /\ ScreenIsCached /\ SeenAreFree /\ OldScreenIsLeaving

-----------------------------------------------------------------------------
(***************************************************************************)
(* Sequences of buffers and of commands.                                   *)
(***************************************************************************)

LEMMA EmptyToSet == ToSet(<< >>) = {} /\ IsInjective(<< >>)
BY DEF ToSet, IsInjective

LEMMA AppendToSet ==
  ASSUME NEW S, NEW s \in Seq(S), NEW e \in S
  PROVE  /\ ToSet(Append(s, e)) = ToSet(s) \cup {e}
         /\ IsInjective(s) /\ e \notin ToSet(s) => IsInjective(Append(s, e))
<1> DEFINE t == Append(s, e)
<1>1. /\ t \in Seq(S) /\ Len(s) \in Nat /\ Len(t) = Len(s) + 1
      /\ DOMAIN s = 1..Len(s) /\ DOMAIN t = 1..(Len(s) + 1)
      /\ \A i \in 1..Len(s) : t[i] = s[i]
      /\ t[Len(s) + 1] = e
  OBVIOUS
<1> HIDE DEF t
<1>2. ToSet(t) = ToSet(s) \cup {e}
  <2>1. ASSUME NEW x \in ToSet(t) PROVE x \in ToSet(s) \cup {e}
    <3>1. PICK i \in DOMAIN t : x = t[i]
      BY <2>1 DEF ToSet
    <3>2. i \in 1..Len(s) \/ i = Len(s) + 1
      BY <3>1, <1>1
    <3>3. QED
      BY <3>1, <3>2, <1>1 DEF ToSet
  <2>2. ASSUME NEW x \in ToSet(s) PROVE x \in ToSet(t)
    <3>1. PICK i \in DOMAIN s : x = s[i]
      BY <2>2 DEF ToSet
    <3>2. i \in DOMAIN t /\ x = t[i]
      BY <3>1, <1>1
    <3>3. QED
      BY <3>2 DEF ToSet
  <2>3. e \in ToSet(t)
    BY <1>1 DEF ToSet
  <2>4. QED
    BY <2>1, <2>2, <2>3
<1>3. ASSUME IsInjective(s), e \notin ToSet(s) PROVE IsInjective(t)
  <2> SUFFICES ASSUME NEW a \in DOMAIN t, NEW b \in DOMAIN t, t[a] = t[b] PROVE a = b
    BY DEF IsInjective
  <2>1. \A i \in 1..Len(s) : t[i] # e
    BY <1>1, <1>3 DEF ToSet
  <2>2. (a \in 1..Len(s) \/ a = Len(s) + 1) /\ (b \in 1..Len(s) \/ b = Len(s) + 1)
    BY <1>1
  <2>3. QED
    BY <2>1, <2>2, <1>1, <1>3 DEF IsInjective
<1>4. QED
  BY <1>2, <1>3 DEF t

LEMMA RemoveAtToSet ==
  ASSUME NEW S, NEW s \in Seq(S), IsInjective(s), NEW i \in DOMAIN s
  PROVE  /\ RemoveAt(s, i) \in Seq(S) /\ IsInjective(RemoveAt(s, i))
         /\ ToSet(RemoveAt(s, i)) = ToSet(s) \ {s[i]}
<1> DEFINE t == RemoveAt(s, i)
<1>1. /\ Len(s) \in Nat /\ DOMAIN s = 1..Len(s) /\ i \in 1..Len(s)
      /\ t \in Seq(S) /\ DOMAIN t = 1..(Len(s) - 1)
      /\ \A k \in 1..(Len(s) - 1) : t[k] = s[IF k < i THEN k ELSE k + 1]
  <2>0. Len(s) \in Nat /\ DOMAIN s = 1..Len(s) /\ i \in 1..Len(s)
    BY LenProperties
  <2>1. /\ SubSeq(s, 1, i - 1) \in Seq(S) /\ Len(SubSeq(s, 1, i - 1)) = i - 1
        /\ \A k \in 1..(i - 1) : SubSeq(s, 1, i - 1)[k] = s[k]
    <3>1. \A k \in 1..(i - 1) : s[k] \in S
      BY <2>0, ElementOfSeq
    <3>2. QED
      BY <3>1, <2>0
  <2>2. /\ SubSeq(s, i + 1, Len(s)) \in Seq(S) /\ Len(SubSeq(s, i + 1, Len(s))) = Len(s) - i
        /\ \A k \in 1..(Len(s) - i) : SubSeq(s, i + 1, Len(s))[k] = s[k + i]
    <3>1. \A k \in (i + 1)..Len(s) : s[k] \in S
      BY <2>0, ElementOfSeq
    <3>2. QED
      BY <3>1, <2>0, SMTT(30)
  <2> DEFINE u == SubSeq(s, 1, i - 1)
             v == SubSeq(s, i + 1, Len(s))
  <2>3. t = u \o v
    BY DEF RemoveAt
  <2> HIDE DEF u, v
  <2>4. /\ u \in Seq(S) /\ Len(u) = i - 1 /\ \A k \in 1..(i - 1) : u[k] = s[k]
        /\ v \in Seq(S) /\ Len(v) = Len(s) - i /\ \A k \in 1..(Len(s) - i) : v[k] = s[k + i]
    BY <2>1, <2>2 DEF u, v
  <2>5. /\ u \o v \in Seq(S) /\ Len(u \o v) = Len(u) + Len(v)
        /\ \A k \in 1..Len(u) + Len(v) : (u \o v)[k] = IF k <= Len(u) THEN u[k] ELSE v[k - Len(u)]
    BY <2>4, ConcatProperties
  <2> DEFINE w == u \o v
  <2>6. t = w
    BY <2>3
  <2> HIDE DEF w
  <2>7. w \in Seq(S) /\ Len(w) = Len(s) - 1 /\ DOMAIN w = 1..(Len(s) - 1)
    <3>1. Len(u) + Len(v) = Len(s) - 1
      BY <2>0, <2>4
    <3>2. w \in Seq(S) /\ Len(w) = Len(s) - 1
      BY <3>1, <2>5 DEF w
    <3>3. QED
      BY <3>2, LenProperties
  <2>8. ASSUME NEW k \in 1..(Len(s) - 1)
        PROVE  w[k] = s[IF k < i THEN k ELSE k + 1]
    <3>1. w[k] = IF k <= i - 1 THEN u[k] ELSE v[k - (i - 1)]
      BY <2>0, <2>4, <2>5, SMTT(30) DEF w
    <3>2. CASE k < i
      BY <3>1, <3>2, <2>0, <2>4
    <3>3. CASE ~(k < i)
      <4>1. k - (i - 1) \in 1..(Len(s) - i) /\ (k - (i - 1)) + i = k + 1 /\ ~(k <= i - 1)
        BY <3>3, <2>0
      <4>2. v[k - (i - 1)] = s[(k - (i - 1)) + i]
        BY <4>1, <2>4
      <4>3. QED
        BY <4>1, <4>2, <3>1, <3>3
    <3>4. QED
      BY <3>2, <3>3
  <2>9. QED
    BY <2>0, <2>6, <2>7, <2>8
<1> HIDE DEF t
<1>2. IsInjective(t)
  <2> SUFFICES ASSUME NEW a \in 1..(Len(s) - 1), NEW b \in 1..(Len(s) - 1), t[a] = t[b] PROVE a = b
    BY <1>1 DEF IsInjective
  <2> DEFINE o(k) == IF k < i THEN k ELSE k + 1
  <2>1. o(a) \in 1..Len(s) /\ o(b) \in 1..Len(s) /\ s[o(a)] = s[o(b)]
    BY <1>1
  <2>2. o(a) = o(b)
    BY <2>1, <1>1 DEF IsInjective
  <2>3. QED
    BY <2>2, <1>1
<1>3. ASSUME NEW x \in ToSet(t) PROVE x \in ToSet(s) \ {s[i]}
  <2>1. PICK k \in 1..(Len(s) - 1) : x = t[k]
    BY <1>1, <1>3 DEF ToSet
  <2>2. PICK j \in 1..Len(s) : j # i /\ x = s[j]
    BY <2>1, <1>1
  <2>3. QED
    BY <2>2, <1>1 DEF ToSet, IsInjective
<1>4. ASSUME NEW x \in ToSet(s) \ {s[i]} PROVE x \in ToSet(t)
  <2>1. PICK j \in 1..Len(s) : j # i /\ x = s[j]
    BY <1>1, <1>4 DEF ToSet
  <2>2. PICK k \in 1..(Len(s) - 1) : j = IF k < i THEN k ELSE k + 1
    <3>1. CASE j < i
      <4>1. j \in 1..(Len(s) - 1) /\ j = IF j < i THEN j ELSE j + 1
        BY <3>1, <2>1, <1>1
      <4>2. QED
        BY <4>1
    <3>2. CASE j > i
      <4>1. j - 1 \in 1..(Len(s) - 1) /\ j = IF j - 1 < i THEN j - 1 ELSE (j - 1) + 1
        BY <3>2, <2>1, <1>1
      <4>2. QED
        BY <4>1
    <3>3. QED
      BY <3>1, <3>2, <2>1, <1>1
  <2>3. x = t[k]
    BY <2>1, <2>2, <1>1
  <2>4. QED
    BY <2>3, <1>1 DEF ToSet
<1>5. QED
  BY <1>1, <1>2, <1>3, <1>4 DEF t

LEMMA ToSetIsFinite ==
  ASSUME NEW S, NEW s \in Seq(S)
  PROVE  IsFiniteSet(ToSet(s)) /\ ToSet(s) \subseteq S
<1>1. Len(s) \in Nat /\ DOMAIN s = 1..Len(s) /\ \A i \in 1..Len(s) : s[i] \in S
  BY LenProperties, ElementOfSeq
<1>2. ToSet(s) \subseteq S
  BY <1>1 DEF ToSet
<1>3. IsFiniteSet(1..Len(s))
  BY <1>1, FS_Interval
<1>4. [i \in 1..Len(s) |-> s[i]] \in Surjection(1..Len(s), ToSet(s))
  BY <1>1 DEF ToSet, Surjection
<1>5. QED
  BY <1>2, <1>3, <1>4, FS_Surjection

LEMMA CommandBuffers ==
  ASSUME NEW c \in Commands
  PROVE  /\ c.op \in {"show", "remove", "wipe"}
         /\ c.op = "show" => c.slot \in Slots /\ c.buffer \in Buffers
         /\ c.op = "remove" => c.slot \in Slots
BY DEF Commands

LEMMA ShownByMember ==
  ASSUME NEW q
  PROVE  \A b : b \in ShownBy(q) <=> \E i \in DOMAIN q : q[i].op = "show" /\ b = q[i].buffer
BY DEF ShownBy, ToSet

LEMMA ShownAreBuffers ==
  ASSUME NEW q \in Seq(Commands)
  PROVE  ShownBy(q) \subseteq Buffers
<1>1. \A i \in DOMAIN q : q[i] \in Commands
  BY LenProperties, ElementOfSeq
<1>2. QED
  BY <1>1, ShownByMember, CommandBuffers

LEMMA NoCommands ==
  ShownBy(<< >>) = {} /\ ~HasWipe(<< >>) /\ WipeIsFirst(<< >>)
BY ShownByMember DEF HasWipe, WipeIsFirst

LEMMA OneCommand ==
  ASSUME NEW c
  PROVE  /\ ShownBy(<<c>>) = IF c.op = "show" THEN {c.buffer} ELSE {}
         /\ HasWipe(<<c>>) <=> c.op = "wipe"
         /\ WipeIsFirst(<<c>>)
<1>1. DOMAIN <<c>> = {1} /\ <<c>>[1] = c
  OBVIOUS
<1> DEFINE q == <<c>>
<1> HIDE DEF q
<1>2. DOMAIN q = {1} /\ q[1] = c
  BY <1>1 DEF q
<1>3. \A b : b \in ShownBy(q) <=> c.op = "show" /\ b = c.buffer
  BY <1>2, ShownByMember
<1>4. ShownBy(q) = IF c.op = "show" THEN {c.buffer} ELSE {}
  BY <1>3
<1>5. (HasWipe(q) <=> c.op = "wipe") /\ WipeIsFirst(q)
  BY <1>2 DEF HasWipe, WipeIsFirst
<1>6. QED
  BY <1>4, <1>5 DEF q

LEMMA SingleCommand ==
  ASSUME NEW q \in Seq(Commands), Len(q) <= 1, q # << >>
  PROVE  q = <<q[1]>> /\ q[1] \in Commands
<1>1. Len(q) \in Nat \ {0}
  BY EmptySeq
<1>2. Len(q) = 1
  BY <1>1
<1>3. QED
  BY <1>2

\* The command that waits longest is taken.
LEMMA FirstCommand ==
  ASSUME NEW q \in Seq(Commands), q # << >>
  PROVE  /\ Head(q) \in Commands /\ Tail(q) \in Seq(Commands) /\ Len(Tail(q)) = Len(q) - 1
         /\ ShownBy(q) = ShownBy(<<Head(q)>>) \cup ShownBy(Tail(q))
         /\ HasWipe(q) <=> HasWipe(<<Head(q)>>) \/ HasWipe(Tail(q))
         /\ WipeIsFirst(q) => ~HasWipe(Tail(q)) /\ WipeIsFirst(Tail(q))
<1> DEFINE h == Head(q)
           t == Tail(q)
<1>1. /\ Len(q) \in Nat \ {0} /\ DOMAIN q = 1..Len(q) /\ q[1] = h
      /\ t \in Seq(Commands) /\ Len(t) = Len(q) - 1 /\ DOMAIN t = 1..(Len(q) - 1)
      /\ \A i \in 1..(Len(q) - 1) : t[i] = q[i + 1]
      /\ h \in Commands
  <2>1. Len(q) \in Nat \ {0} /\ DOMAIN q = 1..Len(q)
    BY EmptySeq, LenProperties
  <2>2. h \in Commands /\ t \in Seq(Commands) /\ Len(t) = Len(q) - 1
        /\ \A i \in 1..Len(t) : t[i] = q[i + 1]
    BY HeadTailProperties
  <2>3. QED
    BY <2>1, <2>2, LenProperties
<1> HIDE DEF h, t
<1>2. \A i \in DOMAIN q : i = 1 \/ (i - 1 \in DOMAIN t /\ t[i - 1] = q[i] /\ i # 1)
  BY <1>1
<1>3. \A i \in DOMAIN t : i + 1 \in DOMAIN q /\ t[i] = q[i + 1] /\ i + 1 # 1
  BY <1>1
<1>4. 1 \in DOMAIN q
  BY <1>1
<1>5. ShownBy(q) = ShownBy(<<h>>) \cup ShownBy(t)
  <2>1. ASSUME NEW b \in ShownBy(q) PROVE b \in ShownBy(<<h>>) \cup ShownBy(t)
    <3>1. PICK i \in DOMAIN q : q[i].op = "show" /\ b = q[i].buffer
      BY <2>1, ShownByMember
    <3>2. CASE i = 1
      BY <3>1, <3>2, <1>1, OneCommand
    <3>3. CASE i # 1
      <4>1. i - 1 \in DOMAIN t /\ t[i - 1] = q[i]
        BY <3>3, <1>2
      <4>2. b \in ShownBy(t)
        BY <4>1, <3>1, ShownByMember
      <4>3. QED
        BY <4>2
    <3>4. QED
      BY <3>2, <3>3
  <2>2. ASSUME NEW b \in ShownBy(t) PROVE b \in ShownBy(q)
    BY <1>3, <2>2, ShownByMember
  <2>3. ASSUME NEW b \in ShownBy(<<h>>) PROVE b \in ShownBy(q)
    BY <1>1, <1>4, <2>3, OneCommand, ShownByMember
  <2>4. QED
    BY <2>1, <2>2, <2>3
<1>6. HasWipe(q) <=> HasWipe(<<h>>) \/ HasWipe(t)
  <2>1. HasWipe(q) => HasWipe(<<h>>) \/ HasWipe(t)
    BY <1>1, <1>2, OneCommand DEF HasWipe
  <2>2. HasWipe(<<h>>) => HasWipe(q)
    BY <1>1, <1>4, OneCommand DEF HasWipe
  <2>3. HasWipe(t) => HasWipe(q)
    BY <1>3 DEF HasWipe
  <2>4. QED
    BY <2>1, <2>2, <2>3
<1>7. WipeIsFirst(q) => ~HasWipe(t) /\ WipeIsFirst(t)
  BY <1>3 DEF HasWipe, WipeIsFirst
<1>8. QED
  BY <1>1, <1>5, <1>6, <1>7 DEF h, t

\* A command of the main thread is queued last.
LEMMA LastCommand ==
  ASSUME NEW q \in Seq(Commands), NEW c \in Commands, c.op # "wipe"
  PROVE  /\ Append(q, c) \in Seq(Commands) /\ Len(Append(q, c)) = Len(q) + 1
         /\ ShownBy(Append(q, c)) = ShownBy(q) \cup ShownBy(<<c>>)
         /\ HasWipe(Append(q, c)) <=> HasWipe(q)
         /\ WipeIsFirst(q) => WipeIsFirst(Append(q, c))
<1> DEFINE t == Append(q, c)
<1>1. /\ Len(q) \in Nat /\ DOMAIN q = 1..Len(q)
      /\ t \in Seq(Commands) /\ Len(t) = Len(q) + 1 /\ DOMAIN t = 1..(Len(q) + 1)
      /\ \A i \in 1..Len(q) : t[i] = q[i]
      /\ t[Len(q) + 1] = c
  BY LenProperties, AppendProperties
<1> HIDE DEF t
<1>2. \A i \in DOMAIN q : i \in DOMAIN t /\ t[i] = q[i]
  BY <1>1
<1>3. \A i \in DOMAIN t : (i \in DOMAIN q /\ t[i] = q[i]) \/ t[i] = c
  BY <1>1
<1>4. Len(q) + 1 \in DOMAIN t
  BY <1>1
<1>5. ShownBy(t) = ShownBy(q) \cup ShownBy(<<c>>)
  <2>1. ASSUME NEW b \in ShownBy(t) PROVE b \in ShownBy(q) \cup ShownBy(<<c>>)
    BY <1>3, <2>1, OneCommand, ShownByMember
  <2>2. ASSUME NEW b \in ShownBy(q) PROVE b \in ShownBy(t)
    BY <1>2, <2>2, ShownByMember
  <2>3. ASSUME NEW b \in ShownBy(<<c>>) PROVE b \in ShownBy(t)
    BY <1>1, <1>4, <2>3, OneCommand, ShownByMember
  <2>4. QED
    BY <2>1, <2>2, <2>3
<1>6. HasWipe(t) <=> HasWipe(q)
  BY <1>2, <1>3 DEF HasWipe
<1>7. WipeIsFirst(q) => WipeIsFirst(t)
  BY <1>3 DEF WipeIsFirst
<1>8. QED
  BY <1>1, <1>5, <1>6, <1>7 DEF t

-----------------------------------------------------------------------------
(***************************************************************************)
(* Bytes, and the sets of buffers that the variables hold.                 *)
(***************************************************************************)

LEMMA BytesOfBuffers ==
  /\ \A b \in Buffers : BufferBytes[b] = PixelBytes[b.picture] /\ BufferBytes[b] \in Nat
  /\ \A p \in Pictures : PixelBytes[p] \in Nat
  /\ MaximumRetainedPixelBytes \in Nat /\ MaximumPendingCommands \in Nat \ {0}
  /\ NoBuffer \notin Buffers
<1>1. \A b \in Buffers : b.picture \in Pictures
  BY DEF Buffers
<1>2. \A p \in Pictures : PixelBytes[p] \in Nat
  BY PixelAssumption
<1>3. NoBuffer \notin Buffers
  BY PixelAssumption DEF Buffers, Copies
<1>4. QED
  BY <1>1, <1>2, <1>3, PixelAssumption DEF BufferBytes

LEMMA PartOfBytes ==
  ASSUME NEW B, IsFiniteSet(B), B \subseteq Buffers, NEW A, A \subseteq B
  PROVE  /\ IsFiniteSet(A) /\ Bytes(A) \in Nat /\ Bytes(B) \in Nat
         /\ Bytes(A) <= Bytes(B)
<1>1. \A b \in B : BufferBytes[b] \in Nat
  BY BytesOfBuffers
<1>2. IsFiniteSet(A) /\ \A b \in A : BufferBytes[b] \in Nat
  BY <1>1, FS_Subset
<1>3. SumFunctionOnSet(BufferBytes, A) \in Nat
  BY <1>2, SumIsNatural
<1>4. SumFunctionOnSet(BufferBytes, B) \in Nat
  BY <1>1, SumIsNatural
<1>5. SumFunctionOnSet(BufferBytes, A) <= SumFunctionOnSet(BufferBytes, B)
  BY <1>1, SumOfPart
<1>6. QED
  BY <1>2, <1>3, <1>4, <1>5 DEF Bytes

LEMMA BytesOfNothing == Bytes({}) = 0 /\ IsFiniteSet({})
BY SumOfEmptySet, FS_EmptySet DEF Bytes

LEMMA BytesWithOne ==
  ASSUME NEW B, IsFiniteSet(B), B \subseteq Buffers, NEW b \in Buffers, b \notin B
  PROVE  Bytes(B \cup {b}) = Bytes(B) + PixelBytes[b.picture]
<1>1. \A c \in B : BufferBytes[c] \in Nat
  BY BytesOfBuffers
<1>2. BufferBytes[b] \in Nat /\ BufferBytes[b] = PixelBytes[b.picture]
  BY BytesOfBuffers
<1>3. SumFunctionOnSet(BufferBytes, B \cup {b}) = SumFunctionOnSet(BufferBytes, B) + BufferBytes[b]
  BY <1>1, <1>2, SumWith
<1>4. QED
  BY <1>2, <1>3 DEF Bytes

LEMMA BytesWithoutOne ==
  ASSUME NEW B, IsFiniteSet(B), B \subseteq Buffers, NEW b \in B
  PROVE  Bytes(B \ {b}) = Bytes(B) - PixelBytes[b.picture]
<1>1. \A c \in B : BufferBytes[c] \in Nat
  BY BytesOfBuffers
<1>2. BufferBytes[b] \in Nat /\ BufferBytes[b] = PixelBytes[b.picture]
  BY BytesOfBuffers
<1>3. SumFunctionOnSet(BufferBytes, B) = SumFunctionOnSet(BufferBytes, B \ {b}) + BufferBytes[b]
  BY <1>1, SumWithout
<1>4. Bytes(B \ {b}) \in Nat
  BY PartOfBytes
<1>5. QED
  BY <1>2, <1>3, <1>4 DEF Bytes

LEMMA Holders ==
  ASSUME TypeOK
  PROVE  /\ ToSet(cached) \subseteq Buffers /\ IsFiniteSet(ToSet(cached))
         /\ ShownBy(queue) \subseteq Buffers /\ ShownBy(executing) \subseteq Buffers
         /\ Visible \subseteq Buffers \cup {NoBuffer}
         /\ Held = (ShownBy(queue) \cup ShownBy(executing) \cup Visible \cup {loading}) \ {NoBuffer}
         /\ Live = ToSet(cached) \cup Held
         /\ Live \subseteq Buffers /\ forgotten \subseteq Buffers
         /\ retained \in Nat
<1>1. ToSet(cached) \subseteq Buffers /\ IsFiniteSet(ToSet(cached))
  BY ToSetIsFinite DEF TypeOK
<1>2. ShownBy(queue) \subseteq Buffers /\ ShownBy(executing) \subseteq Buffers
  BY ShownAreBuffers DEF TypeOK
<1>3. Visible \subseteq Buffers \cup {NoBuffer}
  BY DEF TypeOK, Visible
<1>4. Bytes(ToSet(cached)) \in Nat
  BY <1>1, PartOfBytes
<1>5. /\ Held = (ShownBy(queue) \cup ShownBy(executing) \cup Visible \cup {loading}) \ {NoBuffer}
      /\ Live = ToSet(cached) \cup Held
  BY DEF Held, Live, Visible
<1>6. Live \subseteq Buffers
  BY <1>1, <1>2, <1>3, <1>5 DEF TypeOK
<1>7. QED
  BY <1>1, <1>2, <1>3, <1>4, <1>5, <1>6 DEF TypeOK

\* The old screen only gets smaller, apart from a wipe.
LEMMA OldScreenShrinks ==
  ASSUME TypeOK, OldScreenIsLeaving, forgotten' \subseteq forgotten
  PROVE  Different(forgotten') /\ IsFiniteSet(forgotten') /\ OldScreensAreReleased'
<1>1. forgotten \subseteq Buffers
  BY Holders
<1>2. IsFiniteSet(forgotten) /\ Different(forgotten) /\ Bytes(forgotten) <= MaximumRetainedPixelBytes
  BY DEF OldScreenIsLeaving, OldScreensAreReleased
<1>3. IsFiniteSet(forgotten') /\ Bytes(forgotten') \in Nat /\ Bytes(forgotten) \in Nat
      /\ Bytes(forgotten') <= Bytes(forgotten)
  BY <1>1, <1>2, PartOfBytes
<1>4. QED
  BY <1>2, <1>3, BytesOfBuffers DEF Different, OldScreensAreReleased

-----------------------------------------------------------------------------
(***************************************************************************)
(* Every step keeps the invariant.                                         *)
(***************************************************************************)

LEMMA UseCachedKeeps ==
  ASSUME IInv, NEW p \in Pictures, NEW s \in Slots, UseCached(p, s)
  PROVE  IInv'
<1>1. TypeOK /\ ScreenIsCached /\ SeenAreFree /\ OldScreenIsLeaving
  BY DEF IInv
<1>2. PICK i \in DOMAIN cached : /\ cached[i].picture = p
                                /\ cached' = Append(RemoveAt(cached, i), cached[i])
                                /\ loading' = cached[i]
  BY DEF UseCached
<1>3. /\ call = "none" /\ call' = "enqueue" /\ target' = s /\ loading = NoBuffer
      /\ UNCHANGED <<retained, seen, queue, executing, shown, rendering, forgotten>>
  BY <1>1 DEF UseCached, renderVars, TypeOK
<1>4. cached \in Seq(Buffers) /\ IsInjective(cached) /\ cached[i] \in ToSet(cached) /\ cached[i] \in Buffers
  BY <1>1, <1>2, LenProperties, ElementOfSeq DEF TypeOK, ToSet
<1>5. /\ RemoveAt(cached, i) \in Seq(Buffers) /\ IsInjective(RemoveAt(cached, i))
      /\ ToSet(RemoveAt(cached, i)) = ToSet(cached) \ {cached[i]}
  BY <1>4, RemoveAtToSet
<1>6. cached' \in Seq(Buffers) /\ IsInjective(cached') /\ ToSet(cached') = ToSet(cached)
  <2>1. /\ ToSet(cached') = (ToSet(cached) \ {cached[i]}) \cup {cached[i]}
        /\ IsInjective(cached')
    BY <1>2, <1>4, <1>5, AppendToSet
  <2>2. cached' \in Seq(Buffers)
    BY <1>2, <1>4, <1>5, AppendProperties
  <2>3. QED
    BY <1>4, <2>1, <2>2
<1>7. Live' = Live /\ Visible' = Visible /\ loading' \in ToSet(cached) /\ loading' # NoBuffer
  <2>1. loading' \in ToSet(cached) /\ loading' # NoBuffer
    BY <1>2, <1>4, BytesOfBuffers
  <2>2. QED
    BY <1>1, <1>3, <1>6, <2>1, Holders DEF Live, Held, Visible
<1>8. TypeOK'
  BY <1>1, <1>2, <1>3, <1>4, <1>6, <1>7 DEF TypeOK, Calls
<1>9. ScreenIsCached'
  BY <1>1, <1>3, <1>6, <1>7 DEF ScreenIsCached, Decoding
<1>10. SeenAreFree'
  BY <1>1, <1>3 DEF SeenAreFree
<1>11. OldScreenIsLeaving'
  <2>1. Different(forgotten') /\ IsFiniteSet(forgotten') /\ OldScreensAreReleased'
    BY <1>1, <1>3, OldScreenShrinks
  <2>2. QED
    BY <1>1, <1>3, <1>6, <1>7, <2>1 DEF OldScreenIsLeaving
<1>12. QED
  BY <1>8, <1>9, <1>10, <1>11 DEF IInv

\* There is a copy to decode into: of a picture that is not cached only an earlier
\* screen can hold pixels, and that one holds them once.
LEMMA CopyIsFree ==
  ASSUME IInv, call = "none", NEW p \in Pictures, \A b \in ToSet(cached) : b.picture # p
  PROVE  LET n == Min({m \in Copies : [picture |-> p, copy |-> m] \notin Live})
         IN  n \in Copies /\ [picture |-> p, copy |-> n] \notin Live
<1> DEFINE free == {m \in Copies : [picture |-> p, copy |-> m] \notin Live}
<1>1. Live \subseteq forgotten \cup ToSet(cached)
  BY DEF IInv, ScreenIsCached, Decoding
<1>2. ASSUME NEW m \in Copies, m \notin free, NEW n \in Copies, n \notin free
      PROVE  m = n
  <2> DEFINE a == [picture |-> p, copy |-> m]
             b == [picture |-> p, copy |-> n]
  <2>1. a \in Live /\ b \in Live /\ a.picture = p /\ b.picture = p
    BY <1>2
  <2>2. a.copy = m /\ b.copy = n
    OBVIOUS
  <2> HIDE DEF a, b
  <2>3. a \in forgotten /\ b \in forgotten
    BY <1>1, <2>1
  <2>4. a = b
    BY <2>1, <2>3 DEF IInv, OldScreenIsLeaving, Different
  <2>5. QED
    BY <2>2, <2>4
<1>3. \A m \in free : m \in Copies /\ [picture |-> p, copy |-> m] \notin Live
  OBVIOUS
<1>4. free \subseteq Copies
  OBVIOUS
<1> HIDE DEF free
<1>5. \E m \in free : \A n \in free : m <= n
  BY <1>2, <1>4 DEF Copies
<1>6. Min(free) \in free
  BY <1>5 DEF Min
<1>7. QED
  BY <1>3, <1>6 DEF free

LEMMA DecodeKeeps ==
  ASSUME IInv, NEW p \in Pictures, NEW s \in Slots, Decode(p, s)
  PROVE  IInv'
<1>1. TypeOK /\ ScreenIsCached /\ SeenAreFree /\ OldScreenIsLeaving
  BY DEF IInv
<1>2. /\ call = "none" /\ call' = "store" /\ target' = s /\ loading = NoBuffer
      /\ \A b \in ToSet(cached) : b.picture # p
      /\ UNCHANGED <<cached, retained, seen, queue, executing, shown, rendering, forgotten>>
  BY <1>1 DEF Decode, renderVars, TypeOK
<1>3. loading' \in Buffers /\ loading' \notin Live /\ loading'.picture = p
  <2> DEFINE n == Min({m \in Copies : [picture |-> p, copy |-> m] \notin Live})
  <2>1. n \in Copies /\ [picture |-> p, copy |-> n] \notin Live
    BY <1>2, CopyIsFree
  <2>2. loading' = [picture |-> p, copy |-> n]
    BY DEF Decode
  <2> HIDE DEF n
  <2>3. QED
    BY <2>1, <2>2 DEF Buffers
<1>4. loading' # NoBuffer
  BY <1>3, BytesOfBuffers
<1>5. /\ Live' = Live \cup {loading'} /\ Held' = Held \cup {loading'} /\ Visible' = Visible
      /\ ToSet(cached) \subseteq Live /\ forgotten \subseteq Live
  <2>1. ToSet(cached) \subseteq Live /\ forgotten \subseteq Live
    BY <1>1 DEF TypeOK, Live
  <2>2. QED
    BY <1>1, <1>2, <1>4, <2>1 DEF Live, Held, Visible
<1>6. TypeOK'
  BY <1>1, <1>2, <1>3, <1>4, <1>5 DEF TypeOK, Calls
<1>7. ScreenIsCached'
  <2>1. Decoding = {} /\ Decoding' = {loading'}
    BY <1>2 DEF Decoding
  <2>2. Different((ToSet(cached) \cup Decoding)')
    BY <1>1, <1>2, <1>3, <2>1 DEF ScreenIsCached, Different
  <2>3. QED
    BY <1>1, <1>2, <1>3, <1>4, <1>5, <2>1, <2>2, Holders DEF ScreenIsCached
<1>8. SeenAreFree'
  BY <1>1, <1>2 DEF SeenAreFree
<1>9. OldScreenIsLeaving'
  <2>1. Different(forgotten') /\ IsFiniteSet(forgotten') /\ OldScreensAreReleased'
    BY <1>1, <1>2, OldScreenShrinks
  <2>2. QED
    BY <1>1, <1>2, <1>3, <1>5, <2>1 DEF OldScreenIsLeaving
<1>10. QED
  BY <1>6, <1>7, <1>8, <1>9 DEF IInv

LEMMA StoreKeeps ==
  ASSUME IInv, Store
  PROVE  IInv'
<1>1. TypeOK /\ ScreenIsCached /\ SeenAreFree /\ OldScreenIsLeaving
  BY DEF IInv
<1>2. /\ call = "store" /\ call' = "enqueue" /\ cached' = Append(cached, loading)
      /\ retained' = retained + PixelBytes[loading.picture]
      /\ retained <= MaximumRetainedPixelBytes - PixelBytes[loading.picture]
      /\ UNCHANGED <<loading, target, seen, queue, executing, shown, rendering, forgotten>>
  BY DEF Store, HasRoom, renderVars
<1>3. loading \in Buffers /\ loading \notin ToSet(cached) /\ loading.picture \in Pictures
  BY <1>1, <1>2 DEF TypeOK, ScreenIsCached, Decoding, Buffers
<1>4. /\ cached' \in Seq(Buffers) /\ IsInjective(cached')
      /\ ToSet(cached') = ToSet(cached) \cup {loading}
  <2>1. cached \in Seq(Buffers) /\ IsInjective(cached)
    BY <1>1 DEF TypeOK
  <2>2. QED
    BY <2>1, <1>2, <1>3, AppendToSet, AppendProperties
<1>5. retained' = Bytes(ToSet(cached')) /\ retained' \in Nat /\ retained' <= MaximumRetainedPixelBytes
  <2>1. Bytes(ToSet(cached) \cup {loading}) = Bytes(ToSet(cached)) + PixelBytes[loading.picture]
    BY <1>1, <1>3, Holders, BytesWithOne
  <2>2. retained = Bytes(ToSet(cached)) /\ retained \in Nat
    BY <1>1, Holders DEF TypeOK
  <2>3. PixelBytes[loading.picture] \in Nat /\ MaximumRetainedPixelBytes \in Nat
    BY <1>3, BytesOfBuffers
  <2>4. QED
    BY <1>2, <1>4, <2>1, <2>2, <2>3
<1>6. Live' = Live /\ Held' = Held /\ Visible' = Visible /\ loading # NoBuffer
  <2>1. loading # NoBuffer
    BY <1>3, BytesOfBuffers
  <2>2. Held' = Held /\ Visible' = Visible /\ loading \in Held
    BY <1>1, <1>2, <2>1 DEF Held, Visible
  <2>3. QED
    BY <2>1, <2>2, <1>4 DEF Live
<1>7. TypeOK'
  BY <1>1, <1>2, <1>3, <1>4, <1>5, <1>6 DEF TypeOK, Calls
<1>8. ScreenIsCached'
  <2>1. Decoding = {loading} /\ Decoding' = {}
    BY <1>2 DEF Decoding
  <2>2. QED
    BY <1>1, <1>2, <1>3, <1>4, <1>5, <1>6, <2>1 DEF ScreenIsCached
<1>9. SeenAreFree'
  BY <1>1, <1>2 DEF SeenAreFree
<1>10. OldScreenIsLeaving'
  <2>1. Different(forgotten') /\ IsFiniteSet(forgotten') /\ OldScreensAreReleased'
    BY <1>1, <1>2, OldScreenShrinks
  <2>2. QED
    BY <1>1, <1>2, <1>4, <1>6, <2>1 DEF OldScreenIsLeaving
<1>11. QED
  BY <1>7, <1>8, <1>9, <1>10 DEF IInv

LEMMA StartScanKeeps ==
  ASSUME IInv, StartScan
  PROVE  IInv'
<1>1. TypeOK /\ ScreenIsCached /\ SeenAreFree /\ OldScreenIsLeaving
  BY DEF IInv
<1>2. /\ call = "store" /\ call' = "scan" /\ seen' = ToSet(cached) \ Held
      /\ UNCHANGED <<cached, retained, loading, target, queue, executing, shown, rendering, forgotten>>
  BY DEF StartScan, FreeEntries, renderVars
<1>3. Live' = Live /\ Held' = Held /\ Visible' = Visible /\ Decoding' = Decoding
  BY <1>2 DEF Live, Held, Visible, Decoding
<1>4. TypeOK'
  BY <1>1, <1>2, <1>3 DEF TypeOK, Calls
<1>5. ScreenIsCached'
  BY <1>1, <1>2, <1>3 DEF ScreenIsCached
<1>6. SeenAreFree'
  BY <1>2, <1>3 DEF SeenAreFree
<1>7. OldScreenIsLeaving'
  BY <1>1, <1>2, <1>3 DEF OldScreenIsLeaving, OldScreensAreReleased
<1>8. QED
  BY <1>4, <1>5, <1>6, <1>7 DEF IInv

LEMMA EvictKeeps ==
  ASSUME IInv, EvictLeastRecentlyUsed
  PROVE  IInv'
<1>1. TypeOK /\ ScreenIsCached /\ SeenAreFree /\ OldScreenIsLeaving
  BY DEF IInv
<1>2. /\ call = "scan" /\ call' = "store" /\ seen' = {} /\ forgotten' = forgotten \cap Live'
      /\ UNCHANGED <<loading, target, queue, executing, shown, rendering>>
  BY DEF EvictLeastRecentlyUsed, renderVars, Release
<1>3. PICK late \in SUBSET (ToSet(cached) \ Held), i \in DOMAIN cached :
         /\ cached[i] \in seen \cup late
         /\ cached' = RemoveAt(cached, i)
         /\ retained' = retained - PixelBytes[cached[i].picture]
  <2>1. FreeEntries \ seen \subseteq ToSet(cached) \ Held
    BY DEF FreeEntries
  <2>2. QED
    BY <2>1 DEF EvictLeastRecentlyUsed
<1>4. PICK v : v = cached[i]
  OBVIOUS
<1>5. v \in ToSet(cached) /\ v \notin Held
  BY <1>1, <1>3, <1>4 DEF TypeOK, SeenAreFree
<1>6. cached' \in Seq(Buffers) /\ IsInjective(cached') /\ ToSet(cached') = ToSet(cached) \ {v}
  BY <1>1, <1>3, <1>4, RemoveAtToSet DEF TypeOK
<1>7. retained' = Bytes(ToSet(cached')) /\ retained' <= MaximumRetainedPixelBytes
  <2>1. /\ Bytes(ToSet(cached) \ {v}) = Bytes(ToSet(cached)) - PixelBytes[v.picture]
        /\ Bytes(ToSet(cached) \ {v}) \in Nat /\ Bytes(ToSet(cached)) \in Nat
        /\ Bytes(ToSet(cached) \ {v}) <= Bytes(ToSet(cached))
    <3>1. IsFiniteSet(ToSet(cached)) /\ ToSet(cached) \subseteq Buffers
      BY <1>1, Holders
    <3>2. ToSet(cached) \ {v} \subseteq ToSet(cached)
      OBVIOUS
    <3>3. QED
      BY <3>1, <3>2, <1>5, BytesWithoutOne, PartOfBytes
  <2>2. retained = Bytes(ToSet(cached)) /\ retained <= MaximumRetainedPixelBytes
    BY <1>1 DEF TypeOK, ScreenIsCached
  <2>3. retained' = Bytes(ToSet(cached'))
    BY <1>3, <1>4, <1>6, <2>1, <2>2
  <2>4. QED
    BY <1>6, <2>1, <2>2, <2>3, BytesOfBuffers
<1>8. Held' = Held /\ Visible' = Visible /\ Decoding' = Decoding /\ Live' = Live \ {v}
  <2>1. Held' = Held /\ Visible' = Visible /\ Decoding' = Decoding
    BY <1>2 DEF Held, Visible, Decoding
  <2>2. QED
    BY <2>1, <1>5, <1>6 DEF Live
<1>9. TypeOK'
  BY <1>1, <1>2, <1>6, <1>7 DEF TypeOK, Calls
<1>10. ScreenIsCached'
  BY <1>1, <1>2, <1>5, <1>6, <1>7, <1>8 DEF ScreenIsCached, Different
<1>11. SeenAreFree'
  BY <1>2 DEF SeenAreFree
<1>12. OldScreenIsLeaving'
  <2>1. Different(forgotten') /\ IsFiniteSet(forgotten') /\ OldScreensAreReleased'
    BY <1>1, <1>2, OldScreenShrinks
  <2>2. (Visible \cup ShownBy(executing)) \ {NoBuffer} \subseteq Live'
    BY <1>1, <1>5, <1>8, Holders
  <2>3. QED
    BY <1>1, <1>2, <1>6, <1>8, <2>1, <2>2 DEF OldScreenIsLeaving
<1>13. QED
  BY <1>9, <1>10, <1>11, <1>12 DEF IInv

LEMMA NotEnoughKeeps ==
  ASSUME IInv, NotEnoughImageMemory
  PROVE  IInv'
<1>1. TypeOK /\ ScreenIsCached /\ SeenAreFree /\ OldScreenIsLeaving
  BY DEF IInv
<1>2. /\ call = "scan" /\ call' = "none" /\ loading' = NoBuffer /\ seen' = {}
      /\ forgotten' = forgotten \cap Live'
      /\ UNCHANGED <<cached, retained, target, queue, executing, shown, rendering>>
  BY DEF NotEnoughImageMemory, Returns, renderVars, Release
<1>3. /\ Visible' = Visible /\ Live \subseteq Live' \cup {loading} /\ Live' \subseteq Live
      /\ (Visible \cup ShownBy(executing)) \ {NoBuffer} \subseteq Live'
      /\ loading \notin Live'
  <2>1. Visible' = Visible
    BY <1>2 DEF Visible
  <2>2. loading \notin ToSet(cached) \cup ShownBy(queue) \cup ShownBy(executing) \cup Visible
    BY <1>1, <1>2 DEF ScreenIsCached, Decoding
  <2>3. Live' = ToSet(cached) \cup ((ShownBy(queue) \cup ShownBy(executing) \cup Visible) \ {NoBuffer})
    BY <1>2 DEF Live, Held, Visible
  <2>4. QED
    BY <1>1, <2>1, <2>2, <2>3, Holders
<1>4. TypeOK'
  BY <1>1, <1>2 DEF TypeOK, Calls
<1>5. ScreenIsCached'
  <2>1. Decoding = {loading} /\ Decoding' = {}
    BY <1>2 DEF Decoding
  <2>2. Different(ToSet(cached))
    BY <1>1 DEF ScreenIsCached, Different
  <2>3. QED
    BY <1>1, <1>2, <1>3, <2>1, <2>2 DEF ScreenIsCached
<1>6. SeenAreFree'
  BY <1>2 DEF SeenAreFree
<1>7. OldScreenIsLeaving'
  <2>1. Different(forgotten') /\ IsFiniteSet(forgotten') /\ OldScreensAreReleased'
    BY <1>1, <1>2, OldScreenShrinks
  <2>2. NoBuffer \notin forgotten
    BY <1>1, Holders, BytesOfBuffers
  <2>3. QED
    BY <1>1, <1>2, <1>3, <2>1, <2>2 DEF OldScreenIsLeaving
<1>8. QED
  BY <1>4, <1>5, <1>6, <1>7 DEF IInv

LEMMA EnqueuePictureKeeps ==
  ASSUME IInv, EnqueuePicture
  PROVE  IInv'
<1>1. TypeOK /\ ScreenIsCached /\ SeenAreFree /\ OldScreenIsLeaving
  BY DEF IInv
<1>2. /\ call = "enqueue" /\ call' = "none" /\ loading' = NoBuffer /\ seen' = {}
      /\ forgotten' = forgotten \cap Live'
      /\ UNCHANGED <<cached, retained, target, executing, shown, rendering>>
  BY DEF EnqueuePicture, Returns, renderVars, Release
<1>3. loading \in ToSet(cached) /\ loading \in Buffers /\ loading # NoBuffer
  BY <1>1, <1>2, Holders, BytesOfBuffers DEF ScreenIsCached
<1>4. /\ queue' \in Seq(Commands) /\ Len(queue') <= MaximumPendingCommands
      /\ ShownBy(queue) \subseteq ShownBy(queue')
      /\ ShownBy(queue') \subseteq ShownBy(queue) \cup {loading}
      /\ HasWipe(queue') <=> HasWipe(queue)
      /\ WipeIsFirst(queue')
  <2>1. CASE rendering /\ Len(queue) < MaximumPendingCommands
    <3>1. PICK c : c = [op |-> "show", slot |-> target, buffer |-> loading]
      OBVIOUS
    <3>2. c \in Commands /\ c.op = "show" /\ c.buffer = loading
      BY <3>1, <1>1, <1>3 DEF Commands, TypeOK
    <3>3. queue' = Append(queue, c)
      BY <2>1, <3>1 DEF EnqueuePicture
    <3>4. /\ Append(queue, c) \in Seq(Commands) /\ Len(Append(queue, c)) = Len(queue) + 1
          /\ ShownBy(Append(queue, c)) = ShownBy(queue) \cup ShownBy(<<c>>)
          /\ HasWipe(Append(queue, c)) <=> HasWipe(queue)
          /\ WipeIsFirst(queue) => WipeIsFirst(Append(queue, c))
      <4>1. queue \in Seq(Commands) /\ c.op # "wipe"
        BY <1>1, <3>2 DEF TypeOK
      <4>2. QED
        BY <4>1, <3>2, LastCommand
    <3>5. ShownBy(<<c>>) = {loading}
      BY <3>2, OneCommand
    <3>6. Len(queue) \in Nat /\ WipeIsFirst(queue)
      BY <1>1, LenProperties DEF TypeOK, OldScreenIsLeaving
    <3>7. QED
      BY <2>1, <3>3, <3>4, <3>5, <3>6, BytesOfBuffers
  <2>2. CASE ~(rendering /\ Len(queue) < MaximumPendingCommands)
    <3>1. queue' = queue
      BY <2>2 DEF EnqueuePicture
    <3>2. QED
      BY <3>1, <1>1 DEF TypeOK, OldScreenIsLeaving
  <2>3. QED
    BY <2>1, <2>2
<1>5. Visible' = Visible /\ Live' = Live
  <2>1. Visible' = Visible
    BY <1>2 DEF Visible
  <2>2. Live' = ToSet(cached) \cup ((ShownBy(queue') \cup ShownBy(executing) \cup Visible) \ {NoBuffer})
    BY <1>2 DEF Live, Held, Visible
  <2>3. QED
    BY <1>1, <1>3, <1>4, <2>1, <2>2, Holders
<1>6. forgotten' = forgotten
  BY <1>1, <1>2, <1>5 DEF TypeOK
<1>7. TypeOK'
  BY <1>1, <1>2, <1>4, <1>5, <1>6 DEF TypeOK, Calls
<1>8. ScreenIsCached'
  <2>1. Decoding = {} /\ Decoding' = {}
    BY <1>2 DEF Decoding
  <2>2. QED
    BY <1>1, <1>2, <1>5, <1>6, <2>1 DEF ScreenIsCached
<1>9. SeenAreFree'
  BY <1>2 DEF SeenAreFree
<1>10. OldScreenIsLeaving'
  <2>1. Different(forgotten') /\ IsFiniteSet(forgotten') /\ OldScreensAreReleased'
    BY <1>1, <1>6, OldScreenShrinks
  <2>2. NoBuffer \notin forgotten
    BY <1>1, Holders, BytesOfBuffers
  <2>3. QED
    BY <1>1, <1>2, <1>4, <1>5, <1>6, <2>1, <2>2 DEF OldScreenIsLeaving
<1>11. QED
  BY <1>7, <1>8, <1>9, <1>10 DEF IInv

LEMMA EnqueueRemovalKeeps ==
  ASSUME IInv, NEW s \in Slots, EnqueueRemoval(s)
  PROVE  IInv'
<1>1. TypeOK /\ ScreenIsCached /\ SeenAreFree /\ OldScreenIsLeaving
  BY DEF IInv
<1>2. /\ Len(queue) < MaximumPendingCommands
      /\ UNCHANGED <<cached, retained, call, loading, target, seen, executing, shown, rendering, forgotten>>
  BY DEF EnqueueRemoval, callVars, renderVars
<1>3. /\ queue' \in Seq(Commands) /\ Len(queue') <= MaximumPendingCommands
      /\ ShownBy(queue') = ShownBy(queue)
      /\ HasWipe(queue') <=> HasWipe(queue)
      /\ WipeIsFirst(queue')
  <2>1. PICK c : c = [op |-> "remove", slot |-> s]
    OBVIOUS
  <2>2. c \in Commands /\ c.op = "remove"
    BY <2>1 DEF Commands
  <2>3. queue' = Append(queue, c)
    BY <2>1 DEF EnqueueRemoval
  <2>4. /\ Append(queue, c) \in Seq(Commands) /\ Len(Append(queue, c)) = Len(queue) + 1
        /\ ShownBy(Append(queue, c)) = ShownBy(queue) \cup ShownBy(<<c>>)
        /\ HasWipe(Append(queue, c)) <=> HasWipe(queue)
        /\ WipeIsFirst(queue) => WipeIsFirst(Append(queue, c))
    <3>1. queue \in Seq(Commands) /\ c.op # "wipe"
      BY <1>1, <2>2 DEF TypeOK
    <3>2. QED
      BY <3>1, <2>2, LastCommand
  <2>5. ShownBy(<<c>>) = {}
    BY <2>2, OneCommand
  <2>6. Len(queue) \in Nat /\ WipeIsFirst(queue)
    BY <1>1, LenProperties DEF TypeOK, OldScreenIsLeaving
  <2>7. QED
    BY <1>2, <2>3, <2>4, <2>5, <2>6, BytesOfBuffers
<1>4. Live' = Live /\ Held' = Held /\ Visible' = Visible /\ Decoding' = Decoding
  BY <1>2, <1>3 DEF Live, Held, Visible, Decoding
<1>5. TypeOK'
  BY <1>1, <1>2, <1>3, <1>4 DEF TypeOK
<1>6. ScreenIsCached'
  BY <1>1, <1>2, <1>3, <1>4 DEF ScreenIsCached
<1>7. SeenAreFree'
  BY <1>1, <1>2, <1>4 DEF SeenAreFree
<1>8. OldScreenIsLeaving'
  BY <1>1, <1>2, <1>3, <1>4 DEF OldScreenIsLeaving, OldScreensAreReleased
<1>9. QED
  BY <1>5, <1>6, <1>7, <1>8 DEF IInv

LEMMA WipeScreenKeeps ==
  ASSUME IInv, WipeScreen
  PROVE  IInv'
<1>1. TypeOK /\ ScreenIsCached /\ SeenAreFree /\ OldScreenIsLeaving
  BY DEF IInv
<1>2. /\ call = "none" /\ loading = NoBuffer /\ seen = {}
      /\ cached' = << >> /\ retained' = 0 /\ forgotten' = Live'
      /\ UNCHANGED <<call, loading, target, seen, executing, shown, rendering>>
  BY <1>1 DEF WipeScreen, ClearCache, callVars, renderVars, TypeOK, SeenAreFree
<1>3. /\ queue' \in Seq(Commands) /\ Len(queue') <= MaximumPendingCommands
      /\ ShownBy(queue') = {} /\ HasWipe(queue') /\ WipeIsFirst(queue')
  <2>1. PICK c : c = [op |-> "wipe"]
    OBVIOUS
  <2>2. c \in Commands /\ c.op = "wipe"
    BY <2>1 DEF Commands
  <2>3. queue' = <<c>>
    BY <2>1 DEF WipeScreen
  <2>4. <<c>> \in Seq(Commands) /\ Len(<<c>>) = 1
    BY <2>2
  <2>5. ShownBy(<<c>>) = {} /\ HasWipe(<<c>>) /\ WipeIsFirst(<<c>>)
    BY <2>2, OneCommand
  <2>6. 1 <= MaximumPendingCommands
    BY BytesOfBuffers
  <2>7. QED
    BY <2>3, <2>4, <2>5, <2>6
<1>4. ToSet(cached') = {} /\ IsInjective(cached') /\ cached' \in Seq(Buffers)
  BY <1>2, EmptyToSet
<1>5. Visible' = Visible /\ Live' = (Visible \cup ShownBy(executing)) \ {NoBuffer}
  BY <1>2, <1>3, <1>4 DEF Live, Held, Visible
<1>6. Different(forgotten') /\ IsFiniteSet(forgotten') /\ OldScreensAreReleased'
  <2>1. CASE HasWipe(queue)
    <3>1. forgotten' \subseteq forgotten
      BY <2>1, <1>1, <1>2, <1>5 DEF OldScreenIsLeaving
    <3>2. QED
      BY <3>1, <1>1, OldScreenShrinks
  <2>2. CASE HasWipe(executing)
    <3>1. PICK c : executing = <<c>>
      <4>1. executing \in Seq(Commands) /\ Len(executing) <= 1 /\ executing # << >>
        BY <1>1, <2>2, NoCommands DEF TypeOK
      <4>2. QED
        BY <4>1, SingleCommand
    <3>2. ShownBy(executing) = {}
      BY <2>2, <3>1, OneCommand
    <3>3. forgotten' \subseteq forgotten
      BY <2>2, <3>2, <1>1, <1>2, <1>5 DEF OldScreenIsLeaving
    <3>4. QED
      BY <3>3, <1>1, OldScreenShrinks
  <2>3. CASE ~HasWipe(queue) /\ ~HasWipe(executing)
    <3>1. forgotten = {} /\ Decoding = {}
      BY <2>3, <1>1, <1>2 DEF OldScreenIsLeaving, Decoding
    <3>2. forgotten' \subseteq ToSet(cached)
      BY <3>1, <1>1, <1>2, <1>5, Holders DEF ScreenIsCached
    <3>3. Different(forgotten')
      BY <3>1, <3>2, <1>1 DEF ScreenIsCached, Different
    <3>4. /\ IsFiniteSet(forgotten') /\ Bytes(forgotten') \in Nat
          /\ Bytes(ToSet(cached)) \in Nat /\ Bytes(forgotten') <= Bytes(ToSet(cached))
      BY <3>2, <1>1, Holders, PartOfBytes
    <3>5. Bytes(ToSet(cached)) <= MaximumRetainedPixelBytes
      BY <1>1 DEF TypeOK, ScreenIsCached
    <3>6. QED
      BY <3>3, <3>4, <3>5, BytesOfBuffers DEF OldScreensAreReleased
  <2>4. QED
    BY <2>1, <2>2, <2>3
<1>7. TypeOK'
  <2>1. retained' = Bytes(ToSet(cached'))
    BY <1>2, <1>4, BytesOfNothing
  <2>2. QED
    BY <1>1, <1>2, <1>3, <1>4, <2>1 DEF TypeOK
<1>8. ScreenIsCached'
  <2>1. Decoding' = {}
    BY <1>2 DEF Decoding
  <2>2. QED
    BY <1>2, <1>4, <2>1, BytesOfBuffers DEF ScreenIsCached, Different
<1>9. SeenAreFree'
  BY <1>2 DEF SeenAreFree
<1>10. OldScreenIsLeaving'
  BY <1>2, <1>3, <1>4, <1>5, <1>6 DEF OldScreenIsLeaving
<1>11. QED
  BY <1>7, <1>8, <1>9, <1>10 DEF IInv

LEMMA PlayVideoKeeps ==
  ASSUME IInv, PlayVideo
  PROVE  IInv'
<1>1. TypeOK /\ SeenAreFree
  BY DEF IInv
<1>2. /\ call = "none" /\ loading = NoBuffer /\ seen = {}
      /\ cached' = << >> /\ retained' = 0 /\ forgotten' = Live'
      /\ queue' = << >> /\ executing' = << >> /\ shown' = [s \in Slots |-> NoBuffer]
      /\ rendering' \in BOOLEAN
      /\ UNCHANGED <<call, loading, target, seen>>
  BY <1>1 DEF PlayVideo, ClearCache, callVars, TypeOK, SeenAreFree
<1>3. ToSet(cached') = {} /\ IsInjective(cached') /\ cached' \in Seq(Buffers)
  BY <1>2, EmptyToSet
<1>4. /\ queue' \in Seq(Commands) /\ Len(queue') = 0
      /\ executing' \in Seq(Commands) /\ Len(executing') = 0
      /\ ShownBy(queue') = {} /\ ShownBy(executing') = {}
      /\ ~HasWipe(queue') /\ ~HasWipe(executing') /\ WipeIsFirst(queue')
  BY <1>2, NoCommands
<1>5. Visible' \subseteq {NoBuffer} /\ shown' \in [Slots -> Buffers \cup {NoBuffer}]
  BY <1>2 DEF Visible
<1>6. Live' = {}
  BY <1>2, <1>3, <1>4, <1>5 DEF Live, Held, Visible
<1>7. TypeOK'
  <2>1. retained' = Bytes(ToSet(cached'))
    BY <1>2, <1>3, BytesOfNothing
  <2>2. QED
    BY <1>1, <1>2, <1>3, <1>4, <1>5, <2>1, BytesOfBuffers DEF TypeOK
<1>8. ScreenIsCached'
  <2>1. Decoding' = {}
    BY <1>2 DEF Decoding
  <2>2. QED
    BY <1>2, <1>3, <1>6, <2>1, BytesOfBuffers DEF ScreenIsCached, Different
<1>9. SeenAreFree'
  BY <1>2 DEF SeenAreFree
<1>10. OldScreenIsLeaving'
  <2>1. Different(forgotten') /\ IsFiniteSet(forgotten') /\ OldScreensAreReleased'
    BY <1>2, <1>6, BytesOfNothing, BytesOfBuffers DEF Different, OldScreensAreReleased
  <2>2. QED
    BY <1>2, <1>4, <1>6, <2>1 DEF OldScreenIsLeaving
<1>11. QED
  BY <1>7, <1>8, <1>9, <1>10 DEF IInv

LEMMA TakeCommandKeeps ==
  ASSUME IInv, TakeCommand
  PROVE  IInv'
<1>1. TypeOK /\ ScreenIsCached /\ SeenAreFree /\ OldScreenIsLeaving
  BY DEF IInv
<1>2. /\ executing = << >> /\ queue # << >>
      /\ executing' = <<Head(queue)>> /\ queue' = Tail(queue)
      /\ UNCHANGED <<cached, retained, call, loading, target, seen, shown, rendering, forgotten>>
  BY DEF TakeCommand, callVars
<1>3. /\ Head(queue) \in Commands /\ queue' \in Seq(Commands) /\ Len(queue') = Len(queue) - 1
      /\ ShownBy(queue) = ShownBy(executing') \cup ShownBy(queue')
      /\ HasWipe(queue) <=> HasWipe(executing') \/ HasWipe(queue')
      /\ ~HasWipe(queue') /\ WipeIsFirst(queue')
  <2>1. queue \in Seq(Commands) /\ WipeIsFirst(queue)
    BY <1>1 DEF TypeOK, OldScreenIsLeaving
  <2>2. QED
    BY <1>2, <2>1, FirstCommand
<1>4. ShownBy(executing) = {} /\ ~HasWipe(executing)
  BY <1>2, NoCommands
<1>5. Live' = Live /\ Held' = Held /\ Visible' = Visible /\ Decoding' = Decoding
  <2>1. Visible' = Visible /\ Decoding' = Decoding
    BY <1>2 DEF Visible, Decoding
  <2>2. Held' = Held
    BY <1>2, <1>3, <1>4 DEF Held
  <2>3. QED
    BY <1>2, <2>1, <2>2 DEF Live
<1>6. TypeOK'
  <2>1. Len(queue') <= MaximumPendingCommands
    <3>1. Len(queue) \in Nat /\ Len(queue) <= MaximumPendingCommands
      BY <1>1, LenProperties DEF TypeOK
    <3>2. QED
      BY <3>1, <1>3, BytesOfBuffers
  <2>2. executing' \in Seq(Commands) /\ Len(executing') <= 1
    BY <1>2, <1>3
  <2>3. QED
    BY <1>1, <1>2, <1>3, <1>5, <2>1, <2>2 DEF TypeOK
<1>7. ScreenIsCached'
  BY <1>1, <1>2, <1>3, <1>4, <1>5 DEF ScreenIsCached
<1>8. SeenAreFree'
  BY <1>1, <1>2, <1>5 DEF SeenAreFree
<1>9. OldScreenIsLeaving'
  BY <1>1, <1>2, <1>3, <1>4, <1>5 DEF OldScreenIsLeaving, OldScreensAreReleased
<1>10. QED
  BY <1>6, <1>7, <1>8, <1>9 DEF IInv

\* The render thread shows less than before and what it was about to show, and nothing
\* at all when it was about to wipe the screen.
LEMMA LettingGoKeeps ==
  ASSUME IInv, executing' = << >>, shown' \in [Slots -> Buffers \cup {NoBuffer}],
         Visible' \subseteq Visible \cup ShownBy(executing) \cup {NoBuffer},
         HasWipe(executing) => Visible' \subseteq {NoBuffer},
         rendering' \in BOOLEAN, UNCHANGED <<cached, retained, callVars, queue>>, Release
  PROVE  IInv'
<1>1. TypeOK /\ ScreenIsCached /\ SeenAreFree /\ OldScreenIsLeaving
  BY DEF IInv
<1>2. /\ UNCHANGED <<cached, retained, call, loading, target, seen, queue>>
      /\ forgotten' = forgotten \cap Live'
  BY DEF callVars, Release
<1>3. /\ ShownBy(executing') = {} /\ ~HasWipe(executing')
      /\ executing' \in Seq(Commands) /\ Len(executing') <= 1
  BY NoCommands
<1>4. Held' \subseteq Held /\ Live' \subseteq Live /\ Decoding' = Decoding
      /\ Live' = ToSet(cached) \cup ((ShownBy(queue) \cup Visible' \cup {loading}) \ {NoBuffer})
  <2>1. Held' = (ShownBy(queue) \cup Visible' \cup {loading}) \ {NoBuffer}
    BY <1>2, <1>3 DEF Held, Visible
  <2>2. Held' \subseteq Held
    BY <1>1, <2>1, Holders
  <2>3. QED
    BY <1>2, <2>1, <2>2 DEF Live, Decoding
<1>5. NoBuffer \notin forgotten
  BY <1>1, Holders, BytesOfBuffers
<1>6. TypeOK'
  BY <1>1, <1>2, <1>3 DEF TypeOK
<1>7. ScreenIsCached'
  <2>1. Decoding \subseteq Buffers
    BY <1>1 DEF TypeOK, Decoding, Calls
  <2>2. Decoding \cap Visible' = {}
    BY <1>1, <2>1, BytesOfBuffers DEF ScreenIsCached
  <2>3. QED
    BY <1>1, <1>2, <1>3, <1>4, <2>2 DEF ScreenIsCached
<1>8. SeenAreFree'
  BY <1>1, <1>2, <1>4 DEF SeenAreFree
<1>9. OldScreenIsLeaving'
  <2>1. Different(forgotten') /\ IsFiniteSet(forgotten') /\ OldScreensAreReleased'
    BY <1>1, <1>2, OldScreenShrinks
  <2>2. forgotten' \subseteq Visible'
    BY <1>1, <1>2, <1>4 DEF OldScreenIsLeaving
  <2>3. HasWipe(queue) => Visible' \subseteq forgotten' \cup {NoBuffer}
    BY <1>1, <1>2, <1>4 DEF OldScreenIsLeaving
  <2>4. HasWipe(queue) \/ forgotten' = {}
    BY <1>1, <1>2, <1>5, <2>2 DEF OldScreenIsLeaving
  <2>5. QED
    BY <1>1, <1>2, <1>3, <2>1, <2>2, <2>3, <2>4 DEF OldScreenIsLeaving
<1>10. QED
  BY <1>6, <1>7, <1>8, <1>9 DEF IInv

LEMMA ExecuteCommandKeeps ==
  ASSUME IInv, ExecuteCommand
  PROVE  IInv'
<1>1. TypeOK
  BY DEF IInv
<1>2. PICK c : executing = <<c>> /\ c \in Commands
  <2>1. executing \in Seq(Commands) /\ Len(executing) <= 1 /\ executing # << >>
    BY <1>1 DEF TypeOK, ExecuteCommand
  <2>2. QED
    BY <2>1, SingleCommand
<1>3. /\ executing' = << >> /\ UNCHANGED <<cached, retained, callVars, queue, rendering>> /\ Release
      /\ shown' = [s \in Slots |-> CASE c.op = "wipe" -> NoBuffer
                                     [] c.op # "wipe" /\ s # c.slot -> shown[s]
                                     [] c.op = "show" /\ s = c.slot -> c.buffer
                                     [] c.op = "remove" /\ s = c.slot -> NoBuffer]
  <2>1. executing[1] = c
    BY <1>2
  <2>2. QED
    BY <2>1 DEF ExecuteCommand
<1>4. /\ c.op \in {"show", "remove", "wipe"}
      /\ c.op = "show" => c.buffer \in Buffers
      /\ ShownBy(executing) = IF c.op = "show" THEN {c.buffer} ELSE {}
      /\ HasWipe(executing) <=> c.op = "wipe"
  BY <1>2, CommandBuffers, OneCommand
<1>5. \A s \in Slots : \/ shown'[s] = NoBuffer
                       \/ c.op # "wipe" /\ shown'[s] = shown[s]
                       \/ c.op = "show" /\ shown'[s] = c.buffer
  BY <1>3, <1>4
<1>6. /\ shown' \in [Slots -> Buffers \cup {NoBuffer}]
      /\ Visible' \subseteq Visible \cup ShownBy(executing) \cup {NoBuffer}
      /\ HasWipe(executing) => Visible' \subseteq {NoBuffer}
  <2>1. \A s \in Slots : shown'[s] \in Buffers \cup {NoBuffer}
    BY <1>1, <1>4, <1>5 DEF TypeOK
  <2>2. shown' \in [Slots -> Buffers \cup {NoBuffer}]
    BY <1>3, <2>1
  <2>3. QED
    BY <2>2, <1>4, <1>5 DEF Visible
<1>7. rendering' \in BOOLEAN
  BY <1>1, <1>3 DEF TypeOK
<1>8. QED
  BY <1>3, <1>6, <1>7, LettingGoKeeps

LEMMA RenderThreadFailsKeeps ==
  ASSUME IInv, RenderThreadFails
  PROVE  IInv'
<1>1. /\ executing' = << >> /\ UNCHANGED <<cached, retained, callVars, queue>> /\ Release
      /\ rendering' \in BOOLEAN /\ shown' = [s \in Slots |-> NoBuffer]
  BY DEF RenderThreadFails
<1>2. Visible' \subseteq {NoBuffer} /\ shown' \in [Slots -> Buffers \cup {NoBuffer}]
  BY <1>1 DEF Visible
<1>3. QED
  BY <1>1, <1>2, LettingGoKeeps

LEMMA InitIInv == Init => IInv
<1> SUFFICES ASSUME Init PROVE IInv
  OBVIOUS
<1>1. /\ cached = << >> /\ retained = 0 /\ call = "none" /\ loading = NoBuffer /\ target \in Slots
      /\ seen = {} /\ queue = << >> /\ executing = << >> /\ shown = [s \in Slots |-> NoBuffer]
      /\ rendering = TRUE /\ forgotten = {}
  BY DEF Init
<1>2. ToSet(cached) = {} /\ IsInjective(cached) /\ cached \in Seq(Buffers)
  BY <1>1, EmptyToSet
<1>3. /\ ShownBy(queue) = {} /\ ShownBy(executing) = {}
      /\ ~HasWipe(queue) /\ ~HasWipe(executing) /\ WipeIsFirst(queue)
      /\ queue \in Seq(Commands) /\ Len(queue) = 0
      /\ executing \in Seq(Commands) /\ Len(executing) = 0
  BY <1>1, NoCommands
<1>4. Live = {} /\ Decoding = {}
  BY <1>1, <1>2, <1>3 DEF Live, Held, Decoding
<1>5. TypeOK
  <2>1. retained = Bytes(ToSet(cached))
    BY <1>1, <1>2, BytesOfNothing
  <2>2. Len(queue) <= MaximumPendingCommands /\ Len(executing) <= 1
    BY <1>3, BytesOfBuffers
  <2>3. shown \in [Slots -> Buffers \cup {NoBuffer}]
    BY <1>1
  <2>4. QED
    BY <1>1, <1>2, <1>3, <1>4, <2>1, <2>2, <2>3 DEF TypeOK, Calls
<1>6. ScreenIsCached
  BY <1>1, <1>2, <1>4, BytesOfBuffers DEF ScreenIsCached, Different
<1>7. SeenAreFree
  BY <1>1 DEF SeenAreFree
<1>8. OldScreenIsLeaving
  BY <1>1, <1>3, BytesOfNothing, BytesOfBuffers DEF OldScreenIsLeaving, OldScreensAreReleased, Different
<1>9. QED
  BY <1>5, <1>6, <1>7, <1>8 DEF IInv

LEMMA StutterKeeps ==
  ASSUME IInv, UNCHANGED vars
  PROVE  IInv'
<1>1. UNCHANGED <<cached, retained, call, loading, target, seen, queue, executing, shown,
                  rendering, forgotten>>
  BY DEF vars, callVars, renderVars
<1>2. Live' = Live /\ Held' = Held /\ Visible' = Visible /\ Decoding' = Decoding
  BY <1>1 DEF Live, Held, Visible, Decoding
<1>3. TypeOK' /\ ScreenIsCached'
  BY <1>1, <1>2 DEF IInv, TypeOK, ScreenIsCached
<1>4. SeenAreFree' /\ OldScreenIsLeaving'
  BY <1>1, <1>2 DEF IInv, SeenAreFree, OldScreenIsLeaving, OldScreensAreReleased
<1>5. QED
  BY <1>3, <1>4 DEF IInv

LEMMA StepKeepsIInv == IInv /\ [Next]_vars => IInv'
<1> SUFFICES ASSUME IInv, [Next]_vars PROVE IInv'
  OBVIOUS
<1>1. CASE DrawPicture
  BY <1>1, UseCachedKeeps, DecodeKeeps DEF DrawPicture
<1>2. CASE Store
  BY <1>2, StoreKeeps
<1>3. CASE StartScan
  BY <1>3, StartScanKeeps
<1>4. CASE EvictLeastRecentlyUsed
  BY <1>4, EvictKeeps
<1>5. CASE NotEnoughImageMemory
  BY <1>5, NotEnoughKeeps
<1>6. CASE EnqueuePicture
  BY <1>6, EnqueuePictureKeeps
<1>7. CASE \E s \in Slots : EnqueueRemoval(s)
  BY <1>7, EnqueueRemovalKeeps
<1>8. CASE WipeScreen
  BY <1>8, WipeScreenKeeps
<1>9. CASE PlayVideo
  BY <1>9, PlayVideoKeeps
<1>10. CASE TakeCommand
  BY <1>10, TakeCommandKeeps
<1>11. CASE ExecuteCommand
  BY <1>11, ExecuteCommandKeeps
<1>12. CASE RenderThreadFails
  BY <1>12, RenderThreadFailsKeeps
<1>13. CASE UNCHANGED vars
  BY <1>13, StutterKeeps
<1>14. QED
  BY <1>1, <1>2, <1>3, <1>4, <1>5, <1>6, <1>7, <1>8, <1>9, <1>10, <1>11, <1>12, <1>13 DEF Next

LEMMA AlwaysIInv == Spec => []IInv
BY InitIInv, StepKeepsIInv, PTL DEF Spec

-----------------------------------------------------------------------------
(***************************************************************************)
(* Theorems.                                                               *)
(***************************************************************************)

\* Every variable keeps its type, and m_retainedPixelBytes is the number of bytes of the
\* cached pixels through every admission, eviction and clearing of the cache.
THEOREM TypeCorrect == Spec => []TypeOK
<1>1. IInv => TypeOK
  BY DEF IInv
<1>2. QED
  BY <1>1, AlwaysIInv, PTL

\* storeDecodedImage() keeps all pixels of the present screen, cached, queued or shown,
\* within the limit: what it evicts is really released, although the render thread goes on
\* while it looks for something to evict.
THEOREM ScreenPixelsStayBounded == Spec => []ScreenPixelsAreBounded
<1>1. IInv => ScreenPixelsAreBounded
  <2> SUFFICES ASSUME IInv PROVE ScreenPixelsAreBounded
    OBVIOUS
  <2>1. TypeOK /\ ScreenIsCached
    BY DEF IInv
  <2> DEFINE P == (Live \ forgotten) \ Decoding
  <2>2. P \subseteq ToSet(cached)
    BY <2>1 DEF ScreenIsCached
  <2> HIDE DEF P
  <2>3. Bytes(P) \in Nat /\ Bytes(ToSet(cached)) \in Nat /\ Bytes(P) <= Bytes(ToSet(cached))
    BY <2>1, <2>2, Holders, PartOfBytes
  <2>4. Bytes(ToSet(cached)) <= MaximumRetainedPixelBytes
    BY <2>1 DEF TypeOK, ScreenIsCached
  <2>5. Bytes(P) <= MaximumRetainedPixelBytes
    BY <2>3, <2>4, BytesOfBuffers
  <2>6. QED
    BY <2>5 DEF P, Decoding, ScreenPixelsAreBounded
<1>2. QED
  BY <1>1, AlwaysIInv, PTL

\* clear() and an error screen may be called faster than the render thread draws: the
\* pixels of earlier screens still fit once into the limit.
THEOREM OldScreensGo == Spec => []OldScreensAreReleased
<1>1. IInv => OldScreensAreReleased
  BY DEF IInv, OldScreenIsLeaving
<1>2. QED
  BY <1>1, AlwaysIInv, PTL

\* loadImage() never decodes a picture that the present screen has in memory.
THEOREM PicturesAreShared == Spec => []NoPictureTwice
<1>1. IInv => NoPictureTwice
  BY DEF IInv, ScreenIsCached, Different, NoPictureTwice
<1>2. QED
  BY <1>1, AlwaysIInv, PTL

-----------------------------------------------------------------------------
(***************************************************************************)
(* The decoder.                                                            *)
(***************************************************************************)

LEMMA StrictProducts ==
  ASSUME NEW a \in Nat \ {0}, NEW b \in Nat, NEW c \in Nat, b < c
  PROVE  a * b < a * c
OBVIOUS

\* A larger fraction of a number is not smaller, also when both are rounded up.
LEMMA RoundedUpGrows ==
  ASSUME NEW w \in Nat, NEW n \in Nat, NEW m \in Nat, NEW d \in Nat \ {0}, NEW e \in Nat \ {0},
         n * e <= m * d
  PROVE  (w * n + d - 1) \div d <= (w * m + e - 1) \div e
<1> DEFINE c == (w * n + d - 1) \div d
           k == (w * m + e - 1) \div e
<1>1. w * n \in Nat /\ w * m \in Nat
  OBVIOUS
<1>2. c \in Nat /\ d * c <= w * n + d - 1
  BY <1>1, QuotientBounds
<1>3. k \in Nat /\ w * m + e - 1 < e * k + e
  BY <1>1, QuotientBounds
<1> HIDE DEF c, k
<1>4. ASSUME k < c
      PROVE  FALSE
  <2>1. d * k + d <= d * c
    BY <1>2, <1>3, <1>4
  <2>2. d * k < w * n /\ w * m <= e * k
    BY <1>1, <1>2, <1>3, <2>1
  <2>3. e * (d * k) < e * (w * n)
    BY <1>1, <1>3, <2>2
  <2>4. d * (w * m) <= d * (e * k)
    BY <1>1, <1>3, <2>2
  <2>5. e * (w * n) = w * (n * e) /\ d * (w * m) = w * (m * d) /\ d * (e * k) = e * (d * k)
    BY <1>3
  <2>6. w * (n * e) <= w * (m * d)
    BY Products
  <2>7. w * (n * e) \in Nat /\ w * (m * d) \in Nat /\ e * (d * k) \in Nat
    BY <1>3
  <2>8. QED
    BY <2>3, <2>4, <2>5, <2>6, <2>7
<1>5. QED
  BY <1>2, <1>3, <1>4 DEF c, k

Factor == [num : Nat, denom : Nat \ {0}]

LEMMA NotLargerIsTransitive ==
  ASSUME NEW a \in Factor, NEW b \in Factor, NEW c \in Factor, ~IsLarger(a, b), ~IsLarger(b, c)
  PROVE  ~IsLarger(a, c)
<1>1. /\ a.num \in Nat /\ b.num \in Nat /\ c.num \in Nat
      /\ a.denom \in Nat \ {0} /\ b.denom \in Nat \ {0} /\ c.denom \in Nat \ {0}
  BY DEF Factor
<1> DEFINE x == a.num * c.denom
           y == c.num * a.denom
<1>2. a.num * b.denom <= b.num * a.denom /\ b.num * c.denom <= c.num * b.denom
  BY <1>1 DEF IsLarger
<1>3. x \in Nat /\ y \in Nat
  BY <1>1
<1>4. c.denom * (a.num * b.denom) <= c.denom * (b.num * a.denom)
  <2>1. a.num * b.denom \in Nat /\ b.num * a.denom \in Nat /\ c.denom \in Nat
    BY <1>1
  <2>2. QED
    BY <1>2, <2>1, Products
<1>5. a.denom * (b.num * c.denom) <= a.denom * (c.num * b.denom)
  <2>1. b.num * c.denom \in Nat /\ c.num * b.denom \in Nat /\ a.denom \in Nat
    BY <1>1
  <2>2. QED
    BY <1>2, <2>1, Products
<1>6. /\ c.denom * (a.num * b.denom) = b.denom * x
      /\ c.denom * (b.num * a.denom) = a.denom * (b.num * c.denom)
      /\ a.denom * (c.num * b.denom) = b.denom * y
  BY <1>1
<1>7. b.denom * x <= b.denom * y
  <2>1. c.denom * (a.num * b.denom) \in Nat /\ c.denom * (b.num * a.denom) \in Nat
        /\ a.denom * (c.num * b.denom) \in Nat
    BY <1>1
  <2>2. QED
    BY <1>4, <1>5, <1>6, <2>1
<1> HIDE DEF x, y
<1>8. ~(y < x)
  <2> SUFFICES ASSUME y < x
               PROVE  FALSE
    OBVIOUS
  <2>1. b.denom * y < b.denom * x
    BY <1>1, <1>3, StrictProducts
  <2>2. b.denom * y \in Nat /\ b.denom * x \in Nat
    BY <1>1, <1>3
  <2>3. QED
    BY <1>7, <2>1, <2>2
<1>9. QED
  BY <1>3, <1>8 DEF IsLarger, x, y

\* Places of factors that can be compared have one of which no other factor is larger.
LEMMA LargestExists ==
  ASSUME NEW P \in SUBSET DOMAIN ScalingFactors, P # {}, \A i \in P : ScalingFactors[i] \in Factor
  PROVE  \E i \in P : \A j \in P : ~IsLarger(ScalingFactors[j], ScalingFactors[i])
<1> DEFINE IsTop(Q, i) == \A j \in Q : ~IsLarger(ScalingFactors[j], ScalingFactors[i])
           Bad == {Q \in SUBSET P : Q # {} /\ ~ \E i \in Q : IsTop(Q, i)}
<1> SUFFICES ASSUME Bad # {}
             PROVE  FALSE
  OBVIOUS
<1>1. IsFiniteSet(P) /\ Bad \subseteq SUBSET P
  <2>1. ScalingFactors \in Seq([num : Nat, denom : Nat])
    BY DecoderAssumption
  <2>2. Len(ScalingFactors) \in Nat /\ P \in SUBSET (1..Len(ScalingFactors))
    BY <2>1, LenProperties
  <2>3. IsFiniteSet(1..Len(ScalingFactors))
    BY <2>2, FS_Interval
  <2>4. QED
    BY <2>2, <2>3, FS_Subset
<1>2. PICK Q \in Bad : \A U \in SUBSET Q : U # Q => U \notin Bad
  <2> HIDE DEF Bad
  <2>1. QED
    BY <1>1, LeastSet
<1>3. PICK x \in Q : TRUE
  OBVIOUS
<1>4. Q \ {x} \notin Bad
  BY <1>2, <1>3, ZenonT(60)
<1>5. \A i \in P : ~IsLarger(ScalingFactors[i], ScalingFactors[i])
  BY DEF Factor, IsLarger
<1>6. CASE Q \ {x} = {}
  BY <1>3, <1>5, <1>6
<1>7. CASE Q \ {x} # {}
  <2>1. PICK y \in Q \ {x} : IsTop(Q \ {x}, y)
    BY <1>4, <1>7
  <2>2. ScalingFactors[x] \in Factor /\ ScalingFactors[y] \in Factor
    BY <1>3, <2>1
  <2>3. CASE ~IsLarger(ScalingFactors[x], ScalingFactors[y])
    BY <2>1, <2>3
  <2>4. CASE IsLarger(ScalingFactors[x], ScalingFactors[y])
    <3>1. ~IsLarger(ScalingFactors[y], ScalingFactors[x])
      BY <2>2, <2>4 DEF IsLarger, Factor
    <3>2. ASSUME NEW j \in Q
          PROVE  ~IsLarger(ScalingFactors[j], ScalingFactors[x])
      <4>1. CASE j = x
        BY <1>3, <1>5, <4>1
      <4>2. CASE j # x
        <5>1. ~IsLarger(ScalingFactors[j], ScalingFactors[y]) /\ ScalingFactors[j] \in Factor
          BY <2>1, <3>2, <4>2
        <5>2. QED
          BY <2>2, <3>1, <5>1, NotLargerIsTransitive
      <4>3. QED
        BY <4>1, <4>2
    <3>3. IsTop(Q, x)
      BY <3>2
    <3>4. QED
      BY <1>3, <3>3
  <2>5. QED
    BY <2>3, <2>4
<1>8. QED
  BY <1>6, <1>7

\* The loop over the factors ends with an allowed one that no allowed one is larger than,
\* and without one only if none is allowed.
LEMMA ChosenFactor ==
  /\ ChooseScalingFactor = NoFactor =>
       \A i \in DOMAIN ScalingFactors : ~FactorIsAllowed(ScalingFactors[i])
  /\ ChooseScalingFactor # NoFactor =>
       \E i \in DOMAIN ScalingFactors :
         /\ ChooseScalingFactor = ScalingFactors[i]
         /\ ScalingFactors[i] \in Factor /\ FactorIsAllowed(ScalingFactors[i])
         /\ \A j \in DOMAIN ScalingFactors : FactorIsAllowed(ScalingFactors[j]) =>
              ScalingFactors[j] \in Factor /\ ~IsLarger(ScalingFactors[j], ScalingFactors[i])
<1> DEFINE allowed == {i \in DOMAIN ScalingFactors : FactorIsAllowed(ScalingFactors[i])}
<1>1. DOMAIN ScalingFactors \subseteq Nat
  <2>1. DOMAIN ScalingFactors = 1..Len(ScalingFactors) /\ Len(ScalingFactors) \in Nat
    BY DecoderAssumption, LenProperties
  <2>2. QED
    BY <2>1
<1>2. \A i \in DOMAIN ScalingFactors : ScalingFactors[i] \in [num : Nat, denom : Nat]
  BY DecoderAssumption, ElementOfSeq, LenProperties
<1>3. \A i \in allowed : ScalingFactors[i] \in Factor /\ ScalingFactors[i] # NoFactor
  BY <1>2 DEF FactorIsAllowed, Factor, NoFactor
<1>4. allowed = {} \/ LargestAllowed # {}
  BY <1>3, LargestExists DEF LargestAllowed
<1>5. LargestAllowed \subseteq allowed
  BY DEF LargestAllowed
<1>6. CASE LargestAllowed = {}
  BY <1>4, <1>6 DEF ChooseScalingFactor
<1>7. CASE LargestAllowed # {}
  <2> DEFINE least == Min(LargestAllowed)
  <2>1. least \in LargestAllowed
    <3>1. LargestAllowed \in SUBSET Nat
      BY <1>1, <1>5
    <3>2. \E i \in LargestAllowed : \A j \in LargestAllowed : i <= j
      BY <1>7, <3>1, LeastNumber
    <3>3. QED
      BY <3>2 DEF Min
  <2>2. ChooseScalingFactor = ScalingFactors[least]
    BY <1>7 DEF ChooseScalingFactor
  <2> HIDE DEF least
  <2>3. least \in allowed /\ \A j \in allowed : ~IsLarger(ScalingFactors[j], ScalingFactors[least])
    BY <2>1 DEF LargestAllowed
  <2>4. QED
    BY <1>3, <2>2, <2>3
<1>8. QED
  BY <1>6, <1>7

\* A number of pixels that is scaled keeps one of them, keeps the percentage, and grows with
\* the factor.
LEMMA ScaledBounds ==
  ASSUME NEW pixels \in Nat \ {0}, NEW factor \in Factor, factor.num > 0,
         NEW percent \in Nat, factor.num * 100 <= factor.denom * percent
  PROVE  /\ Scaled(pixels, factor) \in Nat \ {0}
         /\ Scaled(pixels, factor) <= (pixels * percent + 99) \div 100
         /\ (pixels * percent + 99) \div 100 \in Nat
<1> DEFINE n == factor.num
           d == factor.denom
           c == (pixels * n + d - 1) \div d
<1>1. n \in Nat \ {0} /\ d \in Nat \ {0}
  BY DEF Factor
<1>2. pixels * n \in Nat \ {0}
  BY <1>1
<1>3. c \in Nat /\ pixels * n + d - 1 < d * c + d
  <2>1. pixels * n + d - 1 \in Nat
    BY <1>1, <1>2
  <2>2. QED
    BY <1>1, <2>1, QuotientBounds
<1>4. c = Scaled(pixels, factor)
  BY DEF Scaled
<1>5. n * 100 <= percent * d
  BY <1>1
<1> HIDE DEF n, d
<1>6. c <= (pixels * percent + 100 - 1) \div 100
  BY <1>1, <1>5, RoundedUpGrows
<1>7. pixels * percent + 100 - 1 = pixels * percent + 99 /\ pixels * percent + 99 \in Nat
  OBVIOUS
<1>8. (pixels * percent + 99) \div 100 \in Nat
  BY <1>7, QuotientBounds
<1> HIDE DEF c
<1>9. c # 0
  <2>1. c = 0 => d * c = 0
    BY <1>1
  <2>2. QED
    BY <1>1, <1>2, <1>3, <2>1
<1>10. QED
  BY <1>3, <1>4, <1>6, <1>7, <1>8, <1>9

LEMMA ScaledGrows ==
  ASSUME NEW pixels \in Nat, NEW a \in Factor, NEW b \in Factor, ~IsLarger(a, b)
  PROVE  Scaled(pixels, a) <= Scaled(pixels, b)
<1>1. /\ a.num \in Nat /\ b.num \in Nat /\ a.denom \in Nat \ {0} /\ b.denom \in Nat \ {0}
      /\ a.num * b.denom <= b.num * a.denom
  BY DEF Factor, IsLarger
<1>2. QED
  BY <1>1, RoundedUpGrows DEF Scaled

\* A decoded picture keeps every limit and is the largest that the request allows.  A file
\* that can be decoded is refused only if no factor meets the width or the height of the
\* request, or if the largest picture that the request allows exceeds the memory; whatever
\* factors the library has, if the least percentage allows one of them.
THEOREM DecodedPicturesFit == DecoderTypeOK => DecodedPictureFits
<1> SUFFICES ASSUME DecoderTypeOK
             PROVE  DecodedPictureFits
  OBVIOUS
<1> DEFINE w == file.width
           h == file.height
           p == request.scalePercent
           chosen == ChooseScalingFactor
           Accepts == IsDecodable /\ chosen # NoFactor /\ FitsMemory(PictureOf(chosen))
<1>1. /\ w \in Nat /\ h \in Nat /\ p \in Nat /\ request.maximumWidth \in Nat /\ request.maximumHeight \in Nat
      /\ FileIsAccepted => w \in Nat \ {0} /\ h \in Nat \ {0}
  BY DEF DecoderTypeOK, FileIsAccepted
<1>2. DecodedPicture = IF Accepts THEN PictureOf(chosen) ELSE Refused
  BY DEF DecodedPicture
<1>3. ASSUME chosen # NoFactor, FileIsAccepted
      PROVE  /\ FactorIsAllowed(chosen) /\ chosen \in AllowedFactors
             /\ PictureOf(chosen).width \in 1..Percent(w)
             /\ PictureOf(chosen).height \in 1..Percent(h)
             /\ IsLargestPicture(PictureOf(chosen))
  <2>1. /\ FactorIsAllowed(chosen) /\ chosen \in Factor /\ chosen \in ToSet(ScalingFactors)
        /\ \A j \in DOMAIN ScalingFactors : FactorIsAllowed(ScalingFactors[j]) =>
             ScalingFactors[j] \in Factor /\ ~IsLarger(ScalingFactors[j], chosen)
    BY <1>3, ChosenFactor DEF ToSet
  <2> HIDE DEF chosen
  <2>2. chosen.num > 0 /\ chosen.num * 100 <= chosen.denom * p
    BY <2>1 DEF FactorIsAllowed
  <2>3. w \in Nat \ {0} /\ h \in Nat \ {0} /\ p \in Nat
    BY <1>1, <1>3
  <2>4. /\ PictureOf(chosen).width = Scaled(w, chosen)
        /\ PictureOf(chosen).height = Scaled(h, chosen)
        /\ \A factor : /\ PictureOf(factor).width = Scaled(w, factor)
                       /\ PictureOf(factor).height = Scaled(h, factor)
    BY DEF PictureOf
  <2>5. Percent(w) = (w * p + 99) \div 100 /\ Percent(h) = (h * p + 99) \div 100
    BY DEF Percent
  <2> HIDE DEF w, h, p
  <2>6. /\ Scaled(w, chosen) \in Nat \ {0} /\ Scaled(w, chosen) <= (w * p + 99) \div 100
        /\ Scaled(h, chosen) \in Nat \ {0} /\ Scaled(h, chosen) <= (h * p + 99) \div 100
        /\ (w * p + 99) \div 100 \in Nat /\ (h * p + 99) \div 100 \in Nat
    BY <2>1, <2>2, <2>3, ScaledBounds
  <2>7. Scaled(w, chosen) \in 1..Percent(w) /\ Scaled(h, chosen) \in 1..Percent(h)
    BY <2>5, <2>6
  <2>8. \A j \in DOMAIN ScalingFactors : FactorIsAllowed(ScalingFactors[j]) =>
          /\ Scaled(w, ScalingFactors[j]) <= Scaled(w, chosen)
          /\ Scaled(h, ScalingFactors[j]) <= Scaled(h, chosen)
    BY <2>1, <2>3, ScaledGrows
  <2>9. IsLargestPicture(PictureOf(chosen))
    BY <2>4, <2>8 DEF IsLargestPicture, AllowedFactors, ToSet
  <2>10. chosen \in AllowedFactors
    BY <2>1 DEF AllowedFactors
  <2>11. QED
    BY <2>1, <2>4, <2>7, <2>9, <2>10
<1>4. CASE Accepts
  <2>1. DecodedPicture = PictureOf(chosen) /\ FileIsAccepted /\ chosen # NoFactor
    BY <1>2, <1>4 DEF IsDecodable
  <2>2. /\ FactorIsAllowed(chosen)
        /\ DecodedPicture.width \in 1..Percent(w) /\ DecodedPicture.height \in 1..Percent(h)
        /\ IsLargestPicture(DecodedPicture)
    BY <1>3, <2>1
  <2>3. /\ request.maximumWidth # 0 => DecodedPicture.width <= request.maximumWidth
        /\ request.maximumHeight # 0 => DecodedPicture.height <= request.maximumHeight
    BY <2>1, <2>2 DEF FactorIsAllowed, PictureOf
  <2>4. FitsMemory(DecodedPicture)
    BY <1>4, <2>1
  <2>5. DecodedPicture # Refused
    <3>1. DecodedPicture.width # 0
      BY <2>2
    <3>2. QED
      BY <3>1 DEF Refused
  <2>6. QED
    BY <2>2, <2>3, <2>4, <2>5 DEF DecodedPictureFits
<1>5. CASE ~Accepts
  <2> SUFFICES ASSUME IsDecodable
               PROVE  \/ /\ AllowedFactors = {}
                         /\ request.maximumWidth # 0 \/ request.maximumHeight # 0
                      \/ \E factor \in AllowedFactors :
                           IsLargestPicture(PictureOf(factor)) /\ ~FitsMemory(PictureOf(factor))
    BY <1>2, <1>5 DEF DecodedPictureFits
  <2>1. FileIsAccepted /\ p \in MinimumScalePercent..MaximumScalePercent
    BY DEF IsDecodable
  <2>2. CASE chosen # NoFactor
    BY <1>3, <1>5, <2>1, <2>2
  <2>3. CASE chosen = NoFactor
    <3>1. AllowedFactors = {}
      BY <2>3, ChosenFactor DEF AllowedFactors, ToSet
    <3>2. request.maximumWidth # 0 \/ request.maximumHeight # 0
      <4> SUFFICES ASSUME request.maximumWidth = 0, request.maximumHeight = 0
                   PROVE  FALSE
        OBVIOUS
      <4>1. PICK i \in DOMAIN ScalingFactors :
              /\ ScalingFactors[i].num > 0 /\ ScalingFactors[i].num <= ScalingFactors[i].denom
              /\ ScalingFactors[i].num * 100 <= ScalingFactors[i].denom * MinimumScalePercent
        BY DecoderAssumption DEF ToSet
      <4>2. ScalingFactors[i].num \in Nat /\ ScalingFactors[i].denom \in Nat
        <5>1. ScalingFactors[i] \in [num : Nat, denom : Nat]
          BY DecoderAssumption, ElementOfSeq, LenProperties
        <5>2. QED
          BY <5>1
      <4>3. p \in Nat /\ MinimumScalePercent \in Nat /\ MinimumScalePercent <= p
        BY <1>1, <2>1, DecoderAssumption, SMTT(30)
      <4>4. ScalingFactors[i].denom * MinimumScalePercent <= ScalingFactors[i].denom * p
        BY <4>2, <4>3, Products
      <4>5. ScalingFactors[i].num * 100 <= ScalingFactors[i].denom * p
        <5>1. /\ ScalingFactors[i].num * 100 \in Nat /\ ScalingFactors[i].denom * p \in Nat
              /\ ScalingFactors[i].denom * MinimumScalePercent \in Nat
          BY <4>2, <4>3
        <5>2. QED
          BY <4>1, <4>4, <5>1
      <4>6. FactorIsAllowed(ScalingFactors[i])
        BY <4>1, <4>2, <4>5 DEF FactorIsAllowed
      <4>7. QED
        BY <2>3, <4>6, ChosenFactor
    <3>3. QED
      BY <3>1, <3>2
  <2>4. QED
    BY <2>2, <2>3
<1>6. QED
  BY <1>4, <1>5
=============================================================================
