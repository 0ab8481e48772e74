---------------------------- MODULE JpegImageLoader ----------------------------
(***************************************************************************)
(* The memory of decoded pictures: the cache in ui/jpeg_image_loader.cpp,  *)
(* filled by the drawing calls of ui/screen_manager.cpp on the main        *)
(* thread, and the references to its pixels that queued commands and       *)
(* widgets hold until the render thread drops them.                        *)
(*                                                                         *)
(* The cache asks use_count() which pixels nobody else holds while the     *)
(* render thread goes on; a scan of the cache is therefore two steps.      *)
(* Widgets and the background are slots here, and a picture is a file in   *)
(* one version together with the size limits it is decoded for.            *)
(***************************************************************************)
EXTENDS Naturals, SequencesExt, FiniteSetsExt

CONSTANTS
  Pictures,                   \* what createCacheKey() tells apart
  PixelBytes,                 \* size of the decoded pixels of a picture
  Slots,                      \* image widgets and the background image
  MaximumRetainedPixelBytes,  \* size of the cache
  MaximumPendingCommands,     \* length of the render queue
  NoBuffer                    \* nothing shown, nothing being loaded

ASSUME PixelAssumption ==
  /\ PixelBytes \in [Pictures -> Nat \ {0}]
  /\ MaximumRetainedPixelBytes \in Nat \ {0}
  /\ MaximumPendingCommands \in Nat \ {0}
  /\ NoBuffer \notin [picture : Pictures, copy : Nat]

VARIABLES
  cached,     \* m_cachedImages, least recently used first
  retained,   \* m_retainedPixelBytes
  call,       \* the step of the drawing call that the main thread is in
  loading,    \* the pixels that call works with
  target,     \* the slot it draws
  seen,       \* entries found free so far by a scan of the cache
  queue,      \* pending render commands
  executing,  \* the command that the render thread has taken, if any
  shown,      \* the pixels each slot shows
  rendering,  \* the render thread has not failed
  forgotten   \* history: pixels still held when the cache was cleared

callVars   == <<call, loading, target, seen>>
renderVars == <<executing, shown, rendering>>
vars == <<cached, retained, callVars, queue, renderVars, forgotten>>

\* Pixels decoded twice from one picture are two buffers.
Copies   == 1..3   \* bound; never reached, as the proofs show (CopyIsFree)
Buffers  == [picture : Pictures, copy : Copies]
Calls    == {"none", "store", "scan", "enqueue"}
Commands == [op : {"show"}, slot : Slots, buffer : Buffers]
              \cup [op : {"remove"}, slot : Slots] \cup [op : {"wipe"}]

BufferBytes == [b \in Buffers |-> PixelBytes[b.picture]]
Bytes(B) == SumFunctionOnSet(BufferBytes, B)

ShownBy(commands) == {c.buffer : c \in {d \in ToSet(commands) : d.op = "show"}}

\* The buffers that somebody other than the cache refers to.
Held == (ShownBy(queue) \cup ShownBy(executing) \cup {shown[s] : s \in Slots} \cup {loading})
          \ {NoBuffer}
Live == ToSet(cached) \cup Held

Init ==
  /\ cached = << >> /\ retained = 0
  /\ call = "none" /\ loading = NoBuffer /\ target \in Slots /\ seen = {}
  /\ queue = << >> /\ executing = << >>
  /\ shown = [s \in Slots |-> NoBuffer]
  /\ rendering = TRUE
  /\ forgotten = {}

\* Pixels that nobody holds any more are released.
Release == forgotten' = forgotten \cap Live'

-----------------------------------------------------------------------------
(***************************************************************************)
(* Main thread: loadImage() and the drawing call around it.                *)
(***************************************************************************)

Returns == call' = "none" /\ loading' = NoBuffer /\ seen' = {} /\ UNCHANGED target

\* Cached pixels become the most recently used ones.
UseCached(p, s) ==
  /\ call = "none"
  /\ \E i \in DOMAIN cached :
       /\ cached[i].picture = p
       /\ cached' = Append(RemoveAt(cached, i), cached[i])
       /\ loading' = cached[i]
  /\ call' = "enqueue" /\ target' = s
  /\ UNCHANGED <<retained, seen, queue, renderVars, forgotten>>

\* A miss: the file is decoded.  Pixels larger than the cache are refused at once,
\* like a file that cannot be decoded.
Decode(p, s) ==
  /\ call = "none"
  /\ \A b \in ToSet(cached) : b.picture # p
  /\ PixelBytes[p] <= MaximumRetainedPixelBytes
  /\ loading' = [picture |-> p, copy |-> Min({n \in Copies : [picture |-> p, copy |-> n] \notin Live})]
  /\ call' = "store" /\ target' = s
  /\ UNCHANGED <<cached, retained, seen, queue, renderVars, forgotten>>

HasRoom == retained <= MaximumRetainedPixelBytes - PixelBytes[loading.picture]

\* Fault: the new pixels are admitted while there is any room at all.
StoreWhileNotFull ==
  /\ call = "store" /\ retained < MaximumRetainedPixelBytes
  /\ cached' = Append(cached, loading)
  /\ retained' = retained + PixelBytes[loading.picture]
  /\ call' = "enqueue"
  /\ UNCHANGED <<loading, target, seen, queue, renderVars, forgotten>>

\* storeDecodedImage() admits the pixels when there is room for them.
Store ==
  /\ call = "store" /\ HasRoom
  /\ cached' = Append(cached, loading)
  /\ retained' = retained + PixelBytes[loading.picture]
  /\ call' = "enqueue"
  /\ UNCHANGED <<loading, target, seen, queue, renderVars, forgotten>>

\* Fault: use_count() is not looked at.
EveryEntry == ToSet(cached)

\* Entries with use_count() = 1.
FreeEntries == ToSet(cached) \ Held

\* Otherwise the cache is scanned for entries that nobody else holds.
StartScan ==
  /\ call = "store" /\ ~HasRoom
  /\ call' = "scan" /\ seen' = FreeEntries
  /\ UNCHANGED <<cached, retained, loading, target, queue, renderVars, forgotten>>

\* The scan removes the least recently used free entry it saw.  An entry that became
\* free during the scan may have been visited before or after that.
EvictLeastRecentlyUsed ==
  /\ call = "scan"
  /\ \E late \in SUBSET (FreeEntries \ seen) :
       \E victim \in DOMAIN cached :
         /\ cached[victim] \in seen \cup late
         /\ \A older \in 1..(victim - 1) : cached[older] \notin seen \cup late
         /\ cached' = RemoveAt(cached, victim)
         /\ retained' = retained - PixelBytes[cached[victim].picture]
  /\ call' = "store" /\ seen' = {}
  /\ UNCHANGED <<loading, target, queue, renderVars>>
  /\ Release

\* There is none: the drawing call raises an error.
NotEnoughImageMemory ==
  /\ call = "scan" /\ seen = {}
  /\ Returns
  /\ UNCHANGED <<cached, retained, queue, renderVars>>
  /\ Release

\* enqueueRenderCommand() for draw, replace and background; it throws when the queue is
\* full or the render thread has failed, and the pixels stay in the cache.
EnqueuePicture ==
  /\ call = "enqueue"
  /\ IF rendering /\ Len(queue) < MaximumPendingCommands
     THEN queue' = Append(queue, [op |-> "show", slot |-> target, buffer |-> loading])
     ELSE UNCHANGED queue
  /\ Returns
  /\ UNCHANGED <<cached, retained, renderVars>>
  /\ Release

\* deleteJpegImage() and clearBackgroundJpegImage().
EnqueueRemoval(s) ==
  /\ call = "none" /\ rendering /\ Len(queue) < MaximumPendingCommands
  /\ queue' = Append(queue, [op |-> "remove", slot |-> s])
  /\ UNCHANGED <<cached, retained, callVars, renderVars, forgotten>>

\* clearCache().
ClearCache ==
  /\ cached' = << >> /\ retained' = 0
  /\ forgotten' = Live'

\* Fault: the wipe waits behind the commands it should replace.
WipeScreenLast ==
  /\ call = "none" /\ rendering /\ Len(queue) < MaximumPendingCommands
  /\ queue' = Append(queue, [op |-> "wipe"])
  /\ UNCHANGED <<callVars, renderVars>>
  /\ ClearCache

\* clear() and showErrorScreen(): the wipe replaces everything that is queued.
WipeScreen ==
  /\ call = "none" /\ rendering
  /\ queue' = <<[op |-> "wipe"]>>
  /\ UNCHANGED <<callVars, renderVars>>
  /\ ClearCache

\* stop() joins the render thread, whose backend drops every widget; start() brings a
\* new one up, or fails and stops again.
PlayVideo ==
  /\ call = "none" /\ rendering
  /\ queue' = << >> /\ executing' = << >>
  /\ shown' = [s \in Slots |-> NoBuffer]
  /\ rendering' \in BOOLEAN
  /\ UNCHANGED callVars
  /\ ClearCache

-----------------------------------------------------------------------------
(***************************************************************************)
(* Render thread.                                                          *)
(***************************************************************************)

TakeCommand ==
  /\ rendering /\ executing = << >> /\ queue # << >>
  /\ executing' = <<Head(queue)>>
  /\ queue' = Tail(queue)
  /\ UNCHANGED <<cached, retained, callVars, shown, rendering, forgotten>>

\* The command is destroyed after its execution; a replaced picture is let go.
ExecuteCommand ==
  /\ executing # << >>
  /\ LET c == executing[1]
     IN  shown' = [s \in Slots |-> CASE c.op = "wipe" -> NoBuffer
                                     [] c.op # "wipe" /\ s # c.slot -> shown[s]
                                     [] c.op = "show" /\ s = c.slot -> c.buffer
                                     [] c.op = "remove" /\ s = c.slot -> NoBuffer]
  /\ executing' = << >>
  /\ UNCHANGED <<cached, retained, callVars, queue, rendering>>
  /\ Release

\* An exception ends the loop; the backend shuts down.  What is queued stays queued.
RenderThreadFails ==
  /\ rendering
  /\ rendering' = FALSE
  /\ executing' = << >>
  /\ shown' = [s \in Slots |-> NoBuffer]
  /\ UNCHANGED <<cached, retained, callVars, queue>>
  /\ Release

-----------------------------------------------------------------------------
DrawPicture == \E p \in Pictures, s \in Slots : UseCached(p, s) \/ Decode(p, s)

Next ==
  \/ DrawPicture \/ Store \/ StartScan \/ EvictLeastRecentlyUsed \/ NotEnoughImageMemory
  \/ EnqueuePicture \/ (\E s \in Slots : EnqueueRemoval(s)) \/ WipeScreen \/ PlayVideo
  \/ TakeCommand \/ ExecuteCommand \/ RenderThreadFails

Spec == Init /\ [][Next]_vars

-----------------------------------------------------------------------------
(***************************************************************************)
(* Properties.                                                             *)
(***************************************************************************)

\* Types, and the byte count that decides on admission is that of the cached pixels.
TypeOK ==
  /\ cached \in Seq(Buffers) /\ IsInjective(cached)
  /\ retained = Bytes(ToSet(cached))
  /\ call \in Calls
  /\ loading \in Buffers \cup {NoBuffer} /\ (call = "none" <=> loading = NoBuffer)
  /\ target \in Slots
  /\ seen \subseteq ToSet(cached)
  /\ queue \in Seq(Commands) /\ Len(queue) <= MaximumPendingCommands
  /\ executing \in Seq(Commands) /\ Len(executing) <= 1
  /\ shown \in [Slots -> Buffers \cup {NoBuffer}]
  /\ rendering \in BOOLEAN
  /\ forgotten \subseteq Live

\* All pixels of the present screen, cached, queued or shown, fit into the cache: what is
\* evicted is really released.  Only pixels being decoded come on top.
ScreenPixelsAreBounded ==
  Bytes((Live \ forgotten) \ (IF call \in {"store", "scan"} THEN {loading} ELSE {}))
    <= MaximumRetainedPixelBytes

\* Pixels of earlier screens linger only until the wipe is executed, so however often the
\* screen is wiped there is never more than one old screen in memory beside the new one.
OldScreensAreReleased ==
  Bytes(forgotten) <= MaximumRetainedPixelBytes

\* The same picture is never in memory twice for the same screen, and drawing it again
\* does not decode it again while any widget or queued command shows it.
NoPictureTwice ==
  \A a, b \in Live \ forgotten : a.picture = b.picture => a = b

=============================================================================
