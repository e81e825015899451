---------------------------- MODULE PalWatchProofs ----------------------------
(***************************************************************************)
(* Change notification for every number of watches and events, length of   *)
(* the kernel's queue and set of requests: the reads give the kernel's     *)
(* events in order, as those that the client asked for.                    *)
(***************************************************************************)
EXTENDS PalWatch, SequenceTheorems, TLAPS

Watch == [mask : SUBSET (0..11), on : BOOLEAN]

Report == [fh : Nat, flags : SUBSET (0..11)]

WatchTypes ==
    /\ watches \in Seq(Watch)
    /\ asked \in Seq(SUBSET (0..11)) /\ Len(asked) = Len(watches)
    /\ queue \in Seq(Event) /\ happened \in Seq(Event) /\ delivered \in Seq(Report)
    /\ success \in BOOLEAN

\* A watch is set to what it was asked for at some time.
MasksAsked ==
    \A wd \in 1..Len(watches) :
        \A b \in watches[wd].mask : LibraryBit(b) \in asked[wd]

\* An event is one that the kernel makes by itself, or a bit of a watch.
FromWatch(e) ==
    \/ e.mask \subseteq {QOverflow, Ignored}
    \/ /\ e.wd \in 1..Len(asked)
       /\ \E b \in 0..11 : e.mask = {b} /\ LibraryBit(b) \in asked[e.wd]

AllFromWatches == \A i \in 1..Len(happened) : FromWatch(happened[i])

\* What follows the first n of all.
IsRest(rest, all, n) ==
    /\ n + Len(rest) = Len(all)
    /\ \A i \in 1..Len(rest) : rest[i] = all[n + i]

\* The queue is the rest of what happened.
QueueIsRest == IsRest(queue, happened, Len(delivered))

ReadInOrder ==
    \A i \in 1..Len(delivered) :
        /\ ~happened[i].named
        /\ delivered[i] = [fh |-> happened[i].wd, flags |-> Flags(happened[i].mask)]

FailureIsName == ~success => queue # <<>> /\ queue[1].named

WatchInv ==
    /\ WatchTypes /\ MasksAsked /\ AllFromWatches
    /\ QueueIsRest /\ ReadInOrder /\ FailureIsName

-----------------------------------------------------------------------------
(* The two conversions of flags.                                           *)

\* The second conversion undoes the first.
LEMMA BitsReturn ==
    ASSUME NEW b \in 0..11
    PROVE  KernelBit(b) \in 0..11 /\ LibraryBit(KernelBit(b)) = b
<1>1. b \in {0, 1, 2, 3, 4, 5, 6, 7, 8, 9, 10, 11}  OBVIOUS
<1>2. CASE b \in {0, 1, 2, 3, 4, 5}  BY <1>2 DEF KernelBit, LibraryBit
<1>3. CASE b \in {6, 7, 8, 9, 10, 11}  BY <1>3 DEF KernelBit, LibraryBit
<1> QED  BY <1>1, <1>2, <1>3

LEMMA LibraryBitTyped ==
    ASSUME NEW b \in 0..11
    PROVE  LibraryBit(b) \in 0..11
BY DEF LibraryBit

\* A mask holds what was asked for.
LEMMA ConvertedAsked ==
    ASSUME NEW flags \in SUBSET (0..11)
    PROVE  /\ Converted(flags) \in SUBSET (0..11)
           /\ \A b \in Converted(flags) : LibraryBit(b) \in flags
BY BitsReturn DEF Converted

LEMMA FlagsTyped ==
    ASSUME NEW mask
    PROVE  Flags(mask) \in SUBSET (0..11)
BY LibraryBitTyped DEF Flags

-----------------------------------------------------------------------------
(* Steps.                                                                  *)

\* The rest stays the rest when both are appended to.
LEMMA RestGrows ==
    ASSUME NEW S, NEW rest \in Seq(S), NEW all \in Seq(S), NEW n \in Nat, NEW e \in S,
           IsRest(rest, all, n)
    PROVE  IsRest(Append(rest, e), Append(all, e), n)
<1>1. Len(rest) \in Nat /\ Len(all) \in Nat /\ n + Len(rest) = Len(all)  BY DEF IsRest
<1>2. Len(Append(rest, e)) = Len(rest) + 1 /\ Len(Append(all, e)) = Len(all) + 1
  OBVIOUS
<1>3. ASSUME NEW i \in 1..(Len(rest) + 1)
      PROVE  Append(rest, e)[i] = Append(all, e)[n + i]
  <2>1. CASE i = Len(rest) + 1
    <3>1. n + i = Len(all) + 1  BY <1>1, <2>1
    <3> QED  BY <2>1, <3>1
  <2>2. CASE i \in 1..Len(rest)
    <3>1. n + i \in 1..Len(all)  BY <1>1, <2>2
    <3>2. Append(all, e)[n + i] = all[n + i] /\ Append(rest, e)[i] = rest[i]
      BY <2>2, <3>1
    <3> QED  BY <2>2, <3>2 DEF IsRest
  <2> QED  BY <1>1, <2>1, <2>2
<1>4. n + (Len(rest) + 1) = Len(all) + 1  BY <1>1
<1> QED  BY <1>2, <1>3, <1>4, Zenon DEF IsRest

\* Whatever the kernel queues, or drops, or merges.
LEMMA QueueGrows ==
    ASSUME WatchInv, NEW e \in Event, FromWatch(e), Queued(e),
           UNCHANGED <<asked, delivered, success>>
    PROVE  /\ queue' \in Seq(Event) /\ happened' \in Seq(Event)
           /\ AllFromWatches' /\ QueueIsRest' /\ ReadInOrder' /\ FailureIsName'
<1> DEFINE q == IF Len(queue) < QueueLimit THEN e ELSE Overflow
<1>1. q \in Event /\ FromWatch(q)
  BY DEF Event, Overflow, NoWatch, FromWatch, QOverflow
<1>2. CASE UNCHANGED <<queue, happened>>
  BY <1>2 DEF WatchInv, WatchTypes, AllFromWatches, FromWatch, QueueIsRest, ReadInOrder,
              FailureIsName
<1>3. CASE queue' = Append(queue, q) /\ happened' = Append(happened, q)
  <2> HIDE DEF q
  <2>1. /\ queue \in Seq(Event) /\ happened \in Seq(Event) /\ delivered \in Seq(Report)
        /\ Len(queue) \in Nat /\ Len(happened) \in Nat /\ Len(delivered) \in Nat
        /\ Len(delivered) + Len(queue) = Len(happened)
    BY DEF WatchInv, WatchTypes, QueueIsRest, IsRest
  <2>2. /\ queue' \in Seq(Event) /\ Len(queue') = Len(queue) + 1
        /\ queue'[Len(queue) + 1] = q
        /\ \A i \in 1..Len(queue) : queue'[i] = queue[i]
    BY <1>1, <1>3, <2>1, AppendProperties
  <2>3. /\ happened' \in Seq(Event) /\ Len(happened') = Len(happened) + 1
        /\ happened'[Len(happened) + 1] = q
        /\ \A i \in 1..Len(happened) : happened'[i] = happened[i]
    BY <1>1, <1>3, <2>1, AppendProperties
  <2>4. AllFromWatches'
    <3>1. ASSUME NEW i \in 1..Len(happened') PROVE FromWatch(happened'[i])
      <4>1. CASE i = Len(happened) + 1  BY <1>1, <2>3, <4>1
      <4>2. CASE i \in 1..Len(happened)
        <5>1. happened'[i] = happened[i]  BY <2>3, <4>2
        <5> QED  BY <4>2, <5>1 DEF WatchInv, AllFromWatches
      <4> QED  BY <2>1, <2>3, <4>1, <4>2
    <3> QED  BY <3>1 DEF AllFromWatches, FromWatch
  <2>5. QueueIsRest'
    <3>1. UNCHANGED delivered  OBVIOUS
    <3>2. IsRest(Append(queue, q), Append(happened, q), Len(delivered))
      BY <1>1, <2>1, RestGrows DEF WatchInv, QueueIsRest
    <3> QED  BY <1>3, <3>1, <3>2, Zenon DEF QueueIsRest
  <2>6. ReadInOrder'
    <3>1. UNCHANGED delivered  OBVIOUS
    <3>2. \A i \in 1..Len(delivered) : happened'[i] = happened[i]  BY <2>1, <2>3
    <3> QED  BY <3>1, <3>2 DEF WatchInv, ReadInOrder
  <2>7. FailureIsName'
    BY <2>1, <2>2 DEF WatchInv, FailureIsName
  <2> QED  BY <2>2, <2>3, <2>4, <2>5, <2>6, <2>7
<1> QED  BY <1>2, <1>3 DEF Queued

LEMMA WatchInvInit ==
    ASSUME WatchInit
    PROVE  WatchInv
BY DEF WatchInit, WatchInv, WatchTypes, MasksAsked, AllFromWatches, QueueIsRest, IsRest,
       ReadInOrder, FailureIsName

LEMMA StepStart ==
    ASSUME WatchInv, NEW flags \in Asked, StartWatch(flags)
    PROVE  WatchInv'
<1> DEFINE w == [mask |-> Converted(flags), on |-> TRUE]
<1>1. flags \in SUBSET (0..11)  BY PalWatchAssumption
<1>2. w \in Watch /\ w.mask = Converted(flags)
  BY <1>1, ConvertedAsked DEF Watch
<1>3. /\ watches' = Append(watches, w) /\ asked' = Append(asked, flags)
      /\ UNCHANGED <<queue, happened, delivered, success>>
  BY DEF StartWatch
<1> HIDE DEF w
<1>4. /\ watches \in Seq(Watch) /\ asked \in Seq(SUBSET (0..11))
      /\ Len(asked) = Len(watches) /\ Len(watches) \in Nat
  BY DEF WatchInv, WatchTypes
<1>5. /\ watches' \in Seq(Watch) /\ Len(watches') = Len(watches) + 1
      /\ watches'[Len(watches) + 1] = w
      /\ \A i \in 1..Len(watches) : watches'[i] = watches[i]
  BY <1>2, <1>3, <1>4, AppendProperties
<1>6. /\ asked' \in Seq(SUBSET (0..11)) /\ Len(asked') = Len(watches) + 1
      /\ asked'[Len(watches) + 1] = flags
      /\ \A i \in 1..Len(watches) : asked'[i] = asked[i]
  BY <1>1, <1>3, <1>4, AppendProperties
<1>7. WatchTypes'
  BY <1>3, <1>5, <1>6 DEF WatchInv, WatchTypes
<1>8. MasksAsked'
  BY <1>1, <1>2, <1>4, <1>5, <1>6, ConvertedAsked DEF WatchInv, MasksAsked
<1>9. AllFromWatches'
  <2>1. ASSUME NEW e, FromWatch(e) PROVE FromWatch(e)'
    BY <1>4, <1>6, <2>1 DEF FromWatch
  <2> QED  BY <1>3, <2>1 DEF WatchInv, AllFromWatches
<1> QED
  BY <1>3, <1>7, <1>8, <1>9 DEF WatchInv, QueueIsRest, ReadInOrder, FailureIsName

LEMMA StepStartAgain ==
    ASSUME WatchInv, NEW wd \in 1..Len(watches), NEW flags \in Asked, StartAgain(wd, flags)
    PROVE  WatchInv'
<1>1. flags \in SUBSET (0..11)  BY PalWatchAssumption
<1>2. /\ watches' = [watches EXCEPT ![wd].mask = Converted(flags)]
      /\ asked' = [asked EXCEPT ![wd] = @ \cup flags]
      /\ UNCHANGED <<queue, happened, delivered, success>>
  BY DEF StartAgain
<1>3. /\ watches \in Seq(Watch) /\ asked \in Seq(SUBSET (0..11))
      /\ Len(asked) = Len(watches) /\ Len(watches) \in Nat
  BY DEF WatchInv, WatchTypes
<1>4. Converted(flags) \in SUBSET (0..11) /\ \A b \in Converted(flags) : LibraryBit(b) \in flags
  BY <1>1, ConvertedAsked
<1>5. /\ watches' \in Seq(Watch) /\ Len(watches') = Len(watches)
      /\ watches'[wd].mask = Converted(flags)
      /\ \A i \in 1..Len(watches) : i # wd => watches'[i] = watches[i]
  <2> DEFINE w == [watches[wd] EXCEPT !.mask = Converted(flags)]
  <2>1. w \in Watch /\ w.mask = Converted(flags)
    <3>1. watches[wd] \in Watch  BY <1>3
    <3> QED  BY <1>4, <3>1 DEF Watch
  <2>2. watches' = [watches EXCEPT ![wd] = w]  BY <1>2
  <2> HIDE DEF w
  <2> QED  BY <1>3, <2>1, <2>2
<1>6. /\ asked' \in Seq(SUBSET (0..11)) /\ Len(asked') = Len(watches)
      /\ asked'[wd] = asked[wd] \cup flags
      /\ \A i \in 1..Len(watches) : i # wd => asked'[i] = asked[i]
  BY <1>1, <1>2, <1>3
<1>7. WatchTypes'
  BY <1>2, <1>5, <1>6 DEF WatchInv, WatchTypes
<1>8. MasksAsked'
  BY <1>3, <1>4, <1>5, <1>6 DEF WatchInv, MasksAsked
<1>9. AllFromWatches'
  BY <1>2, <1>3, <1>6 DEF WatchInv, AllFromWatches, FromWatch
<1> QED
  BY <1>2, <1>7, <1>8, <1>9 DEF WatchInv, QueueIsRest, ReadInOrder, FailureIsName

LEMMA StepEnd ==
    ASSUME WatchInv, NEW wd \in 1..Len(watches), EndWatch(wd)
    PROVE  WatchInv'
<1> DEFINE e == [wd |-> wd, mask |-> {Ignored}, named |-> FALSE]
<1>1. /\ watches' = [watches EXCEPT ![wd].on = FALSE]
      /\ Queued(e) /\ UNCHANGED <<asked, delivered, success>>
  BY DEF EndWatch
<1>2. e \in Event /\ FromWatch(e)
  BY DEF WatchInv, WatchTypes, Event, FromWatch, Ignored
<1> HIDE DEF e
<1>3. /\ watches' \in Seq(Watch) /\ Len(watches') = Len(watches)
      /\ \A i \in 1..Len(watches) : watches'[i].mask = watches[i].mask
  <2> DEFINE w == [watches[wd] EXCEPT !.on = FALSE]
  <2>1. watches \in Seq(Watch)  BY DEF WatchInv, WatchTypes
  <2>2. w \in Watch /\ w.mask = watches[wd].mask
    <3>1. watches[wd] \in Watch  BY <2>1
    <3> QED  BY <3>1 DEF Watch
  <2>3. watches' = [watches EXCEPT ![wd] = w]  BY <1>1
  <2> HIDE DEF w
  <2> QED  BY <2>1, <2>2, <2>3
<1>4. /\ queue' \in Seq(Event) /\ happened' \in Seq(Event)
      /\ AllFromWatches' /\ QueueIsRest' /\ ReadInOrder' /\ FailureIsName'
  BY <1>1, <1>2, QueueGrows
<1>5. WatchTypes'  BY <1>1, <1>3, <1>4 DEF WatchInv, WatchTypes
<1>6. MasksAsked'  BY <1>1, <1>3 DEF WatchInv, MasksAsked
<1> QED  BY <1>4, <1>5, <1>6 DEF WatchInv

LEMMA StepHappens ==
    ASSUME WatchInv, NEW wd \in 1..Len(watches), NEW b \in 0..11, NEW named \in BOOLEAN,
           Happens(wd, b, named)
    PROVE  WatchInv'
<1> DEFINE e == [wd |-> wd, mask |-> {b}, named |-> named]
<1>1. /\ b \in watches[wd].mask
      /\ Queued(e) /\ UNCHANGED <<watches, asked, delivered, success>>
  BY DEF Happens
<1>2. e \in Event
  BY DEF WatchInv, WatchTypes, Event
<1>3. FromWatch(e)
  BY <1>1 DEF WatchInv, WatchTypes, MasksAsked, FromWatch
<1> HIDE DEF e
<1>4. /\ queue' \in Seq(Event) /\ happened' \in Seq(Event)
      /\ AllFromWatches' /\ QueueIsRest' /\ ReadInOrder' /\ FailureIsName'
  BY <1>1, <1>2, <1>3, QueueGrows
<1>5. WatchTypes' /\ MasksAsked'
  BY <1>1, <1>4 DEF WatchInv, WatchTypes, MasksAsked
<1> QED  BY <1>4, <1>5 DEF WatchInv

LEMMA StepRead ==
    ASSUME WatchInv, ReadEvent
    PROVE  WatchInv'
<1> DEFINE e == queue[1]
           r == [fh |-> e.wd, flags |-> Flags(e.mask)]
<1>1. /\ queue # <<>> /\ ~e.named
      /\ queue' = Tail(queue) /\ delivered' = Append(delivered, r) /\ success' = TRUE
      /\ UNCHANGED <<watches, asked, happened>>
  BY DEF ReadEvent, WatchInv, WatchTypes
<1>2. /\ queue \in Seq(Event) /\ happened \in Seq(Event) /\ delivered \in Seq(Report)
      /\ Len(queue) \in Nat /\ Len(delivered) \in Nat /\ Len(queue) > 0
      /\ Len(happened) = Len(delivered) + Len(queue)
      /\ \A i \in 1..Len(queue) : queue[i] = happened[Len(delivered) + i]
  BY <1>1, EmptySeq DEF WatchInv, WatchTypes, QueueIsRest, IsRest
<1>3. e \in Event /\ e = happened[Len(delivered) + 1]
  BY <1>2
<1>4. r \in Report
  BY <1>3, FlagsTyped DEF Event, Report
<1>5. /\ queue' \in Seq(Event) /\ Len(queue') = Len(queue) - 1
      /\ \A i \in 1..(Len(queue) - 1) : queue'[i] = queue[i + 1]
  BY <1>1, <1>2, HeadTailProperties
<1> HIDE DEF r
<1>6. /\ delivered' \in Seq(Report) /\ Len(delivered') = Len(delivered) + 1
      /\ delivered'[Len(delivered) + 1] = r
      /\ \A i \in 1..Len(delivered) : delivered'[i] = delivered[i]
  BY <1>1, <1>2, <1>4, AppendProperties
<1>7. WatchTypes'  BY <1>1, <1>5, <1>6 DEF WatchInv, WatchTypes
<1>8. QueueIsRest'
  BY <1>1, <1>2, <1>5, <1>6 DEF QueueIsRest, IsRest
<1>9. ReadInOrder'
  BY <1>1, <1>2, <1>3, <1>6 DEF WatchInv, ReadInOrder, r
<1> QED
  BY <1>1, <1>7, <1>8, <1>9 DEF WatchInv, MasksAsked, AllFromWatches, FromWatch,
                                FailureIsName

LEMMA WatchInvStep ==
    ASSUME WatchInv, [WatchNext]_watchVars
    PROVE  WatchInv'
<1>1. CASE ReadNothing
  BY <1>1 DEF ReadNothing, WatchInv, WatchTypes, MasksAsked, AllFromWatches, FromWatch,
              QueueIsRest, ReadInOrder, FailureIsName
<1>2. CASE ReadFails
  <2>1. queue[1] = Head(queue)  BY DEF WatchInv, WatchTypes
  <2> QED
    BY <1>2, <2>1 DEF ReadFails, WatchInv, WatchTypes, MasksAsked, AllFromWatches,
                      FromWatch, QueueIsRest, ReadInOrder, FailureIsName
<1>3. CASE UNCHANGED watchVars
  BY <1>3 DEF watchVars, WatchInv, WatchTypes, MasksAsked, AllFromWatches, FromWatch,
              QueueIsRest, ReadInOrder, FailureIsName
<1> QED
  BY <1>1, <1>2, <1>3, StepStart, StepStartAgain, StepEnd, StepHappens, StepRead
  DEF WatchNext

-----------------------------------------------------------------------------
(* The results.                                                            *)

\* The reads and the kernel's queue are, together and in order, all that
\* happened, and every event is one that its watch was asked for.
THEOREM WatchInvariant == WatchSpec => []WatchInv
<1>1. WatchInit => WatchInv  BY WatchInvInit
<1>2. WatchInv /\ [WatchNext]_watchVars => WatchInv'  BY WatchInvStep
<1> QED  BY <1>1, <1>2, PTL DEF WatchSpec

\* The reads give the kernel's events one by one and in order, until one has a
\* name, which pal_read_notify_event has no room for and never gets past.
THEOREM ReadsInOrder == WatchSpec => []EventsInOrder
<1>1. WatchInv => EventsInOrder
  <2> SUFFICES ASSUME WatchInv PROVE EventsInOrder  OBVIOUS
  <2>1. queue \in Seq(Event) /\ Head(queue) = queue[1]  BY DEF WatchInv, WatchTypes
  <2>2. ASSUME NEW i \in 1..Len(delivered)
        PROVE  ~happened[i].named /\ delivered[i].fh = happened[i].wd
    <3>1. delivered[i] = [fh |-> happened[i].wd, flags |-> Flags(happened[i].mask)]
      BY DEF WatchInv, ReadInOrder
    <3> QED  BY <3>1 DEF WatchInv, ReadInOrder
  <2> QED  BY <2>1, <2>2 DEF WatchInv, QueueIsRest, IsRest, FailureIsName, EventsInOrder
<1> QED  BY <1>1, WatchInvariant, PTL

\* What a watch reports is what the client asked it for, whichever of the twelve
\* flags that is.
THEOREM ReportsAreAsked == WatchSpec => []ReportsWhatWasAsked
<1>1. WatchInv => ReportsWhatWasAsked
  <2> SUFFICES ASSUME WatchInv, NEW i \in 1..Len(delivered)
               PROVE  IF happened[i].mask \subseteq {QOverflow, Ignored}
                      THEN delivered[i].flags = {}
                      ELSE /\ delivered[i].flags \subseteq asked[delivered[i].fh]
                           /\ delivered[i].flags # {}
    BY DEF ReportsWhatWasAsked
  <2> DEFINE e == happened[i]
  <2>1. i \in 1..Len(happened)  BY DEF WatchInv, WatchTypes, QueueIsRest, IsRest
  <2>2. delivered[i].fh = e.wd /\ delivered[i].flags = Flags(e.mask)
    <3>1. delivered[i] = [fh |-> e.wd, flags |-> Flags(e.mask)]
      BY DEF WatchInv, ReadInOrder
    <3> HIDE DEF e
    <3> QED  BY <3>1
  <2>3. FromWatch(e)  BY <2>1 DEF WatchInv, AllFromWatches
  <2> HIDE DEF e
  <2>4. CASE e.mask \subseteq {QOverflow, Ignored}
    <3>1. e.mask \cap (0..11) = {}  BY <2>4 DEF QOverflow, Ignored
    <3> QED  BY <2>2, <2>4, <3>1 DEF Flags, e
  <2>5. ASSUME NEW b \in 0..11, e.mask = {b}, LibraryBit(b) \in asked[e.wd]
        PROVE  /\ ~(e.mask \subseteq {QOverflow, Ignored})
               /\ Flags(e.mask) \subseteq asked[e.wd] /\ Flags(e.mask) # {}
    <3>1. b # QOverflow /\ b # Ignored  BY DEF QOverflow, Ignored
    <3>2. Flags(e.mask) = {LibraryBit(b)}  BY <2>5 DEF Flags
    <3> QED  BY <2>5, <3>1, <3>2
  <2> QED  BY <2>2, <2>3, <2>4, <2>5 DEF FromWatch, e
<1> QED  BY <1>1, WatchInvariant, PTL
=============================================================================
