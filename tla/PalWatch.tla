------------------------------- MODULE PalWatch -------------------------------
(***************************************************************************)
(* Watching files (dpcrt_pal_linux.c): watches on one inotify instance,    *)
(* the kernel's queue of events, and the calls that read it one by one.    *)
(* Sets of flags are sets of bit numbers: the library's                    *)
(* notify_event_flags and the kernel's mask number the same events         *)
(* differently.                                                            *)
(***************************************************************************)
EXTENDS Naturals, Sequences

CONSTANTS Asked,      \* the sets of library flags that clients ask for
          MaxWatch,   \* how many watches are started: a bound
          MaxEvents,  \* how many events happen: a bound
          QueueLimit, \* max_queued_events
          OpenFiles   \* the numbers of the process's open files

ASSUME PalWatchAssumption ==
    /\ Asked \subseteq SUBSET (0..11)
    /\ MaxWatch \in Nat /\ MaxEvents \in Nat /\ QueueLimit \in Nat \ {0}
    /\ OpenFiles \subseteq Nat

VARIABLES watches,    \* by watch descriptor: the mask, and if it is on
          asked,      \* history: the flags asked for, by watch descriptor
          nonblock,   \* the files that were made non-blocking
          queue,      \* the kernel's events that were not read
          happened,   \* history: all the events of the queue so far
          delivered,  \* history: the valid outputs of the reads
          success     \* what the last read returned

watchVars == <<watches, asked, nonblock, queue, happened, delivered, success>>

\* Mutants (Name_Bug): a bug of a line each, that a property must find.
KernelBit_Swapped(b) == <<0, 2, 3, 4, 8, 9, 10, 1, 11, 7, 6, 5>>[b + 1]

\* notify_event_flags__convert: IN_ACCESS, IN_ATTRIB, IN_CLOSE_WRITE, ... of the
\* library's bits 0, 1, 2, ...
KernelBit(b) == <<0, 2, 3, 4, 8, 9, 10, 1, 11, 6, 7, 5>>[b + 1]

\* linux_inotify_event_mask__convert, by the kernel's bits 0 to 11
LibraryBit(b) == <<0, 7, 1, 2, 3, 11, 9, 10, 4, 5, 6, 8>>[b + 1]

Converted(flags) == {KernelBit(b) : b \in flags}

\* Bits that the library does not know are dropped.
Flags(mask) == {LibraryBit(b) : b \in mask \cap (0..11)}

QOverflow == 14

Ignored == 15

\* An event of a file in a watched directory carries its name.
Event == [wd : Nat, mask : SUBSET (0..15), named : BOOLEAN]

\* The event that says that others were dropped is of no watch: its wd is -1.
NoWatch == 0

Overflow == [wd |-> NoWatch, mask |-> {QOverflow}, named |-> FALSE]

WatchInit ==
    /\ watches = <<>>
    /\ asked = <<>> /\ nonblock = {}
    /\ queue = <<>> /\ happened = <<>> /\ delivered = <<>>
    /\ success = TRUE

\* The kernel's queue: an event like the last is merged with it, and the queue
\* ends with one that says it was full.
Queued(e) ==
    LET q == IF Len(queue) < QueueLimit THEN e ELSE Overflow
    IN IF queue # <<>> /\ queue[Len(queue)] = q
       THEN UNCHANGED <<queue, happened>>
       ELSE queue' = Append(queue, q) /\ happened' = Append(happened, q)

\* O_NONBLOCK is set on the watch descriptor's number, which as the number of a
\* file is another file's.
NonBlocking(wd) == nonblock' = nonblock \cup ({wd} \cap OpenFiles)

\* pal_notify_start_watch_file; watch descriptors count from 1.
StartWatch(flags) ==
    /\ Len(watches) < MaxWatch
    /\ watches' = Append(watches, [mask |-> Converted(flags), on |-> TRUE])
    /\ asked' = Append(asked, flags)
    /\ NonBlocking(Len(watches) + 1)
    /\ UNCHANGED <<queue, happened, delivered, success>>

\* The same, of a file that is watched: the kernel returns the descriptor it has
\* and replaces its mask.
StartAgain(wd, flags) ==
    /\ watches[wd].on
    /\ watches' = [watches EXCEPT ![wd].mask = Converted(flags)]
    /\ asked' = [asked EXCEPT ![wd] = @ \cup flags]
    /\ NonBlocking(wd)
    /\ UNCHANGED <<queue, happened, delivered, success>>

\* pal_notify_end_watch_file: what is queued stays, and the kernel adds that
\* there will be no more.
EndWatch(wd) ==
    /\ watches[wd].on
    /\ watches' = [watches EXCEPT ![wd].on = FALSE]
    /\ Queued([wd |-> wd, mask |-> {Ignored}, named |-> FALSE])
    /\ UNCHANGED <<asked, nonblock, delivered, success>>

\* Something happens to a watched file or directory, or to a file in it.
Happens(wd, b, named) ==
    /\ Len(happened) < MaxEvents
    /\ watches[wd].on /\ b \in watches[wd].mask
    /\ Queued([wd |-> wd, mask |-> {b}, named |-> named])
    /\ UNCHANGED <<watches, asked, nonblock, delivered, success>>

ReadNothing ==
    /\ queue = <<>>
    /\ success' = TRUE
    /\ UNCHANGED <<watches, asked, nonblock, queue, happened, delivered>>

ReadEvent_RestLost ==
    /\ queue # <<>> /\ ~Head(queue).named
    /\ queue' = <<>>
    /\ delivered' = Append(delivered, [fh |-> Head(queue).wd, flags |-> Flags(Head(queue).mask)])
    /\ success' = TRUE
    /\ UNCHANGED <<watches, asked, nonblock, happened>>

\* pal_read_notify_event
ReadEvent ==
    /\ queue # <<>> /\ ~Head(queue).named
    /\ queue' = Tail(queue)
    /\ delivered' = Append(delivered, [fh |-> Head(queue).wd, flags |-> Flags(Head(queue).mask)])
    /\ success' = TRUE
    /\ UNCHANGED <<watches, asked, nonblock, happened>>

\* The buffer has no room for a name: read() fails and leaves the event there.
ReadFails ==
    /\ queue # <<>> /\ Head(queue).named
    /\ success' = FALSE
    /\ UNCHANGED <<watches, asked, nonblock, queue, happened, delivered>>

WatchNext ==
    \/ \E flags \in Asked : StartWatch(flags)
    \/ \E wd \in 1..Len(watches) :
          \/ EndWatch(wd)
          \/ \E flags \in Asked : StartAgain(wd, flags)
          \/ \E b \in 0..11, named \in BOOLEAN : Happens(wd, b, named)
    \/ ReadNothing \/ ReadEvent \/ ReadFails

WatchSpec == WatchInit /\ [][WatchNext]_watchVars

-----------------------------------------------------------------------------
(* Properties.                                                             *)

\* The reads give the kernel's events one by one, in order, until one has a
\* name: that read fails, and so does every one after it.
EventsInOrder ==
    /\ Len(delivered) + Len(queue) = Len(happened)
    /\ \A i \in 1..Len(delivered) :
          ~happened[i].named /\ delivered[i].fh = happened[i].wd
    /\ ~success => queue # <<>> /\ Head(queue).named

\* A watch reports nothing but what it was asked for, in the client's own
\* flags, through both conversions; what its end and a full queue make valid
\* events of has no flag at all.
ReportsWhatWasAsked ==
    \A i \in 1..Len(delivered) :
        IF happened[i].mask \subseteq {QOverflow, Ignored} THEN delivered[i].flags = {}
        ELSE delivered[i].flags \subseteq asked[delivered[i].fh] /\ delivered[i].flags # {}
=============================================================================
