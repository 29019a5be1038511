------------------------------ MODULE FrameRing ------------------------------
(***************************************************************************)
(* One camera's ring of frames in shared memory (services/frames/broker/   *)
(* ring.py): the capture thread publishes frames, consumers in other       *)
(* processes copy them out under a sequence lock, guided by notices        *)
(* (worker.py _publish, analytics/frame_source.py BrokerSubscriber).       *)
(*                                                                         *)
(* Every access to shared memory is a step of its own.  A frame is copied  *)
(* in Parts, in any order; the content of a part is the number of the      *)
(* frame it was taken from, 0 for the zeroes of a new file.  Storing a     *)
(* control word is two steps, because struct.pack_into clears its          *)
(* destination before it writes the value: a reader may see 0 between two  *)
(* values.  The frame's timestamp in the control entry is written and      *)
(* never read, and is left out.                                            *)
(***************************************************************************)
EXTENDS Naturals

CONSTANTS
  Slots,      \* slots of the ring (capture.ring_slots)
  Parts,      \* the pieces a frame is copied in
  Readers,    \* consumers, each with a mapping of the ring
  MaxSeq      \* bound: frames published in a behaviour

ASSUME SlotsAssumption == Slots \in Nat /\ Slots >= 2
ASSUME BoundAssumption == MaxSeq \in Nat

VARIABLES
  entry,      \* [0..Slots-1 -> control word of the slot]
  data,       \* [0..Slots-1 -> [Parts -> frame the part belongs to]]
  seq,        \* the writer's _seq
  wpc,        \* where the writer is in publish()
  todo,       \* parts the writer has still to copy
  notices,    \* frames whose notice went out
  rpc,        \* [Readers -> where the reader is in read()]
  want,       \* [Readers -> expect_seq of the last read]
  before,     \* [Readers -> control word the last read began with]
  left,       \* [Readers -> parts the reader has still to copy]
  got         \* [Readers -> the reader's private copy]

writerVars == <<seq, wpc, todo, notices>>
readerVars == <<rpc, want, before, left, got>>
vars == <<entry, data, writerVars, readerVars>>

Frame(s) == [p \in Parts |-> s]
Slot(s)  == s % Slots

Odd(w)  == w % 2 = 1
\* The odd word a frame too early.
WritingPrevious(s) == (s - 1) * 2 - 1
\* The two control words of frame s: being written, and stable.
Writing(s) == s * 2 - 1
Stable(s)  == s * 2

-----------------------------------------------------------------------------
(* The writer: FrameRing.publish between two iterations of the worker.      *)

BeginPublish ==
  /\ wpc = "idle"
  /\ seq < MaxSeq
  /\ seq' = seq + 1
  /\ entry' = [entry EXCEPT ![Slot(seq')] = 0]
  /\ wpc' = "claim"
  /\ UNCHANGED <<data, todo, notices, readerVars>>

Claim ==
  /\ wpc = "claim"
  /\ entry' = [entry EXCEPT ![Slot(seq)] = Writing(seq)]
  /\ wpc' = "copy"
  /\ todo' = Parts
  /\ UNCHANGED <<data, seq, notices, readerVars>>

WritePart(p) ==
  /\ wpc = "copy"
  /\ p \in todo
  /\ data' = [data EXCEPT ![Slot(seq)][p] = seq]
  /\ todo' = todo \ {p}
  /\ UNCHANGED <<entry, seq, wpc, notices, readerVars>>

\* The notice on its way before the frame can be read.
BeginReleaseAnnounced ==
  /\ wpc = "copy"
  /\ todo = {}
  /\ entry' = [entry EXCEPT ![Slot(seq)] = 0]
  /\ wpc' = "release"
  /\ notices' = notices \cup {seq}
  /\ UNCHANGED <<data, seq, todo, readerVars>>

BeginRelease ==
  /\ wpc = "copy"
  /\ todo = {}
  /\ entry' = [entry EXCEPT ![Slot(seq)] = 0]
  /\ wpc' = "release"
  /\ UNCHANGED <<data, seq, todo, notices, readerVars>>

Release ==
  /\ wpc = "release"
  /\ entry' = [entry EXCEPT ![Slot(seq)] = Stable(seq)]
  /\ wpc' = "notice"
  /\ UNCHANGED <<data, seq, todo, notices, readerVars>>

\* The notice goes out last.  The motion analysis may raise and the message
\* bus may be away: then the frame is never announced.
Notify ==
  /\ wpc = "notice"
  /\ \/ notices' = notices \cup {seq}
     \/ UNCHANGED notices
  /\ wpc' = "idle"
  /\ UNCHANGED <<entry, data, seq, todo, readerVars>>

WriterStep ==
  \/ Claim \/ (\E p \in Parts : WritePart(p)) \/ BeginRelease \/ Release \/ Notify

-----------------------------------------------------------------------------
(* A reader: BrokerSubscriber._handle calls FrameReader.read for a notice.  *)

\* read() without the comparison of the sequence number with the notice's.
NotOdd(r, s, w) == ~Odd(w)

\* read()'s first test of the control word w, in a read of reader r.
Matches(r, s, w) == ~Odd(w) /\ w \div 2 = s

BeginRead(r, s) ==
  LET w == entry[Slot(s)] IN
  /\ rpc[r] # "copying"
  /\ s \in notices
  /\ s > want[r]
  /\ want' = [want EXCEPT ![r] = s]
  /\ before' = [before EXCEPT ![r] = w]
  /\ got' = [got EXCEPT ![r] = Frame(0)]
  /\ IF Matches(r, s, w)
       THEN /\ rpc' = [rpc EXCEPT ![r] = "copying"]
            /\ left' = [left EXCEPT ![r] = Parts]
       ELSE /\ rpc' = [rpc EXCEPT ![r] = "refused"]
            /\ UNCHANGED left
  /\ UNCHANGED <<entry, data, writerVars>>

ReadPart(r, p) ==
  /\ rpc[r] = "copying"
  /\ p \in left[r]
  /\ got' = [got EXCEPT ![r][p] = data[Slot(want[r])][p]]
  /\ left' = [left EXCEPT ![r] = @ \ {p}]
  /\ UNCHANGED <<entry, data, writerVars, rpc, want, before>>

\* A consumer that does not look at the word again.
EndReadUnchecked(r) ==
  /\ rpc[r] = "copying"
  /\ left[r] = {}
  /\ rpc' = [rpc EXCEPT ![r] = "frame"]
  /\ UNCHANGED <<entry, data, writerVars, want, before, left, got>>

EndRead(r) ==
  /\ rpc[r] = "copying"
  /\ left[r] = {}
  /\ rpc' = [rpc EXCEPT ![r] = IF entry[Slot(want[r])] = before[r]
                                 THEN "frame" ELSE "refused"]
  /\ UNCHANGED <<entry, data, writerVars, want, before, left, got>>

ReaderStep(r) ==
  \/ \E s \in notices : BeginRead(r, s)
  \/ \E p \in Parts : ReadPart(r, p)
  \/ EndRead(r)

-----------------------------------------------------------------------------
Init ==
  /\ entry = [i \in 0 .. Slots - 1 |-> 0]
  /\ data = [i \in 0 .. Slots - 1 |-> Frame(0)]
  /\ seq = 0
  /\ wpc = "idle"
  /\ todo = {}
  /\ notices = {}
  /\ rpc = [r \in Readers |-> "none"]
  /\ want = [r \in Readers |-> 0]
  /\ before = [r \in Readers |-> 0]
  /\ left = [r \in Readers |-> {}]
  /\ got = [r \in Readers |-> Frame(0)]

Next == BeginPublish \/ WriterStep \/ \E r \in Readers : ReaderStep(r)

Spec == Init /\ [][Next]_vars
\* The capture thread runs whatever it started; cameras and consumers owe nothing.
FairSpec == Spec /\ WF_vars(WriterStep)

-----------------------------------------------------------------------------
TypeOK ==
  /\ entry \in [0 .. Slots - 1 -> Nat]
  /\ data \in [0 .. Slots - 1 -> [Parts -> Nat]]
  /\ seq \in 0 .. MaxSeq
  /\ wpc \in {"idle", "claim", "copy", "release", "notice"}
  /\ wpc # "idle" => seq # 0
  /\ todo \in SUBSET Parts
  /\ notices \in SUBSET (1 .. MaxSeq)
  /\ rpc \in [Readers -> {"none", "copying", "frame", "refused"}]
  /\ want \in [Readers -> Nat]
  /\ before \in [Readers -> Nat]
  /\ left \in [Readers -> SUBSET Parts]
  /\ got \in [Readers -> [Parts -> Nat]]

\* A copy read() returns is the whole frame the notice named: never the front
\* of one frame and the back of another, never a younger frame in its slot.
NoTornRead == \A r \in Readers : rpc[r] = "frame" => got[r] = Frame(want[r])

\* read() refuses a noticed frame only if the writer has come round to its slot
\* again: a notice never announces a frame before it can be read.
RefusedOnlyWhenOverwritten ==
  \A r \in Readers : rpc[r] = "refused" => seq >= want[r] + Slots

\* What the ring keeps true between the steps of both sides.
\* A slot whose word says "stable" holds one whole frame, an old or current one.
StableSlots ==
  \A i \in 0 .. Slots - 1 : \A s \in 1 .. MaxSeq :
    entry[i] = Stable(s) => data[i] = Frame(s) /\ s <= seq
\* The frame in hand: its slot is marked, its copied parts are in place.
WriterInv ==
  /\ wpc = "claim" => entry[Slot(seq)] = 0
  /\ wpc = "copy" =>
       /\ entry[Slot(seq)] = Writing(seq)
       /\ \A p \in Parts \ todo : data[Slot(seq)][p] = seq
  /\ wpc = "release" => entry[Slot(seq)] = 0 /\ data[Slot(seq)] = Frame(seq)
  /\ wpc = "notice" => entry[Slot(seq)] = Stable(seq)
\* Only frames whose publish() has returned are announced.
NoticesInv ==
  /\ \A s \in notices : s <= seq
  /\ wpc # "idle" => seq \notin notices
\* An announced frame stays readable until its slot's turn comes again.
Readable == \A s \in notices : seq < s + Slots => entry[Slot(s)] = Stable(s)
\* While its slot's word has not moved, a reader's copy is good so far.
ReadersInv ==
  \A r \in Readers : rpc[r] = "copying" =>
    /\ want[r] \in notices
    /\ before[r] = Stable(want[r])
    /\ entry[Slot(want[r])] = before[r] =>
         \A p \in Parts \ left[r] : got[r][p] = want[r]
SafetyInv ==
  /\ TypeOK
  /\ StableSlots
  /\ WriterInv
  /\ NoticesInv
  /\ Readable
  /\ ReadersInv
  /\ NoTornRead
  /\ RefusedOnlyWhenOverwritten

\* A consumer, however slow, never holds the capture thread up: what publish()
\* starts it finishes.
WriterNeverBlocked == (wpc # "idle") ~> (wpc = "idle")

\* The ring is a lossy, ordered feed of whole frames (FrameFeed).
AnswerOf(r) ==
  [kind  |-> IF rpc[r] = "copying" THEN "pending" ELSE rpc[r],
   frame |-> IF rpc[r] = "frame" THEN got[r] ELSE Frame(0)]
Feed == INSTANCE FrameFeed WITH
  Depth <- Slots, latest <- seq, announced <- notices, asked <- want,
  answer <- [r \in Readers |-> AnswerOf(r)]
ImplementsFeed == Feed!FeedSpec
=============================================================================
