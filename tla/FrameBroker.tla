----------------------------- MODULE FrameBroker -----------------------------
(***************************************************************************)
(* The life of one camera in the frame broker (services/frames/broker:     *)
(* engine.py, worker.py, ring.py) and in one consumer (services/analytics/ *)
(* analytics/frame_source.py): workers that are added and removed, capture *)
(* threads that may outlive the five seconds stop() waits for them, rings  *)
(* that are made, rebuilt and unlinked under one path, notices that are    *)
(* late or lost, and the consumer's mapping, keyed by the ring's epoch.    *)
(*                                                                         *)
(* A frame is [epoch, seq]: what the ring of that epoch numbered seq.  A   *)
(* frame is written and copied in one step here; FrameRing is about the    *)
(* inside of that step.  An inode has the number of the epoch that created *)
(* it.  Epochs are clock readings in nanoseconds and taken to be distinct. *)
(***************************************************************************)
EXTENDS Naturals, Sequences

CONSTANTS
  Slots,       \* slots of a ring
  OneCaller,   \* TRUE: adds and removals come one after the other
  MaxWorkers,  \* bound: times the camera is added
  MaxRings,    \* bound: rings made
  MaxSeq,      \* bound: frames published in one ring
  MaxQueue,    \* bound: notices between broker and consumer
  MaxCrashes   \* bound: times the broker dies

ASSUME SlotsAssumption == Slots \in Nat /\ Slots >= 2
ASSUME CallerAssumption == OneCaller \in BOOLEAN
ASSUME BoundsAssumption ==
  {MaxWorkers, MaxRings, MaxSeq, MaxQueue, MaxCrashes} \subseteq Nat

Workers == 1 .. MaxWorkers
Epochs  == 1 .. MaxRings
Frames  == [epoch : Epochs, seq : 1 .. MaxSeq]

NoFrame  == [epoch |-> 0, seq |-> 0]
NoRing   == [epoch |-> 0, inode |-> 0, seq |-> 0]
NoReader == [epoch |-> 0, inode |-> 0]

VARIABLES
  file,      \* the inode under the camera's path, 0 when there is none
  data,      \* [inode -> [slot -> frame in it]]
  made,      \* epochs given out
  reg,       \* the worker in engine._workers, 0 when there is none
  closing,   \* workers that were popped and wait in stop()
  thread,    \* [worker -> where its thread is in _run]
  ring,      \* [worker -> its _ring]
  note,      \* [worker -> the frame its thread is about to announce]
  queue,     \* notices under way to the consumer
  reader,    \* the consumer's _readers entry
  hand,      \* the notice in _handle, and how far it is
  leftover,  \* the file a dead broker left behind
  crashes

brokerVars == <<made, reg, closing, thread, ring, note, leftover, crashes>>
fileVars == <<file, data>>
consumerVars == <<reader, hand>>
vars == <<fileVars, brokerVars, queue, consumerVars>>

Slot(f) == f.seq % Slots
\* stop() was called: the worker's loop ends where it next looks.
Stopped(w) == w # reg
At(w, pc) == thread' = [thread EXCEPT ![w] = pc]

-----------------------------------------------------------------------------
(* Requests.                                                                *)

\* An unknown camera: upsert_camera finds nothing to remove and adds it.
Add(w) ==
  /\ reg = 0
  /\ OneCaller => closing = {}
  /\ thread[w] = "unborn"
  /\ \A v \in 1 .. w - 1 : thread[v] # "unborn"
  /\ reg' = w
  /\ At(w, "loop")
  /\ UNCHANGED <<fileVars, made, closing, ring, note, leftover, crashes, queue, consumerVars>>

\* The worker is popped and told to stop; stop() then waits for its thread.
Remove ==
  /\ reg # 0
  /\ closing' = closing \cup {reg}
  /\ reg' = 0
  /\ UNCHANGED <<fileVars, made, thread, ring, note, leftover, crashes, queue, consumerVars>>

\* A close() that does not unlink.
CloseKeepingFile(w) ==
  /\ w \in closing
  /\ thread[w] # "make"
  /\ closing' = closing \ {w}
  /\ ring' = [ring EXCEPT ![w] = NoRing]
  /\ UNCHANGED <<fileVars, made, reg, thread, note, leftover, crashes, queue, consumerVars>>

\* The thread has ended or five seconds are over: the ring is closed, and its
\* path unlinked whichever file is there.  _ensure_ring holds the lock.
Close(w) ==
  /\ w \in closing
  /\ thread[w] # "make"
  /\ closing' = closing \ {w}
  /\ ring' = [ring EXCEPT ![w] = NoRing]
  /\ file' = IF ring[w] = NoRing THEN file ELSE 0
  /\ UNCHANGED <<data, made, reg, thread, note, leftover, crashes, queue, consumerVars>>

-----------------------------------------------------------------------------
(* A capture thread.                                                        *)

\* A loop that only ends when the stream does.
LoopUnchecked(w) ==
  /\ thread[w] = "loop"
  /\ At(w, "grab")
  /\ UNCHANGED <<fileVars, made, reg, closing, ring, note, leftover, crashes, queue, consumerVars>>

\* Between two frames, or between two attempts to connect.
Loop(w) ==
  /\ thread[w] = "loop"
  /\ At(w, IF Stopped(w) THEN "ended" ELSE "grab")
  /\ UNCHANGED <<fileVars, made, reg, closing, ring, note, leftover, crashes, queue, consumerVars>>

\* grab() and open() return within their timeouts, with a frame or without one.
GrabFails(w) ==
  /\ thread[w] = "grab"
  /\ At(w, "loop")
  /\ UNCHANGED <<fileVars, made, reg, closing, ring, note, leftover, crashes, queue, consumerVars>>

Grab(w) ==
  /\ thread[w] = "grab"
  /\ At(w, "frame")
  /\ UNCHANGED <<fileVars, made, reg, closing, ring, note, leftover, crashes, queue, consumerVars>>

\* The frame fits the ring there is.
TakeRing(w) ==
  /\ thread[w] = "frame"
  /\ ring[w] # NoRing
  /\ At(w, "publish")
  /\ UNCHANGED <<fileVars, made, reg, closing, ring, note, leftover, crashes, queue, consumerVars>>

\* The first frame, or one of another size: the old ring is closed first.
DropRing(w) ==
  /\ thread[w] = "frame"
  /\ made < MaxRings
  /\ ring' = [ring EXCEPT ![w] = NoRing]
  /\ file' = IF ring[w] = NoRing THEN file ELSE 0
  /\ At(w, "make")
  /\ UNCHANGED <<data, made, reg, closing, note, leftover, crashes, queue, consumerVars>>

\* FrameRing(): opening the path creates a file, or empties the one there is,
\* under the mappings that consumers and other workers have of it.
MakeRing(w) ==
  /\ thread[w] = "make"
  /\ made < MaxRings
  /\ made' = made + 1
  /\ file' = IF file = 0 THEN made' ELSE file
  /\ data' = [data EXCEPT ![file'] = [i \in 0 .. Slots - 1 |-> NoFrame]]
  /\ ring' = [ring EXCEPT ![w] = [epoch |-> made', inode |-> file', seq |-> 0]]
  /\ At(w, "publish")
  /\ UNCHANGED <<reg, closing, note, leftover, crashes, queue, consumerVars>>

Publish(w) ==
  /\ thread[w] = "publish"
  /\ ring[w] # NoRing
  /\ ring[w].seq < MaxSeq
  /\ LET f == [epoch |-> ring[w].epoch, seq |-> ring[w].seq + 1] IN
       /\ ring' = [ring EXCEPT ![w].seq = f.seq]
       /\ data' = [data EXCEPT ![ring[w].inode][Slot(f)] = f]
       /\ note' = [note EXCEPT ![w] = f]
  /\ At(w, "announce")
  /\ UNCHANGED <<file, made, reg, closing, leftover, crashes, queue, consumerVars>>

\* stop() closed the ring under the thread: publish() raises, the loop goes on.
PublishFails(w) ==
  /\ thread[w] = "publish"
  /\ ring[w] = NoRing
  /\ At(w, "loop")
  /\ UNCHANGED <<fileVars, made, reg, closing, ring, note, leftover, crashes, queue, consumerVars>>

\* Fire and forget: the notice is on its way, or lost.
Announce(w) ==
  /\ thread[w] = "announce"
  /\ \/ Len(queue) < MaxQueue /\ queue' = Append(queue, note[w])
     \/ UNCHANGED queue
  /\ note' = [note EXCEPT ![w] = NoFrame]
  /\ At(w, "loop")
  /\ UNCHANGED <<fileVars, made, reg, closing, ring, leftover, crashes, consumerVars>>

ThreadStep(w) ==
  \/ Loop(w) \/ GrabFails(w) \/ Grab(w)
  \/ TakeRing(w) \/ DropRing(w) \/ MakeRing(w)
  \/ Publish(w) \/ PublishFails(w) \/ Announce(w)

\* The process dies.  Its files stay: they are on a volume of their own.
Crash ==
  /\ crashes < MaxCrashes
  /\ crashes' = crashes + 1
  /\ reg' = 0
  /\ closing' = {}
  /\ thread' = [w \in Workers |-> IF thread[w] = "unborn" THEN "unborn" ELSE "ended"]
  /\ ring' = [w \in Workers |-> NoRing]
  /\ note' = [w \in Workers |-> NoFrame]
  /\ leftover' = file
  /\ UNCHANGED <<fileVars, made, queue, consumerVars>>

-----------------------------------------------------------------------------
(* The consumer: one subscriber thread, and requests that change its set.   *)

Idle == [pc |-> "idle", note |-> NoFrame, inode |-> 0]

\* unwant(): the mapping is dropped, and closed under the subscriber thread if
\* it has it.  Until the camera is wanted again its notices are ignored.
Unwant ==
  /\ reader # NoReader
  /\ reader' = NoReader
  /\ UNCHANGED <<fileVars, brokerVars, queue, hand>>

\* A mapping that is good as long as the size of the frames does not change.
ReceiveByGeometry ==
  /\ hand = Idle
  /\ queue # <<>>
  /\ queue' = Tail(queue)
  /\ \/ UNCHANGED hand
     \/ hand' = [pc |-> IF reader # NoReader THEN "read" ELSE "open",
                 note |-> Head(queue), inode |-> reader.inode]
  /\ UNCHANGED <<fileVars, brokerVars, reader>>

\* _handle and the first half of _reader_for.  The notice of a camera nobody
\* wants, or of a frame without motion, is dropped before the mapping is looked at.
Receive ==
  /\ hand = Idle
  /\ queue # <<>>
  /\ queue' = Tail(queue)
  /\ \/ UNCHANGED hand
     \/ hand' = [pc |-> IF reader.epoch = Head(queue).epoch THEN "read" ELSE "open",
                 note |-> Head(queue), inode |-> reader.inode]
  /\ UNCHANGED <<fileVars, brokerVars, reader>>

\* FrameReader(): the file of this moment is mapped, whichever ring it is.
Open ==
  /\ hand.pc = "open"
  /\ IF file = 0
       THEN hand' = Idle
       ELSE hand' = [hand EXCEPT !.pc = "keep", !.inode = file]
  /\ UNCHANGED <<fileVars, brokerVars, queue, reader>>

\* The second half of _reader_for.
Keep ==
  /\ hand.pc = "keep"
  /\ reader' = [epoch |-> hand.note.epoch, inode |-> hand.inode]
  /\ hand' = [hand EXCEPT !.pc = "read"]
  /\ UNCHANGED <<fileVars, brokerVars, queue>>

\* A read() that does not compare numbers.
AnswerAny(n) == IF reader # NoReader THEN data[hand.inode][Slot(n)] ELSE NoFrame

\* What read() returns for a notice: the frame in its slot if that has the
\* number of the notice, nothing if not, or if the mapping was closed.
Answer(n) ==
  LET f == data[hand.inode][Slot(n)] IN
  IF reader # NoReader /\ f.seq = n.seq THEN f ELSE NoFrame

\* Answer(hand.note) is delivered, or the notice dropped if it is NoFrame.
Read ==
  /\ hand.pc = "read"
  /\ hand' = Idle
  /\ UNCHANGED <<fileVars, brokerVars, queue, reader>>

\* The subscription breaks: pub/sub keeps nothing.
Resubscribe ==
  /\ queue # <<>>
  /\ queue' = <<>>
  /\ UNCHANGED <<fileVars, brokerVars, consumerVars>>

-----------------------------------------------------------------------------
Init ==
  /\ file = 0
  /\ data = [n \in Epochs |-> [i \in 0 .. Slots - 1 |-> NoFrame]]
  /\ made = 0
  /\ reg = 0
  /\ closing = {}
  /\ thread = [w \in Workers |-> "unborn"]
  /\ ring = [w \in Workers |-> NoRing]
  /\ note = [w \in Workers |-> NoFrame]
  /\ queue = <<>>
  /\ reader = NoReader
  /\ hand = Idle
  /\ leftover = 0
  /\ crashes = 0

Next ==
  \/ Remove \/ Crash
  \/ \E w \in Workers : Add(w) \/ Close(w) \/ ThreadStep(w)
  \/ Unwant \/ Receive \/ Open \/ Keep \/ Read
  \/ Resubscribe

Spec == Init /\ [][Next]_vars

-----------------------------------------------------------------------------
TypeOK ==
  /\ file \in {0} \cup Epochs
  /\ data \in [Epochs -> [0 .. Slots - 1 -> Frames \cup {NoFrame}]]
  /\ made \in 0 .. MaxRings
  /\ reg \in {0} \cup Workers
  /\ closing \in SUBSET (Workers \ {reg})
  /\ thread \in [Workers -> {"unborn", "loop", "grab", "frame", "make",
                             "publish", "announce", "ended"}]
  /\ ring \in [Workers -> [epoch : Epochs, inode : Epochs, seq : 0 .. MaxSeq] \cup {NoRing}]
  /\ \A w \in closing \cup {reg} : w # 0 => thread[w] # "unborn"
  /\ note \in [Workers -> Frames \cup {NoFrame}]
  /\ \A w \in Workers : thread[w] = "announce" <=> note[w] # NoFrame
  /\ queue \in Seq(Frames)
  /\ Len(queue) <= MaxQueue
  /\ reader \in [epoch : Epochs, inode : Epochs] \cup {NoReader}
  /\ hand \in [pc : {"idle", "open", "keep", "read"},
               note : Frames \cup {NoFrame}, inode : {0} \cup Epochs]
  /\ hand.pc = "idle" <=> hand.note = NoFrame
  /\ hand.pc \in {"keep", "read"} => hand.inode # 0
  /\ leftover \in {0} \cup Epochs
  /\ crashes \in 0 .. MaxCrashes

\* As long as requests come one after the other, the file under the path is the
\* file the camera's worker writes, whatever threads are left of its
\* predecessors: a consumer that maps the path maps the ring.
LiveRing == reg # 0 /\ ring[reg] # NoRing => file = ring[reg].inode

\* Why: the old worker is closed before the next is added, and a thread that
\* outlives its stop() has no ring to close, or is past the point of closing it.
Handover ==
  /\ OneCaller => reg = 0 \/ closing = {}
  /\ \A w \in Workers : thread[w] = "make" => ring[w] = NoRing
  /\ \A w \in Workers \ (closing \cup {reg}) :
       thread[w] \in {"unborn", "grab", "frame"} => ring[w] = NoRing

\* A file under the path is the ring of some worker of the process, or was
\* left behind when the process died: close() misses none.
FilesOwned ==
  file # 0 => \/ file = leftover
              \/ \E w \in Workers : ring[w] # NoRing /\ ring[w].inode = file

\* Nobody but the camera's worker has a ring open.
Alone == \A w \in Workers \ {reg} : ring[w] = NoRing
\* The frame is of the camera's ring, and its slot was not taken again.
Current(f) ==
  /\ Alone
  /\ reg # 0 /\ ring[reg].epoch = f.epoch
  /\ ring[reg].seq < f.seq + Slots

\* While no thread of a removed worker has a ring open, restarts, rebuilt
\* rings and removed cameras never leave a consumer with a mapping that refuses
\* frames which are there: a noticed frame is refused only if its ring is gone,
\* its slot taken again, or the consumer's own mapping closed by unwant().
RefusedOnlyWhenGone ==
  Current(hand.note) =>
    /\ hand.pc = "open" => file # 0
    /\ hand.pc = "read" => Answer(hand.note) # NoFrame \/ reader = NoReader

\* A frame that is delivered is the frame of its notice, for every notice of
\* the ring in use.  (A notice that outlives its ring may be answered with the
\* frame of the same number from the next.)
DeliveredAsNoticed ==
  /\ hand.pc = "read"
  /\ Answer(hand.note) # NoFrame
  /\ Alone /\ reg # 0 /\ ring[reg].epoch = hand.note.epoch
  => Answer(hand.note) = hand.note

\* Why: what a notice, a mapping and the slots have to do with each other.
\* Notices that are written, under way or being handled.
Noticed ==
  {note[w] : w \in Workers} \cup {queue[i] : i \in 1 .. Len(queue)} \cup {hand.note}
\* No two rings share an epoch; nothing speaks of frames or rings to come.
EpochsInv ==
  /\ \A w \in Workers : ring[w].epoch <= made
  /\ \A v, w \in Workers :
       ring[v] # NoRing /\ ring[v].epoch = ring[w].epoch => v = w
  /\ reader.epoch <= made
  /\ \A f \in Noticed :
       /\ f.epoch <= made
       /\ \A w \in Workers :
            ring[w] # NoRing /\ ring[w].epoch = f.epoch => f.seq <= ring[w].seq
\* A mapping with the epoch of the camera's ring is a mapping of that ring.
MappingInv ==
  /\ hand.pc = "read" /\ reader # NoReader =>
       reader.epoch = hand.note.epoch /\ reader.inode = hand.inode
  /\ reg # 0 /\ ring[reg] # NoRing =>
       /\ reader.epoch = ring[reg].epoch => reader.inode = ring[reg].inode
       /\ hand.pc = "keep" /\ hand.note.epoch = ring[reg].epoch =>
            hand.inode = ring[reg].inode
\* A ring nobody else writes holds its own frames, the last Slots of them.
SlotsInv ==
  reg # 0 /\ ring[reg] # NoRing /\ Alone =>
    /\ \A i \in 0 .. Slots - 1 :
         \/ data[ring[reg].inode][i] = NoFrame
         \/ data[ring[reg].inode][i].epoch = ring[reg].epoch
    /\ \A f \in Frames :
         /\ f.epoch = ring[reg].epoch
         /\ f.seq <= ring[reg].seq
         /\ ring[reg].seq < f.seq + Slots
         => data[ring[reg].inode][Slot(f)] = f
DeliveryInv == EpochsInv /\ MappingInv /\ SlotsInv

\* Once a camera is removed and its threads have ended, its ring is freed
\* ("Stop decoding slug and free its ring", frames_client.remove_camera).
RingFreed ==
  /\ reg = 0
  /\ closing = {}
  /\ \A w \in Workers : thread[w] \in {"unborn", "ended"}
  => file = 0 \/ file = leftover
=============================================================================
