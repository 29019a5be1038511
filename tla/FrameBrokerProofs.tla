-------------------------- MODULE FrameBrokerProofs --------------------------
(* Proofs about FrameBroker, for every number of slots and all bounds: types, *)
(* that a camera's worker writes the file consumers find, and that no file is *)
(* left without an owner.                                                     *)
EXTENDS FrameBroker, Integers, TLAPS

-----------------------------------------------------------------------------
(* Type correctness.                                                        *)

\* The bounds are natural numbers, and no worker, epoch or frame is nothing.
LEMMA Bounds ==
  /\ MaxWorkers \in Nat /\ MaxRings \in Nat /\ MaxSeq \in Nat
  /\ MaxQueue \in Nat /\ MaxCrashes \in Nat
  /\ 0 \notin Workers /\ 0 \notin Epochs
  /\ NoFrame \notin Frames
  /\ NoRing.epoch = 0 /\ NoReader.epoch = 0
BY BoundsAssumption DEF Workers, Epochs, Frames, NoFrame, NoRing, NoReader

\* A frame's slot is one of the ring's.
LEMMA SlotType == \A f \in Frames : Slot(f) \in 0 .. Slots - 1
BY SlotsAssumption, Bounds DEF Frames, Slot

\* Initially there are no workers, files or notices.
LEMMA TypeInit == Init => TypeOK
<1> SUFFICES ASSUME Init PROVE TypeOK
  OBVIOUS
<1>1. queue \in Seq(Frames) /\ Len(queue) <= MaxQueue
  BY Bounds DEF Init
<1>. QED
  BY <1>1, Bounds DEF Init, TypeOK, Idle

\* A notice joins the queue, or is lost; the thread has nothing more to say.
LEMMA AnnounceType == \A w \in Workers : TypeOK /\ Announce(w) => TypeOK'
<1> SUFFICES ASSUME NEW w \in Workers, TypeOK, Announce(w) PROVE TypeOK'
  OBVIOUS
<1>1. note[w] \in Frames
  BY DEF TypeOK, Announce
<1>2. queue' \in Seq(Frames) /\ Len(queue') <= MaxQueue
  <2>1. CASE Len(queue) < MaxQueue /\ queue' = Append(queue, note[w])
    <3>1. queue \in Seq(Frames) /\ Len(queue) \in Nat
      BY DEF TypeOK
    <3>2. queue' \in Seq(Frames) /\ Len(queue') = Len(queue) + 1
      BY <1>1, <2>1, <3>1
    <3>. QED BY <2>1, <3>1, <3>2, Bounds
  <2>2. CASE UNCHANGED queue
    BY <2>2 DEF TypeOK
  <2>. QED BY <2>1, <2>2 DEF Announce
<1>. QED
  BY <1>2, Bounds DEF TypeOK, Announce, At, fileVars, consumerVars

\* A published frame is numbered within the bound and goes to its own slot.
LEMMA PublishType == \A w \in Workers : TypeOK /\ Publish(w) => TypeOK'
<1> SUFFICES ASSUME NEW w \in Workers, TypeOK, Publish(w) PROVE TypeOK'
  OBVIOUS
<1> DEFINE f == [epoch |-> ring[w].epoch, seq |-> ring[w].seq + 1]
<1>1. ring[w] \in [epoch : Epochs, inode : Epochs, seq : 0 .. MaxSeq]
  BY DEF TypeOK, Publish
<1>2. f \in Frames /\ f # NoFrame /\ f.seq \in 0 .. MaxSeq
  BY <1>1, Bounds DEF Publish, Frames, NoFrame, Epochs
<1>3. ring' = [ring EXCEPT ![w].seq = f.seq] /\ note' = [note EXCEPT ![w] = f]
      /\ data' = [data EXCEPT ![ring[w].inode][Slot(f)] = f]
  BY DEF Publish
<1>4. ring' \in [Workers -> [epoch : Epochs, inode : Epochs, seq : 0 .. MaxSeq] \cup {NoRing}]
  BY <1>1, <1>2, <1>3 DEF TypeOK
<1>5. data' \in [Epochs -> [0 .. Slots - 1 -> Frames \cup {NoFrame}]]
  BY <1>1, <1>2, <1>3, SlotType DEF TypeOK
<1>6. note' \in [Workers -> Frames \cup {NoFrame}]
  BY <1>2, <1>3 DEF TypeOK
<1>7. thread' = [thread EXCEPT ![w] = "announce"]
  BY DEF Publish, At
<1>8. \A v \in Workers : thread'[v] = "announce" <=> note'[v] # NoFrame
  BY <1>2, <1>3, <1>7 DEF TypeOK
<1>. HIDE DEF f
<1>. QED
  BY <1>4, <1>5, <1>6, <1>7, <1>8 DEF TypeOK, Publish, consumerVars

\* A new ring has an epoch of its own and the file under the path.
LEMMA MakeRingType == \A w \in Workers : TypeOK /\ MakeRing(w) => TypeOK'
<1> SUFFICES ASSUME NEW w \in Workers, TypeOK, MakeRing(w) PROVE TypeOK'
  OBVIOUS
<1>1. made' \in Epochs /\ made' \in 0 .. MaxRings
  BY Bounds DEF TypeOK, MakeRing, Epochs
<1>2. file' \in Epochs
  BY <1>1 DEF TypeOK, MakeRing
<1>3. [epoch |-> made', inode |-> file', seq |-> 0] \in [epoch : Epochs, inode : Epochs, seq : 0 .. MaxSeq]
  BY <1>1, <1>2, Bounds
<1>4. ring' \in [Workers -> [epoch : Epochs, inode : Epochs, seq : 0 .. MaxSeq] \cup {NoRing}]
  BY <1>3 DEF TypeOK, MakeRing
<1>5. data' \in [Epochs -> [0 .. Slots - 1 -> Frames \cup {NoFrame}]]
  BY <1>2 DEF TypeOK, MakeRing
<1>6. thread' = [thread EXCEPT ![w] = "publish"] /\ thread[w] = "make"
  BY DEF MakeRing, At
<1>. QED
  BY <1>1, <1>2, <1>4, <1>5, <1>6 DEF TypeOK, MakeRing, consumerVars

\* The subscriber takes a notice: it is a frame's, and a mapping that is used
\* is there.
LEMMA ReceiveType == TypeOK /\ Receive => TypeOK'
<1> SUFFICES ASSUME TypeOK, Receive PROVE TypeOK'
  OBVIOUS
<1>1. Head(queue) \in Frames /\ queue' \in Seq(Frames) /\ Len(queue') <= MaxQueue
  BY Bounds DEF TypeOK, Receive
<1>2. Head(queue).epoch \in Epochs /\ Head(queue) # NoFrame
  BY <1>1, Bounds DEF Frames
<1>3. reader.epoch = Head(queue).epoch => reader.inode \in Epochs /\ reader.inode # 0
  BY <1>2, Bounds DEF TypeOK, NoReader
<1>4. reader.inode \in {0} \cup Epochs
  BY DEF TypeOK, NoReader
<1>5. /\ hand' \in [pc : {"idle", "open", "keep", "read"},
                    note : Frames \cup {NoFrame}, inode : {0} \cup Epochs]
      /\ hand'.pc = "idle" <=> hand'.note = NoFrame
      /\ hand'.pc \in {"keep", "read"} => hand'.inode # 0
  BY <1>1, <1>2, <1>3, <1>4 DEF TypeOK, Receive, Idle
<1>. QED
  BY <1>1, <1>5 DEF TypeOK, Receive, fileVars, brokerVars

\* Every step keeps the types.
LEMMA TypeStep == TypeOK /\ [Next]_vars => TypeOK'
<1> SUFFICES ASSUME TypeOK, [Next]_vars PROVE TypeOK'
  OBVIOUS
<1> USE Bounds DEF fileVars, consumerVars
<1>1. ASSUME NEW w \in Workers, Add(w) PROVE TypeOK'
  BY <1>1 DEF TypeOK, Add, At
<1>2. CASE Remove
  BY <1>2 DEF TypeOK, Remove
<1>3. ASSUME NEW w \in Workers, Close(w) PROVE TypeOK'
  BY <1>3 DEF TypeOK, Close
<1>4. CASE Crash
  BY <1>4 DEF TypeOK, Crash
<1>5. ASSUME NEW w \in Workers, Loop(w) PROVE TypeOK'
  BY <1>5 DEF TypeOK, Loop, At
<1>6. ASSUME NEW w \in Workers, GrabFails(w) \/ Grab(w) PROVE TypeOK'
  BY <1>6 DEF TypeOK, GrabFails, Grab, At
<1>7. ASSUME NEW w \in Workers, TakeRing(w) \/ PublishFails(w) PROVE TypeOK'
  <2>1. CASE TakeRing(w)
    BY <2>1 DEF TypeOK, TakeRing, At
  <2>2. CASE PublishFails(w)
    BY <2>2 DEF TypeOK, PublishFails, At
  <2>. QED
    BY <1>7, <2>1, <2>2
<1>8. ASSUME NEW w \in Workers, DropRing(w) PROVE TypeOK'
  BY <1>8 DEF TypeOK, DropRing, At
<1>9. CASE Unwant
  BY <1>9 DEF TypeOK, Unwant, brokerVars
<1>10. CASE Open
  <2>1. CASE file = 0
    BY <1>10, <2>1 DEF TypeOK, Open, Idle, brokerVars
  <2>2. CASE file # 0
    <3>1. hand' = [pc |-> "keep", note |-> hand.note, inode |-> file]
      <4>1. hand' = [hand EXCEPT !.pc = "keep", !.inode = file]
        BY <1>10, <2>2 DEF Open
      <4>2. hand \in [pc : {"idle", "open", "keep", "read"},
                      note : Frames \cup {NoFrame}, inode : {0} \cup Epochs]
        BY DEF TypeOK
      <4>. QED BY <4>1, <4>2
    <3>2. hand.note \in Frames /\ file \in Epochs
      BY <1>10, <2>2 DEF TypeOK, Open
    <3>. QED BY <1>10, <3>1, <3>2 DEF TypeOK, Open, brokerVars
  <2>. QED BY <2>1, <2>2
<1>11. CASE Keep
  <2>1. hand.note \in Frames /\ hand.inode \in Epochs
    BY <1>11 DEF TypeOK, Keep
  <2>. QED BY <1>11, <2>1 DEF TypeOK, Keep, brokerVars, Frames
<1>12. CASE Read
  BY <1>12 DEF TypeOK, Read, Idle, brokerVars
<1>13. CASE Resubscribe
  BY <1>13 DEF TypeOK, Resubscribe, brokerVars
<1>14. CASE UNCHANGED vars
  BY <1>14 DEF TypeOK, vars, brokerVars
<1>. QED
  BY <1>1, <1>2, <1>3, <1>4, <1>5, <1>6, <1>7, <1>8, <1>9, <1>10, <1>11, <1>12,
     <1>13, <1>14, AnnounceType, PublishType, MakeRingType, ReceiveType
  DEF Next, ThreadStep

\* Type correctness.
THEOREM TypeCorrect == Spec => []TypeOK
<1>. QED
  BY TypeInit, TypeStep, PTL DEF Spec

-----------------------------------------------------------------------------
(* The file under the path.                                                 *)

\* A new ring takes the file there is; if the camera's worker has a ring, that
\* is its file.
LEMMA MakeRingLive ==
  \A w \in Workers : TypeOK /\ LiveRing /\ MakeRing(w) => LiveRing'
<1> SUFFICES ASSUME NEW w \in Workers, TypeOK, LiveRing, MakeRing(w),
                    reg' # 0, ring'[reg'] # NoRing
             PROVE file' = ring'[reg'].inode
  BY DEF LiveRing
<1>1. reg' = reg /\ reg \in Workers
  BY DEF MakeRing, TypeOK
<1>2. CASE w = reg
  BY <1>1, <1>2 DEF MakeRing, TypeOK
<1>3. CASE w # reg
  <2>1. ring'[reg] = ring[reg]
    BY <1>1, <1>3 DEF MakeRing, TypeOK
  <2>2. file = ring[reg].inode /\ ring[reg].inode \in Epochs
    BY <1>1, <2>1 DEF LiveRing, TypeOK
  <2>. QED BY <1>1, <2>1, <2>2, Bounds DEF MakeRing
<1>. QED BY <1>2, <1>3

\* With one caller, what Handover says of the threads survives every step.
LEMMA HandoverStep == TypeOK /\ Handover /\ [Next]_vars => Handover'
<1> SUFFICES ASSUME TypeOK, Handover, [Next]_vars PROVE Handover'
  OBVIOUS
<1> USE Bounds DEF TypeOK, Handover, brokerVars
<1>1. ASSUME NEW w \in Workers, Add(w) PROVE Handover'
  BY <1>1 DEF Add, At
<1>2. CASE Remove
  BY <1>2 DEF Remove
<1>3. ASSUME NEW w \in Workers, Close(w) PROVE Handover'
  BY <1>3 DEF Close
<1>4. CASE Crash
  BY <1>4 DEF Crash
<1>5. ASSUME NEW w \in Workers, Loop(w) PROVE Handover'
  BY <1>5 DEF Loop, At, Stopped
<1>6. ASSUME NEW w \in Workers, GrabFails(w) \/ Grab(w) PROVE Handover'
  BY <1>6 DEF GrabFails, Grab, At
<1>7. ASSUME NEW w \in Workers, TakeRing(w) \/ PublishFails(w) PROVE Handover'
  BY <1>7 DEF TakeRing, PublishFails, At
<1>8. ASSUME NEW w \in Workers, DropRing(w) PROVE Handover'
  BY <1>8 DEF DropRing, At
<1>9. ASSUME NEW w \in Workers, MakeRing(w) PROVE Handover'
  BY <1>9 DEF MakeRing, At
<1>10. ASSUME NEW w \in Workers, Publish(w) PROVE Handover'
  BY <1>10 DEF Publish, At
<1>11. ASSUME NEW w \in Workers, Announce(w) PROVE Handover'
  BY <1>11 DEF Announce, At
<1>12. CASE Unwant \/ Receive \/ Open \/ Keep \/ Read \/ Resubscribe
  BY <1>12 DEF Unwant, Receive, Open, Keep, Read, Resubscribe
<1>13. CASE UNCHANGED vars
  BY <1>13 DEF vars
<1>. QED
  BY <1>1, <1>2, <1>3, <1>4, <1>5, <1>6, <1>7, <1>8, <1>9, <1>10, <1>11, <1>12,
     <1>13 DEF Next, ThreadStep

\* With one caller, nobody unlinks the file of the camera's worker.
LEMMA LiveStep ==
  OneCaller /\ TypeOK /\ Handover /\ LiveRing /\ [Next]_vars => LiveRing'
<1> SUFFICES ASSUME OneCaller, TypeOK, Handover, LiveRing, [Next]_vars
             PROVE LiveRing'
  OBVIOUS
<1> USE Bounds DEF TypeOK, Handover, LiveRing, brokerVars, fileVars
<1>1. ASSUME NEW w \in Workers, Add(w) PROVE LiveRing'
  BY <1>1 DEF Add
<1>2. CASE Remove
  BY <1>2 DEF Remove
<1>3. ASSUME NEW w \in Workers, Close(w) PROVE LiveRing'
  <2>1. reg' = 0
    BY <1>3 DEF Close
  <2>. QED BY <2>1
<1>4. CASE Crash
  BY <1>4 DEF Crash
<1>5. ASSUME NEW w \in Workers, Loop(w) \/ GrabFails(w) \/ Grab(w) PROVE LiveRing'
  BY <1>5 DEF Loop, GrabFails, Grab
<1>6. ASSUME NEW w \in Workers, TakeRing(w) \/ PublishFails(w) \/ Announce(w)
      PROVE LiveRing'
  BY <1>6 DEF TakeRing, PublishFails, Announce
<1>7. ASSUME NEW w \in Workers, DropRing(w) PROVE LiveRing'
  BY <1>7 DEF DropRing
<1>8. ASSUME NEW w \in Workers, MakeRing(w) PROVE LiveRing'
  BY <1>8, MakeRingLive
<1>9. ASSUME NEW w \in Workers, Publish(w) PROVE LiveRing'
  BY <1>9 DEF Publish
<1>10. CASE Unwant \/ Receive \/ Open \/ Keep \/ Read \/ Resubscribe
  BY <1>10 DEF Unwant, Receive, Open, Keep, Read, Resubscribe
<1>11. CASE UNCHANGED vars
  BY <1>11 DEF vars
<1>. QED
  BY <1>1, <1>2, <1>3, <1>4, <1>5, <1>6, <1>7, <1>8, <1>9, <1>10, <1>11
  DEF Next, ThreadStep

\* While requests come one after the other, the file a consumer finds is the one
\* the camera's worker writes, whatever threads outlived their stop().
THEOREM RingStaysLive == ASSUME OneCaller PROVE Spec => []LiveRing
<1>1. Init => Handover /\ LiveRing
  BY DEF Init, Handover, LiveRing
<1>2. TypeOK /\ Handover /\ LiveRing /\ [Next]_vars => Handover' /\ LiveRing'
  BY HandoverStep, LiveStep
<1>. QED BY <1>1, <1>2, TypeCorrect, PTL DEF Spec

\* Whatever the callers do, close() and a new ring leave no file behind that
\* nobody owns.
THEOREM EveryFileOwned == Spec => []FilesOwned
<1>1. Init => FilesOwned
  BY DEF Init, FilesOwned
<1>2. TypeOK /\ FilesOwned /\ [Next]_vars => FilesOwned'
  <2> SUFFICES ASSUME TypeOK, FilesOwned, [Next]_vars PROVE FilesOwned'
    OBVIOUS
  <2> USE Bounds DEF TypeOK, FilesOwned, brokerVars, fileVars
  <2>1. CASE Remove \/ Unwant \/ Receive \/ Open \/ Keep \/ Read \/ Resubscribe
    BY <2>1 DEF Remove, Unwant, Receive, Open, Keep, Read, Resubscribe
  <2>2. CASE Crash
    BY <2>2 DEF Crash
  <2>3. ASSUME NEW w \in Workers, Add(w) \/ Loop(w) \/ GrabFails(w) \/ Grab(w)
        PROVE FilesOwned'
    BY <2>3 DEF Add, Loop, GrabFails, Grab
  <2>4. ASSUME NEW w \in Workers, TakeRing(w) \/ PublishFails(w) \/ Announce(w)
        PROVE FilesOwned'
    BY <2>4 DEF TakeRing, PublishFails, Announce
  <2>5. ASSUME NEW w \in Workers, Close(w) \/ DropRing(w) PROVE FilesOwned'
    BY <2>5 DEF Close, DropRing
  <2>6. ASSUME NEW w \in Workers, MakeRing(w) PROVE FilesOwned'
    <3>1. ring'[w].inode = file' /\ ring'[w].epoch = made' /\ made' # 0
      BY <2>6 DEF MakeRing
    <3>2. ring'[w] # NoRing
      BY <3>1
    <3>. QED BY <3>1, <3>2
  <2>7. ASSUME NEW w \in Workers, Publish(w) PROVE FilesOwned'
    <3>1. /\ file' = file /\ leftover' = leftover
          /\ \A v \in Workers : ring'[v].inode = ring[v].inode /\ ring'[v].epoch = ring[v].epoch
      BY <2>7 DEF Publish
    <3>2. \A v \in Workers : ring[v] # NoRing => ring'[v] # NoRing
      BY <3>1
    <3>. QED BY <3>1, <3>2
  <2>8. CASE UNCHANGED vars
    BY <2>8 DEF vars
  <2>. QED
    BY <2>1, <2>2, <2>3, <2>4, <2>5, <2>6, <2>7, <2>8 DEF Next, ThreadStep
<1>. QED BY <1>1, <1>2, TypeCorrect, PTL DEF Spec

-----------------------------------------------------------------------------
(* Notices, mappings and slots.                                             *)

\* A step that announces nothing new, gives out no epoch and changes no ring but
\* by closing it.
LEMMA EpochsKept ==
  ASSUME TypeOK, EpochsInv, made' = made,
         \A w \in Workers : ring'[w] \in {ring[w], NoRing},
         reader'.epoch <= made,
         Noticed' \subseteq Noticed \cup {NoFrame}
  PROVE  EpochsInv'
<1>1. \A w \in Workers : ring[w] # NoRing => ring[w].epoch # 0
  BY Bounds DEF TypeOK
<1>2. NoFrame.epoch = 0 /\ made \in Nat
  BY DEF NoFrame, TypeOK
<1>. QED BY <1>1, <1>2, Bounds DEF EpochsInv

\* What is announced is nothing or a frame.
LEMMA NoticedType == TypeOK => Noticed \subseteq Frames \cup {NoFrame}
<1> SUFFICES ASSUME TypeOK PROVE Noticed \subseteq Frames \cup {NoFrame}
  OBVIOUS
<1>1. \A i \in 1 .. Len(queue) : queue[i] \in Frames
  BY DEF TypeOK
<1>. QED BY <1>1 DEF TypeOK, Noticed

\* Taking a notice announces nothing new.
LEMMA ReceiveNoticed == TypeOK /\ Receive => Noticed' \subseteq Noticed \cup {NoFrame}
<1> SUFFICES ASSUME TypeOK, Receive, NEW f \in Noticed'
             PROVE  f \in Noticed \cup {NoFrame}
  OBVIOUS
<1>1. queue \in Seq(Frames) /\ queue # <<>> /\ queue' = Tail(queue) /\ note' = note
  BY DEF TypeOK, Receive, brokerVars
<1>2. Len(queue) \in Nat /\ Len(queue) >= 1 /\ Head(queue) = queue[1]
  BY <1>1
<1>3. ASSUME NEW i \in 1 .. Len(queue'), f = queue'[i] PROVE f \in Noticed
  <2>1. i + 1 \in 1 .. Len(queue) /\ queue'[i] = queue[i + 1]
    BY <1>1, <1>2
  <2>. QED BY <1>3, <2>1 DEF Noticed
<1>4. hand'.note = hand.note \/ hand'.note = queue[1]
  BY <1>2 DEF Receive
<1>5. queue[1] \in Noticed /\ hand.note \in Noticed
  BY <1>2 DEF Noticed
<1>6. \A w \in Workers : note'[w] \in Noticed
  BY <1>1 DEF Noticed
<1>. QED BY <1>3, <1>4, <1>5, <1>6 DEF Noticed

\* Announcing moves a frame from the thread to the queue, or drops it.
LEMMA AnnounceNoticed ==
  \A w \in Workers : TypeOK /\ Announce(w) => Noticed' \subseteq Noticed \cup {NoFrame}
<1> SUFFICES ASSUME NEW w \in Workers, TypeOK, Announce(w), NEW f \in Noticed'
             PROVE  f \in Noticed \cup {NoFrame}
  OBVIOUS
<1>1. note[w] \in Frames /\ note[w] \in Noticed /\ queue \in Seq(Frames)
  BY DEF TypeOK, Announce, Noticed
<1>2. ASSUME NEW i \in 1 .. Len(queue'), f = queue'[i] PROVE f \in Noticed
  <2>1. CASE queue' = Append(queue, note[w])
    <3>1. Len(queue) \in Nat /\ Len(queue') = Len(queue) + 1
      BY <1>1, <2>1
    <3>2. CASE i = Len(queue) + 1
      BY <1>1, <1>2, <2>1, <3>1, <3>2
    <3>3. CASE i \in 1 .. Len(queue)
      <4>1. queue'[i] = queue[i]
        BY <1>1, <2>1, <3>3
      <4>. QED BY <1>2, <3>3, <4>1 DEF Noticed
    <3>. QED BY <3>1, <3>2, <3>3
  <2>2. CASE queue' = queue
    BY <1>2, <2>2 DEF Noticed
  <2>. QED BY <2>1, <2>2 DEF Announce
<1>3. \A v \in Workers : note'[v] \in Noticed \cup {NoFrame}
  BY DEF TypeOK, Announce, Noticed
<1>4. hand'.note \in Noticed
  BY DEF Announce, consumerVars, Noticed
<1>. QED BY <1>2, <1>3, <1>4 DEF Noticed

\* A published frame is the youngest of its ring.
LEMMA PublishEpochs ==
  \A w \in Workers : TypeOK /\ EpochsInv /\ Publish(w) => EpochsInv'
<1> SUFFICES ASSUME NEW w \in Workers, TypeOK, EpochsInv, Publish(w)
             PROVE  EpochsInv'
  OBVIOUS
<1> DEFINE f == [epoch |-> ring[w].epoch, seq |-> ring[w].seq + 1]
<1>1. ring[w] \in [epoch : Epochs, inode : Epochs, seq : 0 .. MaxSeq]
  BY DEF TypeOK, Publish
<1>2. /\ ring' = [ring EXCEPT ![w].seq = ring[w].seq + 1]
      /\ note' = [note EXCEPT ![w] = f]
      /\ made' = made /\ queue' = queue /\ reader' = reader /\ hand' = hand
  BY DEF Publish, consumerVars
<1>3. \A v \in Workers : /\ ring'[v].epoch = ring[v].epoch
                         /\ v # w => ring'[v] = ring[v]
  BY <1>1, <1>2 DEF TypeOK
<1>4. ring'[w].seq = ring[w].seq + 1 /\ ring[w].seq \in Nat
  BY <1>1, <1>2, Bounds DEF TypeOK
<1>5. ring[w] # NoRing /\ \A v \in Workers : ring'[v] # NoRing => ring[v] # NoRing
  BY <1>2 DEF Publish, TypeOK
<1>6. Noticed' \subseteq Noticed \cup {f}
  BY <1>2 DEF Noticed, TypeOK
<1>7. ASSUME NEW g \in Noticed', NEW v \in Workers, ring'[v] # NoRing,
             ring'[v].epoch = g.epoch
      PROVE  g.seq <= ring'[v].seq
  <2>1. CASE g = f
    <3>1. v = w
      BY <1>3, <1>5, <1>7, <2>1 DEF EpochsInv
    <3>. QED BY <1>4, <2>1, <3>1
  <2>2. CASE g \in Noticed
    <3>1. g.seq <= ring[v].seq
      BY <1>3, <1>5, <1>7, <2>2 DEF EpochsInv
    <3>2. g.seq \in Nat
      BY <2>2, NoticedType, Bounds DEF Frames, NoFrame
    <3>. QED BY <1>3, <1>4, <3>1, <3>2
  <2>. QED BY <1>6, <2>1, <2>2
<1>8. \A g \in Noticed' : g.epoch <= made'
  <2>1. f.epoch <= made
    BY DEF EpochsInv
  <2>. QED BY <1>2, <1>6, <2>1 DEF EpochsInv
<1>9. \A u, v \in Workers :
        ring'[u] # NoRing /\ ring'[u].epoch = ring'[v].epoch => u = v
  BY <1>3, <1>5 DEF EpochsInv
<1>. HIDE DEF f
<1>. QED BY <1>2, <1>3, <1>7, <1>8, <1>9 DEF EpochsInv

\* Nothing speaks of a new ring yet.
LEMMA MakeRingEpochs ==
  \A w \in Workers : TypeOK /\ EpochsInv /\ MakeRing(w) => EpochsInv'
<1> SUFFICES ASSUME NEW w \in Workers, TypeOK, EpochsInv, MakeRing(w)
             PROVE  EpochsInv'
  OBVIOUS
<1>1. made \in Nat /\ made' = made + 1
  BY Bounds DEF TypeOK, MakeRing
<1>2. /\ \A v \in Workers \ {w} : ring'[v] = ring[v]
      /\ ring'[w].epoch = made' /\ ring'[w].seq = 0
  BY DEF TypeOK, MakeRing
<1>3. Noticed' = Noticed /\ reader' = reader
  BY DEF Noticed, MakeRing, consumerVars
<1>4. \A v \in Workers : ring[v].epoch \in Nat /\ ring[v].epoch <= made
  BY Bounds DEF EpochsInv, TypeOK, NoRing, Epochs
<1>5. \A f \in Noticed : f.epoch \in Nat /\ f.epoch <= made
  BY NoticedType, Bounds DEF EpochsInv, Frames, NoFrame, Epochs
<1>6. reader.epoch \in Nat /\ reader.epoch <= made
  BY Bounds DEF EpochsInv, TypeOK, NoReader, Epochs
<1>7. \A f \in Noticed : \A v \in Workers :
        ring'[v] # NoRing /\ ring'[v].epoch = f.epoch => f.seq <= ring'[v].seq
  <2> SUFFICES ASSUME NEW f \in Noticed, NEW v \in Workers, ring'[v] # NoRing,
                      ring'[v].epoch = f.epoch
               PROVE  f.seq <= ring'[v].seq
    OBVIOUS
  <2>1. v # w
    BY <1>1, <1>2, <1>5
  <2>. QED BY <1>2, <2>1 DEF EpochsInv
<1>8. \A u, v \in Workers :
        ring'[u] # NoRing /\ ring'[u].epoch = ring'[v].epoch => u = v
  BY <1>1, <1>2, <1>4 DEF EpochsInv
<1>9. \A v \in Workers : ring'[v].epoch <= made'
  BY <1>1, <1>2, <1>4
<1>. QED BY <1>1, <1>3, <1>5, <1>6, <1>7, <1>8, <1>9 DEF EpochsInv

\* Epochs stay apart, and notices behind their rings.
LEMMA EpochsStep == TypeOK /\ EpochsInv /\ [Next]_vars => EpochsInv'
<1> SUFFICES ASSUME TypeOK, EpochsInv, [Next]_vars PROVE EpochsInv'
  OBVIOUS
<1> USE DEF fileVars, consumerVars
<1>0. reader.epoch <= made /\ \A w \in Workers : ring[w] \in {ring[w], NoRing}
  BY DEF EpochsInv
<1>1. ASSUME NEW w \in Workers,
             Add(w) \/ Close(w) \/ Loop(w) \/ GrabFails(w) \/ Grab(w) \/ TakeRing(w)
               \/ DropRing(w) \/ PublishFails(w)
      PROVE  EpochsInv'
  <2>1. made' = made /\ reader' = reader /\ Noticed' = Noticed
    BY <1>1 DEF Add, Close, Loop, GrabFails, Grab, TakeRing, DropRing,
         PublishFails, Noticed
  <2>2. \A v \in Workers : ring'[v] \in {ring[v], NoRing}
    BY <1>1 DEF Add, Close, Loop, GrabFails, Grab, TakeRing, DropRing,
         PublishFails, TypeOK
  <2>. QED BY <1>0, <2>1, <2>2, EpochsKept
<1>2. CASE Crash
  <2>1. made' = made /\ reader' = reader /\ Noticed' \subseteq Noticed \cup {NoFrame}
    BY <1>2 DEF Crash, Noticed
  <2>2. \A v \in Workers : ring'[v] \in {ring[v], NoRing}
    BY <1>2 DEF Crash
  <2>. QED BY <1>0, <2>1, <2>2, EpochsKept
<1>3. CASE Remove \/ Unwant \/ Open \/ Read
  <2>1. /\ made' = made /\ ring' = ring
        /\ Noticed' \subseteq Noticed \cup {NoFrame}
    <3>1. /\ made' = made /\ ring' = ring /\ note' = note /\ queue' = queue
      BY <1>3 DEF Remove, Unwant, Open, Read, brokerVars
    <3>2. hand'.note \in {hand.note, NoFrame}
      <4>1. CASE hand' = hand
        BY <4>1
      <4>2. CASE hand' = Idle
        BY <4>2 DEF Idle
      <4>3. CASE hand' = [hand EXCEPT !.pc = "keep", !.inode = file]
        BY <4>3 DEF TypeOK
      <4>. QED BY <1>3, <4>1, <4>2, <4>3 DEF Remove, Unwant, Open, Read
    <3>. QED BY <3>1, <3>2 DEF Noticed
  <2>2. reader'.epoch <= made
    <3>1. reader' = reader \/ reader' = NoReader
      BY <1>3 DEF Remove, Unwant, Open, Read
    <3>. QED BY <1>0, <3>1, Bounds DEF TypeOK
  <2>. QED BY <1>0, <2>1, <2>2, EpochsKept
<1>4. CASE Keep
  <2>1. made' = made /\ ring' = ring /\ Noticed' = Noticed
    BY <1>4 DEF Keep, Noticed, TypeOK, brokerVars
  <2>2. reader'.epoch = hand.note.epoch /\ hand.note \in Noticed
    BY <1>4 DEF Keep, Noticed
  <2>. QED BY <1>0, <2>1, <2>2, EpochsKept DEF EpochsInv
<1>5. CASE Receive
  <2>1. made' = made /\ ring' = ring /\ reader' = reader
    BY <1>5 DEF Receive, brokerVars
  <2>. QED BY <1>0, <1>5, <2>1, ReceiveNoticed, EpochsKept
<1>6. CASE Resubscribe
  <2>1. made' = made /\ ring' = ring /\ reader' = reader /\ Noticed' \subseteq Noticed
    BY <1>6 DEF Resubscribe, brokerVars, Noticed
  <2>. QED BY <1>0, <2>1, EpochsKept
<1>7. ASSUME NEW w \in Workers, Announce(w) PROVE EpochsInv'
  <2>1. made' = made /\ ring' = ring /\ reader' = reader
    BY <1>7 DEF Announce
  <2>. QED BY <1>0, <1>7, <2>1, AnnounceNoticed, EpochsKept
<1>8. CASE UNCHANGED vars
  BY <1>8 DEF vars, brokerVars, EpochsInv, Noticed
<1>. QED
  BY <1>1, <1>2, <1>3, <1>4, <1>5, <1>6, <1>7, <1>8, PublishEpochs, MakeRingEpochs
  DEF Next, ThreadStep

\* A mapping made now is one of the file under the path, which is the camera's.
LEMMA MappingStep ==
  OneCaller /\ TypeOK /\ Handover /\ LiveRing /\ EpochsInv /\ MappingInv /\ [Next]_vars
    => MappingInv'
<1> SUFFICES ASSUME OneCaller, TypeOK, Handover, LiveRing, EpochsInv, MappingInv,
                    [Next]_vars
             PROVE  MappingInv'
  OBVIOUS
<1> USE DEF fileVars
<1>0. reg # 0 => reg \in Workers
  BY DEF TypeOK
<1>1. ASSUME UNCHANGED consumerVars,
             reg' # 0 /\ ring'[reg'] # NoRing =>
               /\ reg # 0 /\ ring[reg] # NoRing
               /\ ring'[reg'].epoch = ring[reg].epoch
               /\ ring'[reg'].inode = ring[reg].inode
      PROVE  MappingInv'
  BY <1>1 DEF MappingInv, consumerVars
<1>2. ASSUME NEW w \in Workers, Add(w) PROVE MappingInv'
  <2>1. ring'[reg'] = NoRing
    BY <1>2, Bounds DEF Add, Handover, TypeOK
  <2>. QED BY <1>1, <1>2, <2>1 DEF Add
<1>3. CASE Remove
  BY <1>1, <1>3 DEF Remove
<1>4. CASE Crash
  BY <1>1, <1>4 DEF Crash
<1>5. ASSUME NEW w \in Workers, Close(w) \/ DropRing(w) PROVE MappingInv'
  BY <1>0, <1>1, <1>5 DEF Close, DropRing, TypeOK
<1>6. ASSUME NEW w \in Workers,
             Loop(w) \/ GrabFails(w) \/ Grab(w) \/ TakeRing(w) \/ PublishFails(w)
               \/ Announce(w)
      PROVE  MappingInv'
  BY <1>1, <1>6 DEF Loop, GrabFails, Grab, TakeRing, PublishFails, Announce
<1>7. ASSUME NEW w \in Workers, Publish(w) PROVE MappingInv'
  <2>1. \A v \in Workers : /\ ring'[v].epoch = ring[v].epoch
                           /\ ring'[v].inode = ring[v].inode
                           /\ ring'[v] # NoRing => ring[v] # NoRing
    BY <1>7 DEF Publish, TypeOK
  <2>. QED BY <1>0, <1>1, <1>7, <2>1 DEF Publish
<1>8. ASSUME NEW w \in Workers, MakeRing(w) PROVE MappingInv'
  <2>1. made \in Nat /\ made' = made + 1 /\ reg' = reg
        /\ hand' = hand /\ reader' = reader
    BY <1>8, Bounds DEF TypeOK, MakeRing, consumerVars
  <2>2. CASE w = reg
    <3>1. ring'[reg'].epoch = made + 1
      BY <1>0, <1>8, <2>1, <2>2 DEF MakeRing, TypeOK
    <3>2. reader.epoch \in Nat /\ reader.epoch <= made
      BY Bounds DEF EpochsInv, TypeOK, NoReader, Epochs
    <3>3. hand.note.epoch \in Nat /\ hand.note.epoch <= made
      BY NoticedType, Bounds DEF EpochsInv, Noticed, Frames, NoFrame, Epochs
    <3>. QED BY <2>1, <3>1, <3>2, <3>3 DEF MappingInv
  <2>3. CASE w # reg
    <3>1. reg # 0 => ring'[reg] = ring[reg]
      BY <1>0, <1>8, <2>3 DEF MakeRing, TypeOK
    <3>. QED BY <1>1, <1>8, <2>1, <3>1 DEF MakeRing
  <2>. QED BY <2>2, <2>3
<1>9. CASE Unwant
  <2>1. reader' = NoReader /\ hand' = hand /\ reg' = reg /\ ring' = ring
    BY <1>9 DEF Unwant, brokerVars
  <2>2. reg # 0 /\ ring[reg] # NoRing => ring[reg].epoch # 0
    BY <1>0, Bounds DEF TypeOK
  <2>. QED BY <2>1, <2>2, Bounds DEF MappingInv
<1>10. CASE Receive
  <2>1. reader' = reader /\ reg' = reg /\ ring' = ring
    BY <1>10 DEF Receive, brokerVars
  <2>2. /\ hand'.pc # "keep" \/ hand' = hand
        /\ hand'.pc = "read" =>
             \/ hand' = hand
             \/ reader.epoch = hand'.note.epoch /\ hand'.inode = reader.inode
    BY <1>10 DEF Receive
  <2>. QED BY <2>1, <2>2 DEF MappingInv
<1>11. CASE Open
  <2>1. reader' = reader /\ reg' = reg /\ ring' = ring
    BY <1>11 DEF Open, brokerVars
  <2>2. CASE file = 0
    <3>1. hand' = Idle
      BY <1>11, <2>2 DEF Open
    <3>. QED BY <2>1, <3>1 DEF MappingInv, Idle
  <2>3. CASE file # 0
    <3>1. hand' = [hand EXCEPT !.pc = "keep", !.inode = file]
      BY <1>11, <2>3 DEF Open
    <3>2. hand'.pc = "keep" /\ hand'.inode = file
      BY <3>1 DEF TypeOK
    <3>. QED BY <2>1, <3>2 DEF MappingInv, LiveRing
  <2>. QED BY <2>2, <2>3
<1>12. CASE Keep
  <2>1. /\ reg' = reg /\ ring' = ring /\ hand.pc = "keep"
        /\ reader' = [epoch |-> hand.note.epoch, inode |-> hand.inode]
        /\ hand' = [hand EXCEPT !.pc = "read"]
    BY <1>12 DEF Keep, brokerVars
  <2>2. hand'.pc = "read" /\ hand'.note = hand.note /\ hand'.inode = hand.inode
    BY <2>1 DEF TypeOK
  <2>. QED BY <2>1, <2>2 DEF MappingInv
<1>13. CASE Read
  <2>1. reader' = reader /\ reg' = reg /\ ring' = ring /\ hand' = Idle
    BY <1>13 DEF Read, brokerVars
  <2>. QED BY <2>1 DEF MappingInv, Idle
<1>14. CASE Resubscribe \/ UNCHANGED vars
  BY <1>1, <1>14 DEF Resubscribe, vars, brokerVars
<1>. QED
  BY <1>2, <1>3, <1>4, <1>5, <1>6, <1>7, <1>8, <1>9, <1>10, <1>11, <1>12, <1>13,
     <1>14 DEF Next, ThreadStep

\* Two numbers that share a slot are at least Slots apart.
LEMMA SlotsApart ==
  ASSUME NEW s \in Nat, NEW t \in Nat, s < t, t < s + Slots
  PROVE  s % Slots # t % Slots
<1>1. SUFFICES ASSUME s % Slots = t % Slots PROVE FALSE
  OBVIOUS
<1> DEFINE a == s \div Slots
           b == t \div Slots
           m == s % Slots
<1>2. /\ a \in Int /\ b \in Int /\ m \in Int
      /\ s = Slots * a + m
      /\ t = Slots * b + m
  BY <1>1, SlotsAssumption
<1> HIDE DEF a, b, m
<1> DEFINE d == b - a
<1>3. d \in Int /\ t - s = Slots * d
  BY <1>2, SlotsAssumption
<1> HIDE DEF d
<1>4. CASE d <= 0
  <2>1. Slots * d <= 0
    BY <1>3, <1>4, SlotsAssumption
  <2>. QED
    BY <1>3, <2>1, SlotsAssumption
<1>5. CASE d >= 1
  <2>1. Slots * d >= Slots
    BY <1>3, <1>5, SlotsAssumption
  <2>. QED
    BY <1>3, <2>1, SlotsAssumption
<1>. QED
  BY <1>3, <1>4, <1>5

\* The youngest frame goes to the slot of the oldest.
LEMMA PublishSlots ==
  \A w \in Workers : TypeOK /\ SlotsInv /\ Publish(w) => SlotsInv'
<1> SUFFICES ASSUME NEW w \in Workers, TypeOK, SlotsInv, Publish(w),
                    reg' # 0, ring'[reg'] # NoRing, Alone'
             PROVE  SlotsInv'
  BY DEF SlotsInv
<1> DEFINE r == ring[reg]
           g == [epoch |-> r.epoch, seq |-> r.seq + 1]
<1>1. reg' = reg /\ reg \in Workers
  BY DEF Publish, TypeOK
<1>2. ring[w] \in [epoch : Epochs, inode : Epochs, seq : 0 .. MaxSeq]
  BY DEF Publish, TypeOK
<1>3. ring' = [ring EXCEPT ![w].seq = ring[w].seq + 1]
  BY DEF Publish
<1>4. w = reg
  <2>1. ring'[w].epoch = ring[w].epoch /\ ring[w].epoch # 0
    BY <1>2, <1>3, Bounds DEF TypeOK
  <2>2. ring'[w] # NoRing
    BY <2>1, Bounds
  <2>. QED BY <1>1, <2>2 DEF Alone
<1>5. /\ r # NoRing /\ r \in [epoch : Epochs, inode : Epochs, seq : 0 .. MaxSeq]
      /\ data' = [data EXCEPT ![r.inode][Slot(g)] = g]
  BY <1>2, <1>4 DEF Publish
<1>6. /\ ring'[reg].epoch = r.epoch /\ ring'[reg].inode = r.inode
      /\ ring'[reg].seq = r.seq + 1 /\ r.seq \in Nat
  BY <1>1, <1>2, <1>3, <1>4, Bounds DEF TypeOK
<1>7. \A v \in Workers \ {reg} : ring'[v] = ring[v]
  BY <1>3, <1>4 DEF TypeOK
<1>8. Alone
  BY <1>1, <1>7 DEF Alone
<1>9. Slot(g) \in 0 .. Slots - 1
  BY <1>6, SlotsAssumption DEF Slot
<1>10. \A i \in 0 .. Slots - 1 :
         data'[r.inode][i] = IF i = Slot(g) THEN g ELSE data[r.inode][i]
  BY <1>5, <1>9 DEF TypeOK
<1>11. ASSUME NEW i \in 0 .. Slots - 1
       PROVE  data'[r.inode][i] = NoFrame \/ data'[r.inode][i].epoch = r.epoch
  BY <1>1, <1>5, <1>8, <1>10, Bounds DEF SlotsInv
<1>12. ASSUME NEW f \in Frames, f.epoch = r.epoch, f.seq <= r.seq + 1,
              r.seq + 1 < f.seq + Slots
       PROVE  data'[r.inode][Slot(f)] = f
  <2>1. f.seq \in Nat /\ Slot(f) \in 0 .. Slots - 1
    BY SlotType, Bounds DEF Frames
  <2>2. CASE f.seq = r.seq + 1
    <3>1. f = g
      BY <1>12, <2>2 DEF Frames
    <3>. QED BY <1>10, <2>1, <3>1
  <2>3. CASE f.seq # r.seq + 1
    <3>1. f.seq <= r.seq /\ r.seq < f.seq + Slots /\ f.seq < r.seq + 1
      BY <1>6, <1>12, <2>1, <2>3, SlotsAssumption
    <3>2. Slot(f) # Slot(g)
      BY <1>6, <1>12, <2>1, <3>1, SlotsApart DEF Slot
    <3>3. data[r.inode][Slot(f)] = f
      BY <1>1, <1>5, <1>8, <1>12, <3>1, Bounds DEF SlotsInv
    <3>. QED BY <1>10, <2>1, <3>2, <3>3
  <2>. QED BY <2>2, <2>3
<1>. HIDE DEF r, g
<1>. QED BY <1>1, <1>6, <1>11, <1>12 DEF SlotsInv, r

\* Nobody but the camera's worker writes into a ring nobody else has open.
LEMMA SlotsStep ==
  OneCaller /\ TypeOK /\ Handover /\ SlotsInv /\ [Next]_vars => SlotsInv'
<1> SUFFICES ASSUME OneCaller, TypeOK, Handover, SlotsInv, [Next]_vars
             PROVE  SlotsInv'
  OBVIOUS
<1> USE DEF fileVars
<1>1. ASSUME data' = data, ring' = ring, reg' = reg PROVE SlotsInv'
  BY <1>1 DEF SlotsInv, Alone
<1>2. ASSUME reg' = 0 \/ ring'[reg'] = NoRing PROVE SlotsInv'
  BY <1>2 DEF SlotsInv
<1>3. ASSUME NEW w \in Workers, Add(w) PROVE SlotsInv'
  <2>1. ring'[reg'] = NoRing
    BY <1>3, Bounds DEF Add, Handover, TypeOK
  <2>. QED BY <1>2, <2>1
<1>4. CASE Remove \/ Crash
  BY <1>2, <1>4 DEF Remove, Crash
<1>5. ASSUME NEW w \in Workers, Close(w) PROVE SlotsInv'
  <2>1. reg' = 0
    BY <1>5, Bounds DEF Close, Handover
  <2>. QED BY <1>2, <2>1
<1>6. ASSUME NEW w \in Workers, DropRing(w) PROVE SlotsInv'
  <2>1. CASE w = reg
    BY <1>2, <1>6, <2>1 DEF DropRing, TypeOK
  <2>2. CASE w \in closing
    BY <1>2, <1>6, <2>2 DEF DropRing, Handover
  <2>3. CASE w \notin closing \cup {reg}
    <3>1. ring[w] = NoRing
      BY <1>6, <2>3 DEF DropRing, Handover
    <3>2. ring' = ring
      BY <1>6, <3>1 DEF DropRing, TypeOK
    <3>. QED BY <1>1, <1>6, <3>2 DEF DropRing
  <2>. QED BY <2>1, <2>2, <2>3
<1>7. ASSUME NEW w \in Workers,
             Loop(w) \/ GrabFails(w) \/ Grab(w) \/ TakeRing(w) \/ PublishFails(w)
               \/ Announce(w)
      PROVE  SlotsInv'
  BY <1>1, <1>7 DEF Loop, GrabFails, Grab, TakeRing, PublishFails, Announce
<1>8. ASSUME NEW w \in Workers, MakeRing(w) PROVE SlotsInv'
  <2>1. /\ reg' = reg /\ made' = made + 1 /\ made \in Nat
        /\ ring' = [ring EXCEPT ![w] = [epoch |-> made', inode |-> file', seq |-> 0]]
        /\ data' = [data EXCEPT ![file'] = [i \in 0 .. Slots - 1 |-> NoFrame]]
    BY <1>8, Bounds DEF MakeRing, TypeOK
  <2>2. CASE w # reg
    <3>1. ring'[w].epoch # 0
      BY <2>1 DEF TypeOK
    <3>. QED BY <2>1, <2>2, <3>1, Bounds DEF SlotsInv, Alone
  <2>3. CASE w = reg
    <3>1. file' \in Epochs
      BY <1>8, <2>1, Bounds DEF MakeRing, TypeOK, Epochs
    <3>2. ring'[reg'].inode = file' /\ ring'[reg'].seq = 0
      BY <2>1, <2>3 DEF TypeOK
    <3>3. \A i \in 0 .. Slots - 1 : data'[file'][i] = NoFrame
      BY <2>1, <3>1 DEF TypeOK
    <3>4. \A f \in Frames : f.seq \in Nat /\ f.seq # 0
      BY Bounds DEF Frames
    <3>. QED BY <3>2, <3>3, <3>4 DEF SlotsInv
  <2>. QED BY <2>2, <2>3
<1>9. ASSUME NEW w \in Workers, Publish(w) PROVE SlotsInv'
  BY <1>9, PublishSlots
<1>10. CASE Unwant \/ Receive \/ Open \/ Keep \/ Read \/ Resubscribe
  BY <1>1, <1>10 DEF Unwant, Receive, Open, Keep, Read, Resubscribe, brokerVars
<1>11. CASE UNCHANGED vars
  BY <1>1, <1>11 DEF vars, brokerVars
<1>. QED
  BY <1>3, <1>4, <1>5, <1>6, <1>7, <1>8, <1>9, <1>10, <1>11 DEF Next, ThreadStep

\* What the invariant says of a read that is about to happen.
LEMMA Delivery ==
  ASSUME TypeOK, LiveRing, DeliveryInv
  PROVE  DeliveredAsNoticed /\ RefusedOnlyWhenGone
<1> DEFINE n == hand.note
<1>1. n \in Noticed
  BY DEF Noticed
<1>2. ASSUME hand.pc = "read", reader # NoReader, Alone, reg # 0,
             ring[reg].epoch = n.epoch
      PROVE  /\ n \in Frames /\ reg \in Workers /\ ring[reg] # NoRing
             /\ hand.inode = ring[reg].inode /\ n.seq <= ring[reg].seq
             /\ Slot(n) \in 0 .. Slots - 1
             /\ data[hand.inode][Slot(n)] \in Frames \cup {NoFrame}
  <2>1. n \in Frames /\ reg \in Workers
    BY <1>2 DEF TypeOK
  <2>2. ring[reg] # NoRing
    BY <1>2, <2>1, Bounds DEF Frames
  <2>3. hand.inode = ring[reg].inode
    BY <1>2, <2>2 DEF DeliveryInv, MappingInv
  <2>4. n.seq <= ring[reg].seq
    BY <1>1, <1>2, <2>1, <2>2 DEF DeliveryInv, EpochsInv
  <2>5. Slot(n) \in 0 .. Slots - 1
    BY <2>1, SlotType
  <2>6. hand.inode \in Epochs
    BY <1>2 DEF TypeOK
  <2>7. data[hand.inode][Slot(n)] \in Frames \cup {NoFrame}
    <3>1. data \in [Epochs -> [0 .. Slots - 1 -> Frames \cup {NoFrame}]]
      BY DEF TypeOK
    <3>. HIDE DEF n
    <3>. QED BY <2>5, <2>6, <3>1
  <2>. QED BY <2>1, <2>2, <2>3, <2>4, <2>5, <2>7
<1>3. DeliveredAsNoticed
  <2> SUFFICES ASSUME hand.pc = "read", Answer(n) # NoFrame, Alone, reg # 0,
                      ring[reg].epoch = n.epoch
               PROVE  Answer(n) = n
    BY DEF DeliveredAsNoticed
  <2> DEFINE f == data[hand.inode][Slot(n)]
  <2>1. reader # NoReader /\ f.seq = n.seq /\ Answer(n) = f /\ f # NoFrame
    BY DEF Answer
  <2>2. f.epoch = n.epoch
    BY <1>2, <2>1 DEF DeliveryInv, SlotsInv
  <2>3. f \in Frames /\ n \in Frames
    BY <1>2, <2>1
  <2>. QED BY <2>1, <2>2, <2>3 DEF Frames
<1>4. RefusedOnlyWhenGone
  <2> SUFFICES ASSUME Alone, reg # 0, ring[reg].epoch = n.epoch,
                      ring[reg].seq < n.seq + Slots
               PROVE  /\ hand.pc = "open" => file # 0
                      /\ hand.pc = "read" => Answer(n) # NoFrame \/ reader = NoReader
    BY DEF RefusedOnlyWhenGone, Current
  <2>1. ASSUME hand.pc = "open" PROVE file # 0
    <3>1. n \in Frames /\ reg \in Workers
      BY <2>1 DEF TypeOK
    <3>2. ring[reg] # NoRing
      BY <3>1, Bounds DEF Frames
    <3>3. ring[reg].inode # 0
      BY <3>1, <3>2, Bounds DEF TypeOK
    <3>. QED BY <3>2, <3>3 DEF LiveRing
  <2>2. ASSUME hand.pc = "read", reader # NoReader PROVE Answer(n) # NoFrame
    <3>1. data[hand.inode][Slot(n)] = n
      BY <1>2, <2>2 DEF DeliveryInv, SlotsInv
    <3>. QED BY <1>2, <2>2, <3>1, Bounds DEF Answer
  <2>. QED BY <2>1, <2>2
<1>. QED BY <1>3, <1>4

\* The invariant of delivery holds throughout.
LEMMA DeliveryInvariant ==
  ASSUME OneCaller PROVE Spec => [](TypeOK /\ LiveRing /\ DeliveryInv)
<1>1. Init => DeliveryInv
  <2> SUFFICES ASSUME Init PROVE DeliveryInv
    OBVIOUS
  <2>1. Noticed \subseteq {NoFrame}
    BY DEF Init, Noticed, Idle
  <2>. QED BY <2>1, Bounds DEF Init, DeliveryInv, EpochsInv, MappingInv, SlotsInv,
               Idle, NoRing, NoReader, NoFrame
<1>2. OneCaller /\ TypeOK /\ Handover /\ LiveRing /\ DeliveryInv /\ [Next]_vars
        => DeliveryInv'
  BY EpochsStep, MappingStep, SlotsStep DEF DeliveryInv
<1>3. Init => Handover /\ LiveRing
  BY DEF Init, Handover, LiveRing
<1>4. OneCaller /\ TypeOK /\ Handover /\ LiveRing /\ [Next]_vars
        => Handover' /\ LiveRing'
  BY HandoverStep, LiveStep
<1>. QED BY <1>1, <1>2, <1>3, <1>4, TypeCorrect, PTL DEF Spec

\* While requests come one after the other and no removed worker's thread has a
\* ring open, a delivered frame is the one its notice describes, across crashes,
\* rebuilt rings and late notices.
THEOREM DeliveredIsNoticed == ASSUME OneCaller PROVE Spec => []DeliveredAsNoticed
<1>1. TypeOK /\ LiveRing /\ DeliveryInv => DeliveredAsNoticed
  BY Delivery
<1>. QED BY <1>1, DeliveryInvariant, PTL

\* Under the same conditions no mapping refuses a frame that is there: a restart
\* of the broker is a remap, never silence.
THEOREM RefusedMeansGone == ASSUME OneCaller PROVE Spec => []RefusedOnlyWhenGone
<1>1. TypeOK /\ LiveRing /\ DeliveryInv => RefusedOnlyWhenGone
  BY Delivery
<1>. QED BY <1>1, DeliveryInvariant, PTL
=============================================================================
