--------------------------- MODULE VideoPathProofs ---------------------------
(* Proofs about the way of the pictures, for every ring size and any set of   *)
(* readers, any number of tracks, lengths of queues and intervals, pictures   *)
(* of any size with anything in them, and pages and buckets of any size.      *)
EXTENDS VideoPath, ActivitiesProofs, FiniteSetTheorems, FunctionTheorems, SequenceTheorems, WellFoundedInduction, TLAPS

-----------------------------------------------------------------------------
(* The ring.                                                                  *)

\* Two frames that share a slot are at least Slots apart.
LEMMA SlotsApart ==
  ASSUME NEW s \in Nat, NEW t \in Nat, s < t, t < s + Slots
  PROVE  Slot(s) # Slot(t)
<1>1. SUFFICES ASSUME s % Slots = t % Slots PROVE FALSE
  BY DEF Slot
<1> DEFINE a == s \div Slots
           b == t \div Slots
           m == s % Slots
<1>2. /\ a \in Int /\ b \in Int /\ m \in Int
      /\ s = Slots * a + m
      /\ t = Slots * b + m
  BY <1>1, SlotsAssumption
<1> HIDE DEF a, b, m
<1> DEFINE d == b - a
<1>3. d \in Int /\ t - s = Slots * d
  BY <1>2, SlotsAssumption
<1> HIDE DEF d
<1>4. CASE d <= 0
  <2>1. Slots * d <= 0
    BY <1>3, <1>4, SlotsAssumption
  <2>. QED
    BY <1>3, <2>1, SlotsAssumption
<1>5. CASE d >= 1
  <2>1. Slots * d >= Slots
    BY <1>3, <1>5, SlotsAssumption
  <2>. QED
    BY <1>3, <2>1, SlotsAssumption
<1>. QED
  BY <1>3, <1>4, <1>5

\* A frame's slot is a slot of the ring.
LEMMA SlotInRing == \A s \in Nat : Slot(s) \in 0 .. Slots - 1
BY SlotsAssumption DEF Slot

\* The control words of two states are never confused: an odd word and 0 are no
\* frame's stable word, and distinct frames have distinct stable words.
LEMMA Words ==
  ASSUME NEW s \in Nat, NEW t \in Nat
  PROVE  /\ Writing(s) # Stable(t)
         /\ s >= 1 => Stable(s) # 0
         /\ Stable(s) = Stable(t) => s = t
         /\ Stable(s) \in Nat
         /\ s >= 1 => Writing(s) \in Nat
BY DEF Writing, Stable

\* The first test of read() passes on the stable word of the frame only.
LEMMA MatchIsStable ==
  ASSUME NEW r, NEW s \in Nat, NEW w \in Nat
  PROVE  Matches(r, s, w) <=> w = Stable(s)
BY DEF Matches, Odd, Stable

-----------------------------------------------------------------------------
\* The writer's counter is a number and its slot a slot of the ring.
LEMMA WriterInRing ==
  ASSUME TypeOK
  PROVE  seq \in Nat /\ MaxSeq \in Nat /\ Slot(seq) \in 0 .. Slots - 1
<1>1. seq \in Nat /\ MaxSeq \in Nat
  BY BoundAssumption DEF TypeOK
<1>. QED
  BY <1>1, SlotInRing

\* The new, zeroed ring has its types.
LEMMA TypeInit == Init => TypeOK
BY SlotsAssumption, BoundAssumption DEF Init, TypeOK, Frame

\* No step of the writer or of a reader breaks a type.
LEMMA TypeStep == TypeOK /\ [Next]_vars => TypeOK'
<1> SUFFICES ASSUME TypeOK, [Next]_vars PROVE TypeOK'
  OBVIOUS
<1> USE DEF TypeOK, writerVars, readerVars
<1>0. seq \in Nat /\ MaxSeq \in Nat /\ Slot(seq) \in 0 .. Slots - 1
  BY WriterInRing
<1>1. CASE BeginPublish
  <2>1. seq' \in 0 .. MaxSeq /\ seq' # 0
    BY <1>0, <1>1 DEF BeginPublish
  <2>2. Slot(seq') \in 0 .. Slots - 1
    BY <1>0, <2>1, SlotInRing
  <2>3. entry' \in [0 .. Slots - 1 -> Nat]
    BY <1>1, <2>2 DEF BeginPublish
  <2>. QED
    BY <1>1, <2>1, <2>3 DEF BeginPublish
<1>2. CASE Claim
  <2>1. Writing(seq) \in Nat
    BY <1>0, <1>2, Words DEF Claim
  <2>2. entry' \in [0 .. Slots - 1 -> Nat]
    BY <1>0, <1>2, <2>1 DEF Claim
  <2>. QED
    BY <1>2, <2>2 DEF Claim
<1>3. ASSUME NEW p \in Parts, WritePart(p) PROVE TypeOK'
  <2>1. data' \in [0 .. Slots - 1 -> [Parts -> Nat]]
    BY <1>0, <1>3 DEF WritePart
  <2>. QED
    BY <1>3, <2>1 DEF WritePart
<1>4. CASE BeginRelease
  <2>1. entry' \in [0 .. Slots - 1 -> Nat]
    BY <1>0, <1>4 DEF BeginRelease
  <2>. QED
    BY <1>4, <2>1 DEF BeginRelease
<1>5. CASE Release
  <2>1. Stable(seq) \in Nat
    BY <1>0, Words
  <2>2. entry' \in [0 .. Slots - 1 -> Nat]
    BY <1>0, <1>5, <2>1 DEF Release
  <2>. QED
    BY <1>5, <2>2 DEF Release
<1>6. CASE Notify
  <2>1. wpc = "notice" /\ seq \in 1 .. MaxSeq
    BY <1>0, <1>6 DEF Notify
  <2>. QED
    BY <1>6, <2>1 DEF Notify
<1>7. ASSUME NEW r \in Readers, NEW s \in notices, BeginRead(r, s) PROVE TypeOK'
  <2>1. s \in Nat /\ Slot(s) \in 0 .. Slots - 1
    BY <1>0, SlotInRing
  <2>2. /\ entry[Slot(s)] \in Nat
        /\ got' \in [Readers -> [Parts -> Nat]]
    BY <1>7, <2>1 DEF BeginRead, Frame
  <2>3. /\ want' \in [Readers -> Nat]
        /\ before' \in [Readers -> Nat]
        /\ rpc' \in [Readers -> {"none", "copying", "frame", "refused"}]
        /\ left' \in [Readers -> SUBSET Parts]
    BY <1>7, <2>1, <2>2 DEF BeginRead
  <2>. QED
    BY <1>7, <2>2, <2>3 DEF BeginRead
<1>8. ASSUME NEW r \in Readers, NEW p \in Parts, ReadPart(r, p) PROVE TypeOK'
  <2>1. Slot(want[r]) \in 0 .. Slots - 1
    BY <1>8, SlotInRing
  <2>2. /\ got' \in [Readers -> [Parts -> Nat]]
        /\ left' \in [Readers -> SUBSET Parts]
    BY <1>8, <2>1 DEF ReadPart
  <2>. QED
    BY <1>8, <2>2 DEF ReadPart
<1>9. ASSUME NEW r \in Readers, EndRead(r) PROVE TypeOK'
  BY <1>9 DEF EndRead
<1>10. CASE UNCHANGED vars
  BY <1>10 DEF vars
<1>. QED
  BY <1>1, <1>2, <1>3, <1>4, <1>5, <1>6, <1>7, <1>8, <1>9, <1>10
  DEF Next, WriterStep, ReaderStep

\* Every variable keeps its type: the control words stay natural numbers, the
\* writer is inside the ring, readers hold frames cut into the ring's parts.
THEOREM TypeCorrect == Spec => []TypeOK
BY TypeInit, TypeStep, PTL DEF Spec

-----------------------------------------------------------------------------
\* An announced frame is older than the frame in hand, so the slot in hand is
\* neither its word's value nor, within Slots frames, its slot.
LEMMA HeldApart ==
  ASSUME SafetyInv, wpc # "idle", NEW s \in notices
  PROVE  /\ s \in Nat /\ s >= 1 /\ s < seq /\ seq \in Nat
         /\ Stable(s) # Stable(seq) /\ Stable(s) # Writing(seq) /\ Stable(s) # 0
         /\ seq < s + Slots => Slot(s) # Slot(seq)
<1>1. s \in Nat /\ s >= 1 /\ s < seq /\ seq \in Nat
  BY BoundAssumption DEF SafetyInv, TypeOK, NoticesInv
<1>. QED
  BY <1>1, Words, SlotsApart

\* The new ring: nothing written, announced or read.
LEMMA SafetyInit == Init => SafetyInv
<1> SUFFICES ASSUME Init PROVE SafetyInv
  OBVIOUS
<1>1. TypeOK
  BY TypeInit
<1>2. StableSlots
  <2> SUFFICES ASSUME NEW i \in 0 .. Slots - 1, NEW s \in 1 .. MaxSeq
               PROVE  entry[i] # Stable(s)
    BY DEF StableSlots
  <2>. QED
    BY Words, BoundAssumption DEF Init
<1>. QED
  BY <1>1, <1>2 DEF Init, SafetyInv, WriterInv, NoticesInv, Readable, ReadersInv,
     NoTornRead, RefusedOnlyWhenOverwritten

\* The writer stores a word that is no announced frame's in the slot of the frame
\* in hand: what readers and consumers rely on survives.
LEMMA StoreKeepsReaders ==
  ASSUME SafetyInv, wpc # "idle", NEW x \in Nat,
         x \in {0, Writing(seq), Stable(seq)},
         entry' = [entry EXCEPT ![Slot(seq)] = x],
         UNCHANGED <<seq, notices, rpc, want, before, left, got>>
  PROVE  Readable' /\ ReadersInv' /\ NoTornRead' /\ RefusedOnlyWhenOverwritten'
<1> USE DEF SafetyInv
<1>0. seq \in Nat /\ Slot(seq) \in 0 .. Slots - 1
  BY WriterInRing
<1>1. Readable'
  <2> SUFFICES ASSUME NEW s \in notices, seq < s + Slots
               PROVE  entry'[Slot(s)] = Stable(s)
    BY DEF Readable
  <2>1. Slot(s) # Slot(seq) /\ Slot(s) \in 0 .. Slots - 1
    BY HeldApart, SlotInRing
  <2>2. entry'[Slot(s)] = entry[Slot(s)]
    BY <2>1 DEF TypeOK
  <2>. QED
    BY <2>2 DEF Readable
<1>2. ReadersInv'
  <2> SUFFICES ASSUME NEW r \in Readers, rpc[r] = "copying",
                      entry'[Slot(want[r])] = before[r]
               PROVE  \A p \in Parts \ left[r] : got[r][p] = want[r]
    BY DEF ReadersInv
  <2>1. want[r] \in notices /\ before[r] = Stable(want[r])
    BY DEF ReadersInv
  <2>2. x # before[r]
    BY <2>1, HeldApart
  <2>3. Slot(want[r]) \in 0 .. Slots - 1
    BY SlotInRing DEF TypeOK
  <2>4. entry[Slot(want[r])] = before[r]
    BY <1>0, <2>2, <2>3 DEF TypeOK
  <2>. QED
    BY <2>4 DEF ReadersInv
<1>. QED
  BY <1>1, <1>2 DEF NoTornRead, RefusedOnlyWhenOverwritten

\* Each store, load and notice keeps what both sides rely on.
LEMMA SafetyStep == SafetyInv /\ [Next]_vars => SafetyInv'
<1> SUFFICES ASSUME SafetyInv, [Next]_vars PROVE SafetyInv'
  OBVIOUS
<1> USE DEF SafetyInv
<1>0. seq \in Nat /\ MaxSeq \in Nat /\ Slot(seq) \in 0 .. Slots - 1
  BY WriterInRing
<1>T. TypeOK'
  BY TypeStep
<1>U. /\ \A s \in notices : s \in Nat /\ s >= 1 /\ s \in 1 .. MaxSeq /\ Slot(s) \in 0 .. Slots - 1
      /\ Slots \in Nat
  BY <1>0, SlotInRing, SlotsAssumption DEF TypeOK
<1>1. CASE BeginPublish
  <2> USE <1>1 DEF BeginPublish, readerVars
  <2>0. /\ seq' \in Nat /\ seq' >= 1 /\ seq' = seq + 1
        /\ Slot(seq') \in 0 .. Slots - 1
    BY <1>0, SlotInRing
  <2>1. \A i \in 0 .. Slots - 1 :
          entry'[i] = IF i = Slot(seq') THEN 0 ELSE entry[i]
    BY DEF TypeOK
  <2>2. StableSlots'
    <3> SUFFICES ASSUME NEW i \in 0 .. Slots - 1, NEW s \in 1 .. MaxSeq,
                        entry'[i] = Stable(s)
                 PROVE  data[i] = Frame(s) /\ s <= seq'
      BY DEF StableSlots
    <3>1. entry[i] = Stable(s)
      BY <1>0, <2>1, Words
    <3>. QED
      BY <1>0, <2>0, <3>1 DEF StableSlots
  <2>3. WriterInv'
    BY <2>0, <2>1 DEF WriterInv
  <2>4. NoticesInv'
    BY <1>0, <1>U, <2>0 DEF NoticesInv
  <2>5. Readable'
    <3> SUFFICES ASSUME NEW s \in notices, seq' < s + Slots
                 PROVE  entry'[Slot(s)] = Stable(s)
      BY DEF Readable
    <3>1. s < seq' /\ seq < s + Slots
      BY <1>0, <1>U, <2>0 DEF NoticesInv
    <3>2. Slot(s) # Slot(seq')
      BY <1>U, <2>0, <3>1, SlotsApart
    <3>. QED
      BY <1>U, <2>1, <3>1, <3>2 DEF Readable
  <2>6. ReadersInv'
    <3> SUFFICES ASSUME NEW r \in Readers, rpc[r] = "copying",
                        entry'[Slot(want[r])] = before[r]
                 PROVE  \A p \in Parts \ left[r] : got[r][p] = want[r]
      BY DEF ReadersInv
    <3>1. want[r] \in notices /\ before[r] = Stable(want[r])
      BY DEF ReadersInv
    <3>2. entry[Slot(want[r])] = before[r]
      BY <1>U, <2>1, <3>1, Words
    <3>. QED
      BY <3>2 DEF ReadersInv
  <2>7. NoTornRead' /\ RefusedOnlyWhenOverwritten'
    BY <1>0, <1>U, <2>0 DEF NoTornRead, RefusedOnlyWhenOverwritten, TypeOK
  <2>. QED
    BY <1>T, <2>2, <2>3, <2>4, <2>5, <2>6, <2>7
<1>2. CASE Claim
  <2> USE <1>2 DEF Claim, readerVars
  <2>0. Writing(seq) \in Nat
    BY <1>0, Words DEF TypeOK
  <2>1. \A i \in 0 .. Slots - 1 :
          entry'[i] = IF i = Slot(seq) THEN Writing(seq) ELSE entry[i]
    BY DEF TypeOK
  <2>2. StableSlots'
    <3> SUFFICES ASSUME NEW i \in 0 .. Slots - 1, NEW s \in 1 .. MaxSeq,
                        entry'[i] = Stable(s)
                 PROVE  data[i] = Frame(s) /\ s <= seq
      BY DEF StableSlots
    <3>1. entry[i] = Stable(s)
      BY <1>0, <2>1, Words
    <3>. QED
      BY <3>1 DEF StableSlots
  <2>3. WriterInv'
    BY <1>0, <2>1 DEF WriterInv
  <2>4. NoticesInv'
    BY DEF NoticesInv
  <2>. QED
    BY <1>T, <2>0, <2>2, <2>3, <2>4, StoreKeepsReaders
<1>3. ASSUME NEW p \in Parts, WritePart(p) PROVE SafetyInv'
  <2> USE <1>3 DEF WritePart, readerVars
  <2>0. entry[Slot(seq)] = Writing(seq)
    BY DEF WriterInv
  <2>1. \A i \in 0 .. Slots - 1 : i # Slot(seq) => data'[i] = data[i]
    BY DEF TypeOK
  <2>2. \A q \in Parts :
          data'[Slot(seq)][q] = IF q = p THEN seq ELSE data[Slot(seq)][q]
    BY <1>0 DEF TypeOK
  <2>3. StableSlots'
    <3> SUFFICES ASSUME NEW i \in 0 .. Slots - 1, NEW s \in 1 .. MaxSeq,
                        entry[i] = Stable(s)
                 PROVE  data'[i] = Frame(s) /\ s <= seq
      BY DEF StableSlots
    <3>1. i # Slot(seq)
      BY <1>0, <2>0, Words
    <3>. QED
      BY <2>1, <3>1 DEF StableSlots
  <2>4. WriterInv'
    BY <1>0, <2>0, <2>2 DEF WriterInv, TypeOK
  <2>. QED
    BY <1>T, <2>3, <2>4 DEF NoticesInv, Readable, ReadersInv, NoTornRead,
       RefusedOnlyWhenOverwritten
<1>4. CASE BeginRelease
  <2> USE <1>4 DEF BeginRelease, readerVars
  <2>1. \A i \in 0 .. Slots - 1 :
          entry'[i] = IF i = Slot(seq) THEN 0 ELSE entry[i]
    BY DEF TypeOK
  <2>2. StableSlots'
    <3> SUFFICES ASSUME NEW i \in 0 .. Slots - 1, NEW s \in 1 .. MaxSeq,
                        entry'[i] = Stable(s)
                 PROVE  data[i] = Frame(s) /\ s <= seq
      BY DEF StableSlots
    <3>1. entry[i] = Stable(s)
      BY <1>0, <2>1, Words
    <3>. QED
      BY <3>1 DEF StableSlots
  <2>3. data[Slot(seq)] = Frame(seq)
    <3>1. data[Slot(seq)] \in [Parts -> Nat]
      BY <1>0 DEF TypeOK
    <3>2. \A p \in Parts : data[Slot(seq)][p] = seq
      BY DEF WriterInv
    <3>. QED
      BY <3>1, <3>2 DEF Frame
  <2>4. WriterInv'
    BY <1>0, <2>1, <2>3 DEF WriterInv
  <2>5. NoticesInv'
    BY DEF NoticesInv
  <2>. QED
    BY <1>T, <2>2, <2>4, <2>5, StoreKeepsReaders
<1>5. CASE Release
  <2> USE <1>5 DEF Release, readerVars
  <2>0. Stable(seq) \in Nat
    BY <1>0, Words
  <2>1. \A i \in 0 .. Slots - 1 :
          entry'[i] = IF i = Slot(seq) THEN Stable(seq) ELSE entry[i]
    BY DEF TypeOK
  <2>2. StableSlots'
    <3> SUFFICES ASSUME NEW i \in 0 .. Slots - 1, NEW s \in 1 .. MaxSeq,
                        entry'[i] = Stable(s)
                 PROVE  data[i] = Frame(s) /\ s <= seq
      BY DEF StableSlots
    <3>1. CASE i = Slot(seq)
      <4>1. s = seq
        BY <1>0, <2>1, <3>1, Words
      <4>. QED
        BY <1>0, <3>1, <4>1 DEF WriterInv
    <3>2. CASE i # Slot(seq)
      BY <2>1, <3>2 DEF StableSlots
    <3>. QED
      BY <3>1, <3>2
  <2>3. WriterInv'
    BY <1>0, <2>1 DEF WriterInv
  <2>4. NoticesInv'
    BY DEF NoticesInv
  <2>. QED
    BY <1>T, <2>0, <2>2, <2>3, <2>4, StoreKeepsReaders
<1>6. CASE Notify
  <2> USE <1>6 DEF Notify, readerVars
  <2>1. StableSlots' /\ WriterInv' /\ NoTornRead' /\ RefusedOnlyWhenOverwritten'
    BY DEF StableSlots, WriterInv, NoTornRead, RefusedOnlyWhenOverwritten
  <2>2. notices' \subseteq notices \cup {seq}
    OBVIOUS
  <2>3. NoticesInv' /\ Readable'
    BY <1>0, <2>2 DEF NoticesInv, Readable, WriterInv
  <2>4. ReadersInv'
    BY DEF ReadersInv
  <2>. QED
    BY <1>T, <2>1, <2>3, <2>4
<1>7. ASSUME NEW r \in Readers, NEW s \in notices, BeginRead(r, s) PROVE SafetyInv'
  <2> USE <1>7 DEF BeginRead, writerVars
  <2>0. s \in Nat /\ s >= 1 /\ Slot(s) \in 0 .. Slots - 1 /\ entry[Slot(s)] \in Nat
    BY <1>U DEF TypeOK
  <2>1. StableSlots' /\ WriterInv' /\ NoticesInv' /\ Readable'
    BY DEF StableSlots, WriterInv, NoticesInv, Readable
  <2>2. \A q \in Readers :
          /\ want'[q] = IF q = r THEN s ELSE want[q]
          /\ before'[q] = IF q = r THEN entry[Slot(s)] ELSE before[q]
          /\ q # r => rpc'[q] = rpc[q] /\ left'[q] = left[q] /\ got'[q] = got[q]
    BY DEF TypeOK
  <2>3. CASE Matches(r, s, entry[Slot(s)])
    <3>1. rpc'[r] = "copying" /\ left'[r] = Parts /\ entry[Slot(s)] = Stable(s)
      BY <2>0, <2>3, MatchIsStable DEF TypeOK
    <3>2. ReadersInv'
      BY <2>2, <3>1 DEF ReadersInv
    <3>3. NoTornRead' /\ RefusedOnlyWhenOverwritten'
      BY <2>2, <3>1 DEF NoTornRead, RefusedOnlyWhenOverwritten
    <3>. QED
      BY <1>T, <2>1, <3>2, <3>3
  <2>4. CASE ~Matches(r, s, entry[Slot(s)])
    <3>1. rpc'[r] = "refused" /\ entry[Slot(s)] # Stable(s)
      BY <2>0, <2>4, MatchIsStable DEF TypeOK
    <3>2. seq >= s + Slots
      BY <1>0, <1>U, <2>0, <3>1 DEF Readable
    <3>3. ReadersInv'
      BY <2>2, <3>1 DEF ReadersInv
    <3>4. NoTornRead' /\ RefusedOnlyWhenOverwritten'
      BY <2>2, <3>1, <3>2 DEF NoTornRead, RefusedOnlyWhenOverwritten
    <3>. QED
      BY <1>T, <2>1, <3>3, <3>4
  <2>. QED
    BY <2>3, <2>4
<1>8. ASSUME NEW r \in Readers, NEW p \in Parts, ReadPart(r, p) PROVE SafetyInv'
  <2> USE <1>8 DEF ReadPart, writerVars
  <2>1. /\ StableSlots' /\ WriterInv' /\ NoticesInv' /\ Readable'
        /\ RefusedOnlyWhenOverwritten'
    BY DEF StableSlots, WriterInv, NoticesInv, Readable, RefusedOnlyWhenOverwritten
  <2>2. \A q \in Readers : q # r => got'[q] = got[q] /\ left'[q] = left[q]
    BY DEF TypeOK
  <2>3. NoTornRead'
    BY <2>2 DEF NoTornRead
  <2>4. ASSUME entry[Slot(want[r])] = before[r]
        PROVE  \A q \in Parts \ left'[r] : got'[r][q] = want[r]
    <3>1. /\ want[r] \in notices
          /\ before[r] = Stable(want[r])
          /\ \A q \in Parts \ left[r] : got[r][q] = want[r]
      BY <2>4 DEF ReadersInv
    <3>2. data[Slot(want[r])] = Frame(want[r])
      BY <1>U, <2>4, <3>1 DEF StableSlots
    <3>3. data[Slot(want[r])][p] = want[r]
      BY <3>2 DEF Frame
    <3>4. left'[r] = left[r] \ {p}
      BY DEF TypeOK
    <3>5. \A q \in Parts : got'[r][q] = IF q = p THEN want[r] ELSE got[r][q]
      BY <3>3 DEF TypeOK
    <3>. QED
      BY <3>1, <3>4, <3>5
  <2>5. ReadersInv'
    BY <2>2, <2>4 DEF ReadersInv
  <2>. QED
    BY <1>T, <2>1, <2>3, <2>5
<1>9. ASSUME NEW r \in Readers, EndRead(r) PROVE SafetyInv'
  <2> USE <1>9 DEF EndRead, writerVars
  <2>1. StableSlots' /\ WriterInv' /\ NoticesInv' /\ Readable'
    BY DEF StableSlots, WriterInv, NoticesInv, Readable
  <2>2. \A q \in Readers : q # r => rpc'[q] = rpc[q]
    BY DEF TypeOK
  <2>3. rpc'[r] \in {"frame", "refused"}
    BY DEF TypeOK
  <2>4. ReadersInv'
    BY <2>2, <2>3 DEF ReadersInv
  <2>5. want[r] \in notices /\ before[r] = Stable(want[r])
    BY DEF ReadersInv
  <2>6. ASSUME rpc'[r] = "frame" PROVE got[r] = Frame(want[r])
    <3>1. entry[Slot(want[r])] = before[r]
      BY <2>6 DEF TypeOK
    <3>2. \A p \in Parts : got[r][p] = want[r]
      BY <3>1 DEF ReadersInv
    <3>3. got[r] \in [Parts -> Nat]
      BY DEF TypeOK
    <3>. QED
      BY <3>2, <3>3 DEF Frame
  <2>7. ASSUME rpc'[r] = "refused" PROVE seq >= want[r] + Slots
    <3>1. entry[Slot(want[r])] # Stable(want[r])
      BY <2>5, <2>7 DEF TypeOK
    <3>. QED
      BY <1>0, <1>U, <2>5, <3>1 DEF Readable
  <2>8. NoTornRead' /\ RefusedOnlyWhenOverwritten'
    BY <2>2, <2>6, <2>7 DEF NoTornRead, RefusedOnlyWhenOverwritten
  <2>. QED
    BY <1>T, <2>1, <2>4, <2>8
<1>10. CASE UNCHANGED vars
  BY <1>10, <1>T DEF vars, writerVars, readerVars, StableSlots, WriterInv, NoticesInv,
     Readable, ReadersInv, NoTornRead, RefusedOnlyWhenOverwritten
<1>. QED
  BY <1>1, <1>2, <1>3, <1>4, <1>5, <1>6, <1>7, <1>8, <1>9, <1>10
  DEF Next, WriterStep, ReaderStep

\* The inductive invariant of the ring.
THEOREM SafetyCorrect == Spec => []SafetyInv
BY SafetyInit, SafetyStep, PTL DEF Spec

\* ring.py's promise: a copy that read() returns is the whole frame the notice
\* named, however the writer and any number of readers interleave.
THEOREM NoTornReads == Spec => []NoTornRead
<1>1. SafetyInv => NoTornRead
  BY DEF SafetyInv
<1>. QED
  BY <1>1, SafetyCorrect, PTL

\* A refusal always means "the writer moved on", never a notice sent too early.
THEOREM RefusalsJustified == Spec => []RefusedOnlyWhenOverwritten
<1>1. SafetyInv => RefusedOnlyWhenOverwritten
  BY DEF SafetyInv
<1>. QED
  BY <1>1, SafetyCorrect, PTL

-----------------------------------------------------------------------------
(* Refinement: the ring is the lossy, ordered feed of FrameFeed.            *)

\* A reader's answer changes only with its state and its finished copy.
LEMMA AnswerUnchanged ==
  ASSUME NEW r \in Readers, UNCHANGED <<rpc[r], got[r]>>
  PROVE  AnswerOf(r)' = AnswerOf(r)
BY DEF AnswerOf

\* The new ring is the empty feed.
LEMMA FeedInitially == Init => Feed!FeedInit
<1> SUFFICES ASSUME Init PROVE Feed!FeedInit
  OBVIOUS
<1>1. \A r \in Readers : AnswerOf(r) = Feed!Nothing
  BY DEF Init, AnswerOf, Frame, Feed!Nothing, Feed!Blank, Feed!Whole
<1>. QED
  BY <1>1 DEF Init, Feed!FeedInit

\* Each step of publish() and read() is one step of the feed, or none: the
\* steps inside the bracket are invisible to consumers.
LEMMA FeedStep == SafetyInv /\ [Next]_vars => [Feed!FeedNext]_Feed!feedVars
<1> SUFFICES ASSUME SafetyInv, [Next]_vars PROVE [Feed!FeedNext]_Feed!feedVars
  OBVIOUS
<1> USE DEF SafetyInv
<1> DEFINE answers == [r \in Readers |-> AnswerOf(r)]
<1>0. ASSUME UNCHANGED <<rpc, got>> PROVE answers' = answers
  BY <1>0 DEF AnswerOf
<1>1. CASE BeginPublish
  BY <1>0, <1>1 DEF BeginPublish, readerVars, Feed!FeedNext, Feed!Take
<1>2. CASE Claim \/ (\E p \in Parts : WritePart(p)) \/ BeginRelease \/ Release
  BY <1>0, <1>2 DEF Claim, WritePart, BeginRelease, Release, readerVars, Feed!feedVars
<1>3. CASE Notify
  <2>1. seq \notin notices
    BY <1>3 DEF Notify, NoticesInv
  <2>. QED
    BY <1>0, <1>3, <2>1 DEF Notify, readerVars, Feed!FeedNext, Feed!Announce, Feed!feedVars
<1>4. ASSUME NEW r \in Readers, NEW s \in notices, BeginRead(r, s)
      PROVE  Feed!FeedNext
  <2> USE <1>4 DEF BeginRead, writerVars
  <2>1. answers[r] # Feed!Pending
    BY DEF AnswerOf, Feed!Pending, TypeOK
  <2>2. \A q \in Readers : q # r => AnswerOf(q)' = answers[q]
    BY AnswerUnchanged DEF TypeOK
  <2>3. CASE Matches(r, s, entry[Slot(s)])
    <3>1. AnswerOf(r)' = Feed!Pending
      BY <2>3 DEF AnswerOf, TypeOK, Feed!Pending, Feed!Blank, Feed!Whole, Frame
    <3>2. answers' = [answers EXCEPT ![r] = Feed!Pending]
      BY <2>2, <3>1
    <3>. QED
      BY <2>1, <3>2 DEF Feed!FeedNext, Feed!Ask
  <2>4. CASE ~Matches(r, s, entry[Slot(s)])
    <3>1. rpc'[r] = "refused" /\ want'[r] = s
      BY <2>4 DEF TypeOK
    <3>2. AnswerOf(r)' = Feed!Refusal
      BY <3>1 DEF AnswerOf, Feed!Refusal, Feed!Blank, Feed!Whole, Frame
    <3>3. answers' = [answers EXCEPT ![r] = Feed!Refusal]
      BY <2>2, <3>2
    <3>4. Feed!TooOld(s)
      <4>1. RefusedOnlyWhenOverwritten'
        BY SafetyStep
      <4>. QED
        BY <3>1, <4>1 DEF RefusedOnlyWhenOverwritten, Feed!TooOld
    <3>. QED
      BY <2>1, <3>3, <3>4 DEF Feed!FeedNext, Feed!Ask
  <2>. QED
    BY <2>3, <2>4
<1>5. ASSUME NEW r \in Readers, NEW p \in Parts, ReadPart(r, p)
      PROVE  UNCHANGED Feed!feedVars
  <2> USE <1>5 DEF ReadPart, writerVars
  <2>1. \A q \in Readers : AnswerOf(q)' = AnswerOf(q)
    BY DEF AnswerOf, TypeOK
  <2>. QED
    BY <2>1 DEF Feed!feedVars
<1>6. ASSUME NEW r \in Readers, EndRead(r)
      PROVE  Feed!FeedNext
  <2> USE <1>6 DEF EndRead, writerVars
  <2>1. answers[r] = Feed!Pending
    BY DEF AnswerOf, Feed!Pending, Feed!Blank, Feed!Whole, Frame
  <2>2. \A q \in Readers : q # r => AnswerOf(q)' = answers[q]
    BY AnswerUnchanged DEF TypeOK
  <2>3. /\ rpc'[r] \in {"frame", "refused"}
        /\ NoTornRead' /\ RefusedOnlyWhenOverwritten'
    BY SafetyStep DEF TypeOK
  <2>4. CASE rpc'[r] = "frame"
    <3>1. got[r] = Frame(want[r])
      BY <2>3, <2>4 DEF NoTornRead, Frame
    <3>2. AnswerOf(r)' = Feed!Frame(want[r])
      BY <2>4, <3>1 DEF AnswerOf, Frame, Feed!Frame, Feed!Whole
    <3>3. answers' = [answers EXCEPT ![r] = Feed!Frame(want[r])]
      BY <2>2, <3>2
    <3>. QED
      BY <2>1, <3>3 DEF Feed!FeedNext, Feed!Answer
  <2>5. CASE rpc'[r] = "refused"
    <3>1. AnswerOf(r)' = Feed!Refusal
      BY <2>5 DEF AnswerOf, Feed!Refusal, Feed!Blank, Feed!Whole, Frame
    <3>2. answers' = [answers EXCEPT ![r] = Feed!Refusal]
      BY <2>2, <3>1
    <3>3. Feed!TooOld(want[r])
      BY <2>3, <2>5 DEF RefusedOnlyWhenOverwritten, Feed!TooOld
    <3>. QED
      BY <2>1, <3>2, <3>3 DEF Feed!FeedNext, Feed!Answer
  <2>. QED
    BY <2>3, <2>4, <2>5
<1>7. CASE UNCHANGED vars
  BY <1>0, <1>7 DEF vars, writerVars, readerVars, Feed!feedVars
<1>. QED
  BY <1>1, <1>2, <1>3, <1>4, <1>5, <1>6, <1>7 DEF Next, WriterStep, ReaderStep

\* The ring implements the feed: to a consumer it is a sequence of whole frames,
\* asked for in order, each delivered or refused for being Slots frames old.
THEOREM RingImplementsFeed == Spec => ImplementsFeed
BY FeedInitially, FeedStep, SafetyCorrect, PTL DEF Spec, ImplementsFeed, Feed!FeedSpec

-----------------------------------------------------------------------------
(* From a frame to an observation.                                            *)

(* Frames come in order: each is younger than what the worker has, and that   *)
(* is younger than what was looked at before.                                 *)
Begun == worker.pc \in {"took", "aging", "judge"}
TimeInv ==
  /\ \A i \in DOMAIN frames : frames[i].ts <= clock /\ frames[i].era <= era /\ frames[i].ts > 0
  /\ \A i, j \in DOMAIN frames : i < j => frames[i].ts < frames[j].ts
  /\ \A i \in DOMAIN frames : worker.ts < frames[i].ts
  /\ worker.ts <= clock /\ worker.era <= era /\ (worker.pc # "idle" => worker.ts > 0)
  /\ \A x \in looks : \A i \in DOMAIN frames : x[2] < frames[i].ts
  /\ worker.pc # "idle" => \A x \in looks : x[2] <= worker.ts
  /\ Begun => \A x \in looks : x[1] \in worker.todo => x[2] < worker.ts
  /\ worker.pc \in {"took", "aging"} => \A x \in looks : x[2] < worker.ts

(* What the worker holds at each of its steps.                                *)
PlaceInv ==
  /\ worker.pc = "idle" => worker = Idle
  /\ worker.pc = "took" => worker.todo = {} /\ worker.pending = {} /\ (~worker.orphan => worker.own = {})
  /\ worker.pc = "took" /\ worker.orphan => listed = {}
  /\ worker.pc = "aging" => worker.pending = {} /\ \A t \in worker.todo : lastSeen[t] = worker.ts
  /\ worker.pc = "aging" => listed \subseteq worker.own /\ Cardinality(worker.own) <= MaxTracks
  /\ worker.pc \in {"judge", "full"} => worker.own = {}
  /\ worker.pc = "full" => worker.todo \subseteq worker.pending
  /\ \A t \in worker.pending : <<t, worker.ts>> \in looks

(* What is in the worker's hand is listed, and what is kept for a track goes  *)
(* with it, but for loose ones.                                               *)
HandInv ==
  /\ InHand \subseteq listed \cup loose
  /\ \A t \in Ids \ loose : anchor[t] # 0 => t \in listed

LooksInv ==
  /\ \A t \in listed \ loose : \A x \in looks : x[1] = t => anchor[t] # 0 /\ x[2] <= anchor[t]
  /\ \A t \in Ids : t > minted => anchor[t] = 0 /\ lastSeen[t] = 0

(* Who is listed was seen under this era, and not long before the last update. *)
ListedInv ==
  /\ \A t \in listed \ loose : eraOf[t] = era
  /\ worker.pc # "aging" => \A t \in listed : lastUpdate - lastSeen[t] <= MaxAge

TrackInv ==
  /\ IsFiniteSet(looks)
  /\ TrackingTypeOK /\ TimeInv /\ PlaceInv /\ HandInv /\ LooksInv /\ ListedInv
  /\ LooksApart /\ LossesCounted

--------------------------------------------------------------------------------
\* What the constants of the tracker and the sink are.
LEMMA TrackSizes ==
  /\ MaxTracks \in Nat \ {0} /\ MaxIds \in Nat /\ MaxAge \in Nat /\ MinInterval \in Nat
  /\ FrameQueue \in Nat /\ FrameQueue > 0 /\ ObservationQueue \in Nat /\ ObservationQueue > 0
  /\ \A gap \in Gaps : gap \in Nat /\ gap > 0
BY TrackingAssumption

\* A step of the tracker that is counted leaves its budget a table of numbers.
LEMMA TrackSpent ==
  ASSUME TrackingTypeOK, NEW what \in {"frame", "crowd", "reset", "send", "fail"}, UseTrack(what)
  PROVE  trackBudget' \in TrackBudgetTypes
<1>1. trackBudget \in TrackBudgetTypes
  BY DEF TrackingTypeOK
<1>2. \A n \in Nat : n > 0 => n - 1 \in Nat
  OBVIOUS
<1>3. CASE what = "frame"
  BY <1>1, <1>2, <1>3 DEF TrackBudgetTypes, UseTrack
<1>4. CASE what = "crowd"
  BY <1>1, <1>2, <1>4 DEF TrackBudgetTypes, UseTrack
<1>5. CASE what = "reset"
  BY <1>1, <1>2, <1>5 DEF TrackBudgetTypes, UseTrack
<1>6. CASE what = "send"
  BY <1>1, <1>2, <1>6 DEF TrackBudgetTypes, UseTrack
<1>7. CASE what = "fail"
  BY <1>1, <1>2, <1>7 DEF TrackBudgetTypes, UseTrack
<1>. QED
  BY <1>3, <1>4, <1>5, <1>6, <1>7

\* The record a worker holds of a frame, field by field.
LEMMA HoldingIs ==
  ASSUME NEW pc \in {"idle", "took", "aging", "judge", "full"}, NEW f, f.ts \in Nat, f.found \in Nat, f.era \in Nat,
         NEW orphan \in BOOLEAN, NEW own \in SUBSET Ids, NEW rest \in SUBSET Ids, NEW pending \in SUBSET Ids
  PROVE  LET w == Holding(pc, f, orphan, own, rest, pending) IN
         /\ w \in Workers /\ w.pc = pc /\ w.ts = f.ts /\ w.found = f.found /\ w.era = f.era
         /\ w.orphan = orphan /\ w.own = own /\ w.todo = rest /\ w.pending = pending
BY DEF Holding, Workers

\* The worker's record, field by field.
LEMMA WorkerIs ==
  ASSUME worker \in Workers
  PROVE  /\ worker.pc \in {"idle", "took", "aging", "judge", "full"}
         /\ worker.ts \in Nat /\ worker.found \in Nat /\ worker.era \in Nat /\ worker.orphan \in BOOLEAN
         /\ worker.own \subseteq Ids /\ worker.todo \subseteq Ids /\ worker.pending \subseteq Ids
BY DEF Workers

\* A step of the worker that stays with its frame keeps all but its place and its sets.
LEMMA WorkerAtIs ==
  ASSUME worker \in Workers, NEW pc \in {"idle", "took", "aging", "judge", "full"},
         NEW own \in SUBSET Ids, NEW rest \in SUBSET Ids, NEW pending \in SUBSET Ids
  PROVE  LET w == WorkerAt(pc, own, rest, pending) IN
         /\ w \in Workers /\ w.pc = pc /\ w.ts = worker.ts /\ w.found = worker.found /\ w.era = worker.era
         /\ w.orphan = worker.orphan /\ w.own = own /\ w.todo = rest /\ w.pending = pending
BY WorkerIs, HoldingIs DEF WorkerAt

\* A worker without a frame holds nothing.
LEMMA IdleIs ==
  /\ Idle \in Workers /\ Idle.pc = "idle" /\ Idle.ts = 0 /\ Idle.found = 0 /\ Idle.era = 0
  /\ Idle.own = {} /\ Idle.todo = {} /\ Idle.pending = {}
BY DEF Idle, Holding, Workers

\* A queue that is full gives up its head.
LEMMA QueueKeeps ==
  ASSUME NEW S, NEW q \in Seq(S), NEW x \in S, NEW n \in Nat, n > 0, Len(q) <= n
  PROVE  LET r == Append(IF Len(q) = n THEN Tail(q) ELSE q, x) IN
         /\ r \in Seq(S) /\ Len(r) \in 1..n
         /\ Len(r) = IF Len(q) = n THEN n ELSE Len(q) + 1
         /\ r[Len(r)] = x
         /\ Len(q) = n => \A i \in 1..(Len(r) - 1) : i + 1 \in DOMAIN q /\ r[i] = q[i + 1]
         /\ Len(q) # n => \A i \in 1..(Len(r) - 1) : i \in DOMAIN q /\ r[i] = q[i]
<1>1. Len(q) \in Nat /\ DOMAIN q = 1..Len(q)
  BY LenProperties
<1>2. CASE Len(q) = n
  <2>1. q # <<>>
    BY <1>2, EmptySeq
  <2>2. Tail(q) \in Seq(S) /\ Len(Tail(q)) = n - 1 /\ \A i \in 1..Len(Tail(q)) : Tail(q)[i] = q[i + 1]
    BY <2>1, <1>2, HeadTailProperties
  <2>3. /\ Append(Tail(q), x) \in Seq(S) /\ Len(Append(Tail(q), x)) = n
        /\ \A i \in 1..Len(Tail(q)) : Append(Tail(q), x)[i] = Tail(q)[i]
        /\ Append(Tail(q), x)[n] = x
    BY <2>2, <1>2, AppendProperties
  <2>4. \A i \in 1..(n - 1) : i + 1 \in DOMAIN q /\ Append(Tail(q), x)[i] = q[i + 1]
    BY <2>2, <2>3, <1>1, <1>2
  <2>. QED
    BY <2>3, <2>4, <1>2
<1>3. CASE Len(q) # n
  <2>1. /\ Append(q, x) \in Seq(S) /\ Len(Append(q, x)) = Len(q) + 1
        /\ \A i \in 1..Len(q) : Append(q, x)[i] = q[i]
        /\ Append(q, x)[Len(q) + 1] = x
    BY AppendProperties
  <2>2. (IF Len(q) = n THEN Tail(q) ELSE q) = q
    BY <1>3
  <2>3. Len(q) + 1 \in 1..n
    <3>1. \A k \in Nat : k <= n /\ k # n => k + 1 \in 1..n
      OBVIOUS
    <3>. QED
      BY <3>1, <1>1, <1>3
  <2>4. \A i \in 1..(Len(q) + 1 - 1) : i \in DOMAIN q
    BY <1>1
  <2>5. Len(Append(q, x)) - 1 = Len(q)
    BY <2>1, <1>1
  <2>. QED
    BY <2>1, <2>2, <2>3, <2>4, <2>5, <1>1, <1>3
<1>. QED
  BY <1>2, <1>3

--------------------------------------------------------------------------------
\* A later clock leaves what was seen within it.
LEMMA ClockRuns ==
  ASSUME TrackingTypeOK, clock' \in Nat, clock <= clock', UNCHANGED <<trackerVars, anchor, sinkVars, traceVars>>
  PROVE  /\ lastUpdate' \in 0..clock' /\ lastSeen' \in [Ids -> 0..clock'] /\ anchor' \in [Ids -> 0..clock']
         /\ looks' \subseteq (1..minted') \X (0..clock')
<1>1. clock \in Nat /\ 0..clock \subseteq 0..clock'
  BY DEF TrackingTypeOK
<1>2. lastUpdate \in 0..clock /\ lastSeen \in [Ids -> 0..clock] /\ anchor \in [Ids -> 0..clock]
      /\ looks \subseteq (1..minted) \X (0..clock)
  BY DEF TrackingTypeOK
<1>3. lastUpdate' = lastUpdate /\ lastSeen' = lastSeen /\ anchor' = anchor /\ looks' = looks /\ minted' = minted
  BY DEF trackerVars, traceVars
<1>. QED
  BY <1>1, <1>2, <1>3

\* A frame is handed in, with or without room for it (tracking.py, submit).
LEMMA Submits == ASSUME TrackInv, Submit PROVE TrackInv'
<1>0. TrackingTypeOK /\ TimeInv /\ trackBudget' \in TrackBudgetTypes
  BY TrackSpent DEF TrackInv, Submit
<1>1. PICK gap \in Gaps, n \in 1..trackBudget.crowd :
        /\ clock' = clock + gap
        /\ frames' = Append(IF Len(frames) = FrameQueue THEN Tail(frames) ELSE frames,
                            [ts |-> clock', found |-> n, era |-> era])
  BY DEF Submit
<1>2. UNCHANGED <<trackerVars, anchor, worker, sinkVars, traceVars>>
  BY DEF Submit
<1>3. clock \in Nat /\ clock' \in Nat /\ clock < clock' /\ era \in Nat /\ n \in Nat
  <2>1. clock \in Nat /\ era \in Nat /\ trackBudget.crowd \in Nat
    BY <1>0 DEF TrackingTypeOK, TrackBudgetTypes
  <2>. QED
    BY <1>1, <2>1, TrackSizes
<1>. DEFINE young == [ts |-> clock', found |-> n, era |-> era]
<1>4. young \in Waits /\ young.ts = clock' /\ young.era = era
  BY <1>3 DEF Waits
<1>5. frames \in Seq(Waits) /\ Len(frames) <= FrameQueue /\ DOMAIN frames = 1..Len(frames) /\ Len(frames) \in Nat
  BY <1>0, LenProperties DEF TrackingTypeOK
<1>. HIDE DEF young
<1>6. /\ frames' \in Seq(Waits) /\ Len(frames') \in 1..FrameQueue /\ frames'[Len(frames')] = young
      /\ \E d \in {0, 1} : \A i \in 1..(Len(frames') - 1) : i + d \in DOMAIN frames /\ frames'[i] = frames[i + d]
  <2>. DEFINE r == Append(IF Len(frames) = FrameQueue THEN Tail(frames) ELSE frames, young)
  <2>0. /\ r \in Seq(Waits) /\ Len(r) \in 1..FrameQueue /\ r[Len(r)] = young
        /\ Len(frames) = FrameQueue => \A i \in 1..(Len(r) - 1) : i + 1 \in DOMAIN frames /\ r[i] = frames[i + 1]
        /\ Len(frames) # FrameQueue => \A i \in 1..(Len(r) - 1) : i \in DOMAIN frames /\ r[i] = frames[i]
    <3>1. FrameQueue \in Nat /\ FrameQueue > 0 /\ frames \in Seq(Waits) /\ Len(frames) <= FrameQueue /\ young \in Waits
      BY <1>4, <1>5, TrackSizes
    <3>. HIDE DEF r
    <3>2. \A q \in Seq(Waits), n1 \in Nat : n1 > 0 /\ Len(q) <= n1 =>
            LET e == Append(IF Len(q) = n1 THEN Tail(q) ELSE q, young) IN
            /\ e \in Seq(Waits) /\ Len(e) \in 1..n1 /\ e[Len(e)] = young
            /\ Len(q) = n1 => \A i \in 1..(Len(e) - 1) : i + 1 \in DOMAIN q /\ e[i] = q[i + 1]
            /\ Len(q) # n1 => \A i \in 1..(Len(e) - 1) : i \in DOMAIN q /\ e[i] = q[i]
      BY <3>1, QueueKeeps
    <3>. QED
      BY <3>1, <3>2 DEF r
  <2>1. frames' = r
    BY <1>1 DEF young
  <2>. HIDE DEF r
  <2>2. /\ frames' \in Seq(Waits) /\ Len(frames') \in 1..FrameQueue /\ frames'[Len(frames')] = young
        /\ Len(frames) = FrameQueue => \A i \in 1..(Len(frames') - 1) : i + 1 \in DOMAIN frames /\ frames'[i] = frames[i + 1]
        /\ Len(frames) # FrameQueue => \A i \in 1..(Len(frames') - 1) : i \in DOMAIN frames /\ frames'[i] = frames[i]
    BY <2>0, <2>1
  <2>3. \A i \in 1..(Len(frames') - 1) : i + 0 = i
    BY <2>2
  <2>. QED
    BY <2>2, <2>3
<1>7. DOMAIN frames' = 1..Len(frames') /\ Len(frames') \in Nat
  BY <1>6, LenProperties
<1>8. PICK d \in {0, 1} : \A i \in 1..(Len(frames') - 1) : i + d \in DOMAIN frames /\ frames'[i] = frames[i + d]
  BY <1>6
<1>9. \A i \in DOMAIN frames' :
         \/ i = Len(frames') /\ frames'[i] = young
         \/ i \in 1..(Len(frames') - 1) /\ i + d \in DOMAIN frames /\ frames'[i] = frames[i + d]
  BY <1>6, <1>7, <1>8
<1>10. worker' = worker /\ looks' = looks /\ era' = era
  BY <1>2 DEF traceVars
<1>11. TimeInv'
  <2>1. \A i \in DOMAIN frames : frames[i].ts \in Nat /\ frames[i].ts <= clock
    <3>1. \A i \in DOMAIN frames : frames[i] \in Waits
      BY <1>5, LenProperties
    <3>. QED
      BY <1>0, <3>1 DEF TimeInv, Waits
  <2>2. worker.ts \in Nat /\ worker.era \in Nat /\ worker.ts < clock'
    BY <1>0, <1>3, WorkerIs DEF TimeInv, TrackingTypeOK
  <2>3. \A i \in DOMAIN frames' : frames'[i].ts <= clock' /\ frames'[i].era <= era' /\ frames'[i].ts > 0
    BY <1>0, <1>3, <1>4, <1>9, <1>10, <2>1 DEF TimeInv
  <2>4. \A i, j \in DOMAIN frames' : i < j => frames'[i].ts < frames'[j].ts
    <3>. SUFFICES ASSUME NEW i \in DOMAIN frames', NEW j \in DOMAIN frames', i < j PROVE frames'[i].ts < frames'[j].ts
      OBVIOUS
    <3>1. i \in 1..(Len(frames') - 1) /\ i \in Nat /\ j \in Nat
      BY <1>7
    <3>2. i + d \in DOMAIN frames /\ frames'[i] = frames[i + d]
      BY <3>1, <1>8
    <3>3. CASE j = Len(frames')
      BY <3>2, <3>3, <2>1, <1>3, <1>4, <1>6
    <3>4. CASE j \in 1..(Len(frames') - 1)
      <4>1. j + d \in DOMAIN frames /\ frames'[j] = frames[j + d]
        BY <3>4, <1>8
      <4>2. i + d < j + d
        BY <3>1
      <4>. QED
        BY <4>1, <4>2, <3>2, <1>0 DEF TimeInv
    <3>. QED
      BY <3>3, <3>4, <1>7
  <2>5. \A i \in DOMAIN frames' : worker'.ts < frames'[i].ts
    BY <1>0, <1>4, <1>9, <1>10, <2>2 DEF TimeInv
  <2>6. worker'.ts <= clock' /\ worker'.era <= era'
    BY <1>0, <1>3, <1>10, <2>2 DEF TimeInv
  <2>7. \A x \in looks' : \A i \in DOMAIN frames' : x[2] < frames'[i].ts
    <3>1. \A x \in looks : x[2] \in Nat /\ x[2] <= clock
      BY <1>0 DEF TrackingTypeOK
    <3>. QED
      BY <1>0, <1>3, <1>4, <1>9, <1>10, <3>1 DEF TimeInv
  <2>8. (worker'.pc # "idle" => worker'.ts > 0) /\ (worker'.pc # "idle" => \A x \in looks' : x[2] <= worker'.ts)
    BY <1>0, <1>10 DEF TimeInv
  <2>9. /\ Begun' => \A x \in looks' : x[1] \in worker'.todo => x[2] < worker'.ts
        /\ worker'.pc \in {"took", "aging"} => \A x \in looks' : x[2] < worker'.ts
    BY <1>0, <1>10 DEF TimeInv, Begun
  <2>. QED
    BY <2>3, <2>4, <2>5, <2>6, <2>7, <2>8, <2>9 DEF TimeInv
<1>12. TrackingTypeOK'
  <2>1. /\ lastUpdate' \in 0..clock' /\ lastSeen' \in [Ids -> 0..clock'] /\ anchor' \in [Ids -> 0..clock']
        /\ looks' \subseteq (1..minted') \X (0..clock')
    BY <1>0, <1>2, <1>3, ClockRuns
  <2>2. Len(frames') <= FrameQueue
    BY <1>6, TrackSizes
  <2>3. InHand' = InHand
    BY <1>2 DEF InHand
  <2>. QED
    BY <1>0, <1>2, <1>3, <1>6, <2>1, <2>2, <2>3 DEF TrackingTypeOK, trackerVars, sinkVars, traceVars
<1>13. PlaceInv' /\ HandInv' /\ LooksInv' /\ ListedInv' /\ LooksApart' /\ LossesCounted' /\ IsFiniteSet(looks)'
  <2>1. InHand' = InHand
    BY <1>2 DEF InHand
  <2>. QED
    BY <1>2, <2>1 DEF TrackInv, PlaceInv, HandInv, LooksInv, ListedInv, LooksApart, LossesCounted, trackerVars, sinkVars, traceVars
<1>. QED
  BY <1>11, <1>12, <1>13 DEF TrackInv
--------------------------------------------------------------------------------
\* The worker takes the oldest frame.
LEMMA Takes == ASSUME TrackInv, TakeFrame PROVE TrackInv'
<1>0. TrackingTypeOK /\ TimeInv /\ worker = Idle /\ LossesCounted
  BY DEF TrackInv, PlaceInv, TakeFrame
<1>1. frames # <<>> /\ frames' = Tail(frames) /\ UNCHANGED <<clock, trackerVars, anchor, sinkVars, trackBudget, traceVars>>
      /\ worker' = Holding("took", Head(frames), FALSE, {}, {}, {})
  BY DEF TakeFrame
<1>2. frames \in Seq(Waits) /\ DOMAIN frames = 1..Len(frames) /\ Len(frames) \in Nat /\ Len(frames) <= FrameQueue
  BY <1>0, LenProperties DEF TrackingTypeOK
<1>3. /\ Head(frames) \in Waits /\ frames' \in Seq(Waits) /\ Len(frames') = Len(frames) - 1 /\ Head(frames) = frames[1]
      /\ \A i \in 1..Len(frames') : frames'[i] = frames[i + 1]
  BY <1>1, <1>2, HeadTailProperties
<1>4. Len(frames) > 0 /\ 1 \in DOMAIN frames
  BY <1>1, <1>2, EmptySeq
<1>5. DOMAIN frames' = 1..Len(frames')
  BY <1>3, LenProperties
<1>6. \A i \in DOMAIN frames' : i + 1 \in DOMAIN frames /\ 1 < i + 1 /\ frames'[i] = frames[i + 1]
  BY <1>2, <1>3, <1>5
<1>7. /\ worker' \in Workers /\ worker'.pc = "took" /\ worker'.ts = frames[1].ts /\ worker'.era = frames[1].era
      /\ worker'.own = {} /\ worker'.todo = {} /\ worker'.pending = {} /\ worker'.orphan = FALSE
  <2>1. Head(frames).ts \in Nat /\ Head(frames).found \in Nat /\ Head(frames).era \in Nat
    BY <1>3 DEF Waits
  <2>2. {} \in SUBSET Ids /\ FALSE \in BOOLEAN /\ "took" \in {"idle", "took", "aging", "judge", "full"}
    OBVIOUS
  <2>. DEFINE w == Holding("took", Head(frames), FALSE, {}, {}, {})
  <2>3. /\ w \in Workers /\ w.pc = "took" /\ w.ts = Head(frames).ts /\ w.era = Head(frames).era
        /\ w.orphan = FALSE /\ w.own = {} /\ w.todo = {} /\ w.pending = {}
    BY <2>1, <2>2 DEF Holding, Workers
  <2>4. worker' = w
    BY <1>1
  <2>. HIDE DEF w
  <2>. QED
    BY <1>3, <2>3, <2>4
<1>8. worker.own = {} /\ worker.todo = {} /\ worker.pending = {} /\ worker.pc = "idle" /\ InHand = {} /\ InHand' = {}
  BY <1>0, <1>7, IdleIs DEF InHand
<1>9. looks' = looks /\ clock' = clock /\ era' = era /\ listed' = listed /\ lastSeen' = lastSeen /\ lastUpdate' = lastUpdate
      /\ loose' = loose /\ minted' = minted /\ eraOf' = eraOf
  BY <1>1 DEF traceVars, trackerVars
<1>10. TimeInv'
  <2>1. \A i, j \in DOMAIN frames' : i < j => frames'[i].ts < frames'[j].ts
    <3>. SUFFICES ASSUME NEW i \in DOMAIN frames', NEW j \in DOMAIN frames', i < j PROVE frames'[i].ts < frames'[j].ts
      OBVIOUS
    <3>1. i + 1 < j + 1
      BY <1>3, <1>5
    <3>. QED
      BY <3>1, <1>6, <1>0 DEF TimeInv
  <2>2. \A i \in DOMAIN frames' : frames'[i].ts <= clock' /\ frames'[i].era <= era' /\ frames'[i].ts > 0
    BY <1>0, <1>6, <1>9 DEF TimeInv
  <2>3. \A i \in DOMAIN frames' : worker'.ts < frames'[i].ts
    BY <1>0, <1>4, <1>6, <1>7 DEF TimeInv
  <2>4. worker'.ts <= clock' /\ worker'.era <= era' /\ worker'.ts > 0
    BY <1>0, <1>4, <1>7, <1>9 DEF TimeInv
  <2>5. \A x \in looks' : \A i \in DOMAIN frames' : x[2] < frames'[i].ts
    BY <1>0, <1>6, <1>9 DEF TimeInv
  <2>6. \A x \in looks' : x[2] < worker'.ts
    BY <1>0, <1>4, <1>7, <1>9 DEF TimeInv
  <2>7. \A x \in looks' : x[2] <= worker'.ts
    <3>1. \A x \in looks : x[2] \in Nat
      BY <1>0 DEF TrackingTypeOK
    <3>. QED
      BY <3>1, <2>6, <1>7, <1>9, WorkerIs DEF Workers
  <2>. QED
    BY <2>1, <2>2, <2>3, <2>4, <2>5, <2>6, <2>7 DEF TimeInv, Begun
<1>11. TrackingTypeOK'
  <2>1. Len(frames') <= FrameQueue
    BY <1>2, <1>3, TrackSizes
  <2>. QED
    BY <1>0, <1>1, <1>3, <1>7, <1>8, <2>1 DEF TrackingTypeOK, trackerVars, sinkVars, traceVars
<1>12. PlaceInv'
  BY <1>7 DEF PlaceInv
<1>13. HandInv' /\ LooksInv' /\ ListedInv' /\ LooksApart' /\ IsFiniteSet(looks)'
  BY <1>1, <1>7, <1>8 DEF TrackInv, HandInv, LooksInv, ListedInv, LooksApart, trackerVars, sinkVars, traceVars
<1>14. LossesCounted'
  <2>1. worker'.pending = worker.pending
    BY <1>7, <1>8
  <2>. QED
    BY <1>0, <1>1, <2>1 DEF LossesCounted, sinkVars, traceVars
<1>. QED
  BY <1>10, <1>11, <1>12, <1>13, <1>14 DEF TrackInv

--------------------------------------------------------------------------------
\* The gate is reset: the worker's frame is orphaned and the list emptied.
LEMMA Resets == ASSUME TrackInv, ResetGate PROVE TrackInv'
<1>0. TrackingTypeOK /\ TimeInv /\ PlaceInv /\ HandInv /\ LooksInv /\ LossesCounted /\ worker \in Workers
      /\ trackBudget' \in TrackBudgetTypes
  BY TrackSpent DEF TrackInv, ResetGate, TrackingTypeOK
<1>1. /\ listed' = {} /\ anchor' = Forgotten(listed) /\ era' = era + 1
      /\ loose' = loose \cup InHand \cup (IF worker.pc = "took" THEN listed ELSE {})
      /\ UNCHANGED <<clock, frames, minted, lastSeen, sinkVars, looks, eraOf, lastUpdate>>
  BY DEF ResetGate, frameVars
<1>2. PICK w \in Workers :
        /\ worker' = w /\ w.pc = worker.pc /\ w.ts = worker.ts /\ w.era = worker.era /\ w.todo = worker.todo /\ w.pending = worker.pending
        /\ w = worker \/ (worker.pc = "took" /\ w.orphan /\ w.own = listed)
  <2>1. CASE worker.pc = "took" /\ ~worker.orphan
    <3>0. minted \in 0..MaxIds /\ listed \subseteq 1..minted
      BY <1>0 DEF TrackingTypeOK
    <3>1. worker.todo = {} /\ worker.pending = {} /\ listed \subseteq Ids
      <4>1. 1..minted \subseteq Ids
        BY <3>0, TrackSizes DEF Ids
      <4>2. worker.todo = {} /\ worker.pending = {}
        BY <2>1, <1>0 DEF PlaceInv
      <4>. QED
        BY <3>0, <4>1, <4>2
    <3>2. worker' = Holding("took", worker, TRUE, listed, {}, {})
      BY <2>1 DEF ResetGate
    <3>3. LET w == Holding("took", worker, TRUE, listed, {}, {}) IN
          /\ w \in Workers /\ w.pc = "took" /\ w.ts = worker.ts /\ w.era = worker.era /\ w.orphan = TRUE /\ w.own = listed
          /\ w.todo = {} /\ w.pending = {}
      <4>1. /\ worker.ts \in Nat /\ worker.found \in Nat /\ worker.era \in Nat
            /\ {} \in SUBSET Ids /\ listed \in SUBSET Ids /\ TRUE \in BOOLEAN
        BY <1>0, <3>1, WorkerIs
      <4>. QED
        BY <4>1 DEF Holding, Workers
    <3>. QED
      BY <2>1, <3>1, <3>2, <3>3
  <2>2. CASE ~(worker.pc = "took" /\ ~worker.orphan)
    BY <2>2, <1>0 DEF ResetGate
  <2>. QED
    BY <2>1, <2>2
<1>3. InHand' \subseteq loose' /\ InHand' \subseteq 1..minted
  BY <1>0, <1>1, <1>2 DEF InHand, TrackingTypeOK
<1>4. TimeInv'
  <2>1. era \in Nat /\ worker.era \in Nat /\ \A n \in Nat : n <= era => n <= era + 1
    BY <1>0, WorkerIs DEF TrackingTypeOK
  <2>2. \A i \in DOMAIN frames : frames[i].era \in Nat
    <3>1. \A i \in DOMAIN frames : frames[i] \in Waits
      BY <1>0, LenProperties DEF TrackingTypeOK
    <3>. QED
      BY <3>1 DEF Waits
  <2>3. \A i \in DOMAIN frames : frames[i].era <= era'
    BY <1>0, <1>1, <2>1, <2>2 DEF TimeInv
  <2>4. worker.era <= era'
    BY <1>0, <1>1, <2>1 DEF TimeInv
  <2>. QED
    BY <1>0, <1>1, <1>2, <2>3, <2>4 DEF TimeInv, Begun
<1>5. TrackingTypeOK'
  <2>1. era' \in Nat /\ eraOf' \in [Ids -> 0..era']
    <3>1. era \in Nat /\ eraOf \in [Ids -> 0..era]
      BY <1>0 DEF TrackingTypeOK
    <3>2. 0..era \subseteq 0..(era + 1)
      BY <3>1
    <3>. QED
      BY <1>1, <3>1, <3>2
  <2>2. anchor' \in [Ids -> 0..clock']
    BY <1>0, <1>1 DEF TrackingTypeOK, Forgotten
  <2>3. listed' \cup InHand' \cup loose' \subseteq 1..minted'
    BY <1>0, <1>1, <1>3 DEF TrackingTypeOK
  <2>4. Cardinality(listed') <= MaxTracks
    BY <1>1, FS_EmptySet, TrackSizes
  <2>. QED
    BY <1>0, <1>1, <1>2, <2>1, <2>2, <2>3, <2>4 DEF TrackingTypeOK, sinkVars
<1>6. PlaceInv'
  <2>1. worker.pc = "idle" => worker' = Idle
    BY <1>0, <1>2 DEF PlaceInv
  <2>2. worker'.pc = "aging" => Cardinality(worker'.own) <= MaxTracks
    BY <1>0, <1>2 DEF PlaceInv
  <2>. QED
    BY <1>0, <1>1, <1>2, <2>1, <2>2 DEF PlaceInv
<1>7. HandInv'
  <2>1. \A t \in Ids \ loose' : anchor'[t] = 0
    BY <1>0, <1>1 DEF HandInv, Forgotten
  <2>. QED
    BY <1>3, <2>1 DEF HandInv
<1>8. LooksInv' /\ ListedInv'
  BY <1>0, <1>1 DEF LooksInv, ListedInv, Forgotten
<1>9. LooksApart' /\ IsFiniteSet(looks)'
  BY <1>1 DEF TrackInv, LooksApart
<1>10. LossesCounted'
  BY <1>0, <1>1, <1>2 DEF LossesCounted, sinkVars
<1>. QED
  BY <1>4, <1>5, <1>6, <1>7, <1>8, <1>9, <1>10 DEF TrackInv
--------------------------------------------------------------------------------
\* What Associate does, once it has chosen.
Associates(mine, new, shown, K, again, trimmed) ==
  /\ minted' \in minted .. MaxIds /\ new = minted + 1 .. minted'
  /\ shown \subseteq mine \cup new /\ K \subseteq mine \cup new /\ new \subseteq shown
  /\ Cardinality(K) <= MaxTracks /\ trimmed = (mine \cup new) \ K
  /\ mine = (IF worker.orphan THEN worker.own ELSE listed)
  /\ again = (worker.orphan /\ K = mine \cup new)
  /\ lastSeen' = [t \in Ids |-> IF t \in shown THEN worker.ts ELSE lastSeen[t]]
  /\ eraOf' = [t \in Ids |-> IF t \in shown THEN worker.era ELSE eraOf[t]]
  /\ listed' = (IF again THEN {} ELSE K)
  /\ anchor' = Forgotten(trimmed)
  /\ worker' = WorkerAt("aging", IF again THEN {} ELSE K, shown, {})
  /\ loose' = loose \cup trimmed \cup (IF worker.orphan \/ worker.era < era THEN mine \cup shown ELSE {})

\* A trimmed list holds no more than the limit.
LEMMA TrimsBound ==
  ASSUME NEW tracks, NEW seen, NEW K \in Trims(tracks, seen)
  PROVE  K \subseteq tracks /\ Cardinality(K) <= MaxTracks
<1>1. CASE Cardinality(tracks) <= MaxTracks
  BY <1>1 DEF Trims
<1>2. CASE ~(Cardinality(tracks) <= MaxTracks)
  BY <1>2, TrackSizes DEF Trims
<1>. QED
  BY <1>1, <1>2

\* The identities given so far are identities.
LEMMA IdsUpTo == ASSUME TrackingTypeOK PROVE 1..minted \subseteq Ids /\ minted \in Nat
<1>1. minted \in 0..MaxIds
  BY DEF TrackingTypeOK
<1>. QED
  BY <1>1, TrackSizes DEF Ids

\* What the association picks: who continues, who is new, who is kept and who is trimmed.
LEMMA Chosen ==
  ASSUME TrackInv, Associate
  PROVE  \E mine, new, shown, K, again, trimmed : Associates(mine, new, shown, K, again, trimmed)
<1>. DEFINE mine == IF worker.orphan THEN worker.own ELSE listed
<1>0. TrackingTypeOK /\ worker \in Workers /\ worker.pc = "took"
  BY DEF TrackInv, TrackingTypeOK, Associate
<1>1. PICK M \in Claims(mine, worker.found) :
       LET new == minted + 1 .. minted + worker.found - Cardinality(M)
           shown == M \cup new IN
       /\ new \subseteq Ids
       /\ minted' = minted + Cardinality(new)
       /\ lastSeen' = [t \in Ids |-> IF t \in shown THEN worker.ts ELSE lastSeen[t]]
       /\ eraOf' = [t \in Ids |-> IF t \in shown THEN worker.era ELSE eraOf[t]]
       /\ \E K \in Trims(mine \cup new, lastSeen') :
            LET again == worker.orphan /\ K = mine \cup new
                trimmed == (mine \cup new) \ K IN
            /\ listed' = IF again THEN {} ELSE K
            /\ anchor' = Forgotten(trimmed)
            /\ worker' = WorkerAt("aging", IF again THEN {} ELSE K, shown, {})
            /\ loose' = loose \cup trimmed
                        \cup (IF worker.orphan \/ worker.era < era THEN mine \cup shown ELSE {})
  BY DEF Associate
<1>. DEFINE new == minted + 1 .. minted + worker.found - Cardinality(M)
            shown == M \cup new
<1>2. PICK K \in Trims(mine \cup new, lastSeen') :
            LET again == worker.orphan /\ K = mine \cup new
                trimmed == (mine \cup new) \ K IN
            /\ listed' = IF again THEN {} ELSE K
            /\ anchor' = Forgotten(trimmed)
            /\ worker' = WorkerAt("aging", IF again THEN {} ELSE K, shown, {})
            /\ loose' = loose \cup trimmed
                        \cup (IF worker.orphan \/ worker.era < era THEN mine \cup shown ELSE {})
  BY <1>1
<1>3. /\ new \subseteq Ids /\ minted' = minted + Cardinality(new)
      /\ lastSeen' = [t \in Ids |-> IF t \in shown THEN worker.ts ELSE lastSeen[t]]
      /\ eraOf' = [t \in Ids |-> IF t \in shown THEN worker.era ELSE eraOf[t]]
  BY <1>1
<1>. DEFINE again == worker.orphan /\ K = mine \cup new
            trimmed == (mine \cup new) \ K
<1>4. minted \in Nat /\ minted <= MaxIds /\ 1..minted \subseteq Ids /\ worker.found \in Nat
  <2>1. minted \in 0..MaxIds
    BY <1>0 DEF TrackingTypeOK
  <2>. QED
    BY <1>0, <2>1, IdsUpTo, WorkerIs, TrackSizes
<1>5. mine \subseteq 1..minted
  BY <1>0 DEF TrackingTypeOK, InHand
<1>6. M \subseteq mine /\ Cardinality(M) <= worker.found
  BY <1>1 DEF Claims
<1>7. Cardinality(M) \in Nat
  <2>1. IsFiniteSet(1..minted)
    BY <1>4, FS_Interval
  <2>. QED
    BY <2>1, <1>5, <1>6, FS_Subset, FS_CardinalityType
<1>8. minted' \in minted .. MaxIds /\ new = minted + 1 .. minted'
  <2>. DEFINE k == worker.found - Cardinality(M)
  <2>1. k \in Nat
    BY <1>4, <1>6, <1>7
  <2>2. new = minted + 1 .. minted + k
    BY <1>4, <1>7
  <2>3. Cardinality(new) = k
    <3>. HIDE DEF k, new
    <3>1. minted + 1 \in Int /\ minted + k \in Int
      BY <1>4, <2>1
    <3>2. Cardinality(minted + 1 .. minted + k) = IF minted + 1 > minted + k THEN 0 ELSE (minted + k) - (minted + 1) + 1
      BY <3>1, FS_Interval
    <3>. QED
      BY <2>1, <2>2, <3>2, <1>4
  <2>4. minted + k <= MaxIds
    <3>1. CASE k = 0
      BY <3>1, <1>4
    <3>2. CASE k # 0
      <4>1. minted + k \in new
        BY <2>1, <2>2, <3>2, <1>4
      <4>. QED
        BY <4>1, <1>3, <1>4 DEF Ids
    <3>. QED
      BY <3>1, <3>2
  <2>. HIDE DEF k, new
  <2>. QED
    BY <1>3, <1>4, <2>1, <2>2, <2>3, <2>4, TrackSizes
<1>9. K \subseteq mine \cup new /\ Cardinality(K) <= MaxTracks
  BY <1>2, TrimsBound
<1>10. mine = (IF worker.orphan THEN worker.own ELSE listed)
  OBVIOUS
<1>11. shown \subseteq mine \cup new /\ new \subseteq shown
  BY <1>6
<1>. HIDE DEF mine, new, shown
<1>12. Associates(mine, new, shown, K, again, trimmed)
  BY <1>2, <1>3, <1>8, <1>9, <1>10, <1>11 DEF Associates
<1>. QED
  BY <1>12

\* The association keeps the invariant, and a track that goes on is the same one.
LEMMA AssociatesHolds == ASSUME TrackInv, Associate PROVE TrackInv' /\ ContinuesSame
<1>0. /\ TrackingTypeOK /\ TimeInv /\ PlaceInv /\ HandInv /\ LooksInv /\ ListedInv /\ LooksApart /\ LossesCounted
      /\ worker \in Workers /\ worker.pc = "took" /\ minted \in Nat
      /\ UNCHANGED <<frameVars, sinkVars, trackBudget, looks, era, lastUpdate>>
  BY IdsUpTo DEF TrackInv, TrackingTypeOK, Associate
<1>1. PICK mine, new, shown, K, again, trimmed : Associates(mine, new, shown, K, again, trimmed)
  BY Chosen
<1>2. minted' \in Nat /\ minted <= minted' /\ minted' <= MaxIds /\ new = minted + 1 .. minted' /\ 1..minted' \subseteq Ids
  BY <1>0, <1>1, TrackSizes DEF Associates, Ids
<1>3. mine \subseteq 1..minted /\ mine \subseteq 1..minted' /\ new \subseteq 1..minted' /\ mine \cap new = {}
  <2>1. mine \subseteq 1..minted
    BY <1>0, <1>1 DEF Associates, TrackingTypeOK, InHand
  <2>. QED
    BY <2>1, <1>0, <1>2
<1>4. shown \subseteq Ids /\ K \subseteq Ids /\ shown \subseteq 1..minted' /\ K \subseteq 1..minted' /\ trimmed \subseteq 1..minted'
  <2>1. shown \subseteq mine \cup new /\ K \subseteq mine \cup new /\ trimmed = (mine \cup new) \ K
    BY <1>1 DEF Associates
  <2>. QED
    BY <1>2, <1>3, <2>1
<1>5. /\ worker' \in Workers /\ worker'.pc = "aging" /\ worker'.ts = worker.ts /\ worker'.era = worker.era
      /\ worker'.own = listed' /\ worker'.todo = shown /\ worker'.pending = {}
  <2>. DEFINE own == IF again THEN {} ELSE K
  <2>1. own \in SUBSET Ids /\ shown \in SUBSET Ids /\ {} \in SUBSET Ids
        /\ worker' = WorkerAt("aging", own, shown, {}) /\ listed' = own
    BY <1>1, <1>4 DEF Associates
  <2>2. LET w == WorkerAt("aging", own, shown, {}) IN
        /\ w \in Workers /\ w.pc = "aging" /\ w.ts = worker.ts /\ w.era = worker.era
        /\ w.own = own /\ w.todo = shown /\ w.pending = {}
    <3>. HIDE DEF own
    <3>. QED
      BY <1>0, <2>1, WorkerAtIs
  <2>. HIDE DEF own
  <2>. QED
    BY <2>1, <2>2
<1>6. /\ looks' = looks /\ clock' = clock /\ era' = era /\ lastUpdate' = lastUpdate /\ frames' = frames
      /\ observations' = observations /\ sender' = sender /\ tally' = tally /\ trackBudget' = trackBudget
  BY <1>0 DEF frameVars, sinkVars
<1>7. /\ lastSeen' = [t \in Ids |-> IF t \in shown THEN worker.ts ELSE lastSeen[t]]
      /\ eraOf' = [t \in Ids |-> IF t \in shown THEN worker.era ELSE eraOf[t]]
      /\ anchor' = [t \in Ids |-> IF t \in trimmed THEN 0 ELSE anchor[t]]
  BY <1>1 DEF Associates, Forgotten
<1>8. /\ again = (worker.orphan /\ K = mine \cup new) /\ trimmed = (mine \cup new) \ K
      /\ listed' = (IF again THEN {} ELSE K)
      /\ loose' = loose \cup trimmed \cup (IF worker.orphan \/ worker.era < era THEN mine \cup shown ELSE {})
      /\ shown \subseteq mine \cup new /\ K \subseteq mine \cup new /\ new \subseteq shown /\ Cardinality(K) <= MaxTracks
  BY <1>1 DEF Associates
<1>9. mine = (IF worker.orphan THEN worker.own ELSE listed)
  BY <1>1 DEF Associates
<1>10. \A t \in (mine \cup new) \ loose' : ~worker.orphan /\ worker.era = era /\ (t \in mine => t \in listed \ loose)
  <2>. SUFFICES ASSUME NEW t \in (mine \cup new) \ loose'
                PROVE  ~worker.orphan /\ worker.era = era /\ (t \in mine => t \in listed \ loose)
    OBVIOUS
  <2>1. t \notin loose /\ (worker.orphan \/ worker.era < era => t \notin mine \cup shown)
    BY <1>8
  <2>2. ~(worker.orphan \/ worker.era < era)
    BY <1>8, <2>1
  <2>3. worker.era <= era /\ worker.era \in Nat /\ era \in Nat
    BY <1>0, WorkerIs DEF TimeInv, TrackingTypeOK
  <2>. QED
    BY <2>1, <2>2, <2>3, <1>9
<1>11. TimeInv'
  BY <1>0, <1>5, <1>6 DEF TimeInv, Begun
<1>12. TrackingTypeOK'
  <2>1. worker.ts \in 0..clock /\ worker.era \in 0..era
    BY <1>0, WorkerIs DEF TimeInv, TrackingTypeOK
  <2>2. lastSeen' \in [Ids -> 0..clock'] /\ eraOf' \in [Ids -> 0..era'] /\ anchor' \in [Ids -> 0..clock']
    <3>1. lastSeen \in [Ids -> 0..clock] /\ eraOf \in [Ids -> 0..era] /\ anchor \in [Ids -> 0..clock] /\ clock \in Nat
      BY <1>0 DEF TrackingTypeOK
    <3>2. 0 \in 0..clock
      BY <3>1
    <3>. QED
      BY <1>6, <1>7, <2>1, <3>1, <3>2
  <2>3. listed' \cup InHand' \cup loose' \subseteq 1..minted'
    <3>1. listed' \subseteq 1..minted' /\ InHand' \subseteq 1..minted'
      BY <1>4, <1>5, <1>8 DEF InHand
    <3>2. loose \subseteq 1..minted
      BY <1>0 DEF TrackingTypeOK
    <3>3. loose \subseteq 1..minted'
      BY <3>2, <1>0, <1>2
    <3>. QED
      BY <1>3, <1>4, <1>8, <3>1, <3>3
  <2>4. Cardinality(listed') <= MaxTracks
    BY <1>8, FS_EmptySet, TrackSizes
  <2>5. looks' \subseteq (1..minted') \X (0..clock')
    <3>1. looks \subseteq (1..minted) \X (0..clock)
      BY <1>0 DEF TrackingTypeOK
    <3>2. 1..minted \subseteq 1..minted'
      BY <1>0, <1>2
    <3>. QED
      BY <1>6, <3>1, <3>2
  <2>6. minted' \in 0..MaxIds
    BY <1>2, TrackSizes
  <2>. QED
    BY <1>0, <1>5, <1>6, <2>2, <2>3, <2>4, <2>5, <2>6 DEF TrackingTypeOK
<1>13. PlaceInv'
  <2>1. Cardinality(worker'.own) <= MaxTracks
    BY <1>5, <1>8, FS_EmptySet, TrackSizes
  <2>2. \A t \in worker'.todo : lastSeen'[t] = worker'.ts
    BY <1>4, <1>5, <1>7
  <2>. QED
    BY <1>5, <2>1, <2>2 DEF PlaceInv
<1>14. HandInv'
  <2>1. InHand' \subseteq listed' \cup loose'
    BY <1>5, <1>8 DEF InHand
  <2>2. ASSUME NEW t \in Ids \ loose', anchor'[t] # 0
        PROVE  t \in listed'
    <3>1. t \notin trimmed /\ anchor[t] # 0
      BY <2>2, <1>7
    <3>2. t \in listed
      BY <3>1, <2>2, <1>8, <1>0 DEF HandInv
    <3>3. ~worker.orphan
      BY <3>2, <1>0 DEF PlaceInv
    <3>. QED
      BY <3>1, <3>2, <3>3, <1>8, <1>9
  <2>. QED
    BY <2>1, <2>2 DEF HandInv
<1>15. LooksInv'
  <2>1. ASSUME NEW t \in listed' \ loose', NEW x \in looks', x[1] = t
        PROVE  anchor'[t] # 0 /\ x[2] <= anchor'[t]
    <3>1. t \in K /\ t \in mine \cup new /\ t \in Ids /\ anchor'[t] = anchor[t]
      BY <2>1, <1>4, <1>7, <1>8
    <3>2. x[1] \in 1..minted
      BY <2>1, <1>0, <1>6 DEF TrackingTypeOK
    <3>3. t \notin new
      BY <2>1, <3>2, <1>0, <1>2
    <3>4. t \in listed \ loose
      BY <2>1, <3>1, <3>3, <1>10
    <3>. QED
      BY <2>1, <3>1, <3>4, <1>0, <1>6 DEF LooksInv
  <2>2. \A t \in Ids : t > minted' => anchor'[t] = 0 /\ lastSeen'[t] = 0
    <3>. SUFFICES ASSUME NEW t \in Ids, t > minted' PROVE anchor'[t] = 0 /\ lastSeen'[t] = 0
      OBVIOUS
    <3>1. t > minted /\ t \notin shown
      BY <1>0, <1>2, <1>4 DEF Ids
    <3>. QED
      BY <3>1, <1>0, <1>7 DEF LooksInv
  <2>. QED
    BY <2>1, <2>2 DEF LooksInv
<1>16. ListedInv'
  <2>1. ASSUME NEW t \in listed' \ loose' PROVE eraOf'[t] = era'
    <3>1. t \in mine \cup new /\ t \in Ids
      BY <2>1, <1>4, <1>8
    <3>2. worker.era = era /\ (t \in mine => t \in listed \ loose)
      BY <2>1, <3>1, <1>10
    <3>3. CASE t \in shown
      BY <3>1, <3>2, <3>3, <1>6, <1>7
    <3>4. CASE t \notin shown
      <4>1. t \in listed \ loose
        BY <3>1, <3>2, <3>4, <1>8
      <4>. QED
        BY <3>1, <3>4, <4>1, <1>0, <1>6, <1>7 DEF ListedInv
    <3>. QED
      BY <3>3, <3>4
  <2>. QED
    BY <2>1, <1>5 DEF ListedInv
<1>17. LooksApart' /\ IsFiniteSet(looks)'
  BY <1>6, <1>8 DEF TrackInv, LooksApart
<1>18. LossesCounted'
  <2>1. worker.pending = {} /\ worker'.pending = {}
    BY <1>0, <1>5 DEF PlaceInv
  <2>. QED
    BY <1>0, <1>6, <2>1 DEF LossesCounted
<1>19. ContinuesSame
  <2>. SUFFICES ASSUME NEW t \in Ids, TrackContinued(t), t \notin loose'
                PROVE  eraOf'[t] = eraOf[t] /\ lastUpdate - lastSeen[t] <= MaxAge
    BY DEF ContinuesSame
  <2>1. t \in shown /\ lastSeen[t] # 0
    BY <1>7 DEF TrackContinued
  <2>2. t \notin new
    BY <2>1, <1>0, <1>2 DEF LooksInv
  <2>3. worker.era = era /\ t \in listed \ loose
    BY <2>1, <2>2, <1>8, <1>10
  <2>. QED
    BY <2>1, <2>3, <1>0, <1>7 DEF ListedInv
<1>. QED
  BY <1>11, <1>12, <1>13, <1>14, <1>15, <1>16, <1>17, <1>18, <1>19 DEF TrackInv
--------------------------------------------------------------------------------
\* Tracks that have not been seen for too long are dropped.
LEMMA AgesOut == ASSUME TrackInv, AgeOut PROVE TrackInv'
<1>. DEFINE keep == {t \in worker.own : Young(t)}
<1>0. /\ TrackingTypeOK /\ TimeInv /\ PlaceInv /\ HandInv /\ LooksInv /\ ListedInv /\ LooksApart /\ LossesCounted
      /\ worker \in Workers /\ worker.pc = "aging"
  BY DEF TrackInv, TrackingTypeOK, AgeOut
<1>1. /\ listed' = keep /\ worker' = WorkerAt("judge", {}, worker.todo, {}) /\ lastUpdate' = worker.ts
      /\ anchor' = [t \in Ids |-> IF t \in worker.own \ keep THEN 0 ELSE anchor[t]]
      /\ UNCHANGED <<frameVars, minted, lastSeen, sinkVars, trackBudget, looks, era, eraOf, loose>>
  BY DEF AgeOut, Forgotten
<1>2. /\ worker.own \subseteq Ids /\ worker.todo \subseteq Ids /\ worker.ts \in 0..clock /\ worker.pending = {}
      /\ listed \subseteq worker.own /\ Cardinality(worker.own) <= MaxTracks
      /\ \A t \in worker.todo : lastSeen[t] = worker.ts
  BY <1>0, WorkerIs DEF PlaceInv, TimeInv, TrackingTypeOK
<1>3. /\ worker' \in Workers /\ worker'.pc = "judge" /\ worker'.ts = worker.ts /\ worker'.era = worker.era
      /\ worker'.own = {} /\ worker'.todo = worker.todo /\ worker'.pending = {}
  <2>1. {} \in SUBSET Ids /\ worker.todo \in SUBSET Ids
    BY <1>2
  <2>2. LET w == WorkerAt("judge", {}, worker.todo, {}) IN
        /\ w \in Workers /\ w.pc = "judge" /\ w.ts = worker.ts /\ w.era = worker.era
        /\ w.own = {} /\ w.todo = worker.todo /\ w.pending = {}
    BY <1>0, <2>1, WorkerAtIs
  <2>. QED
    BY <1>1, <2>2
<1>4. InHand' = worker.todo /\ worker.todo \subseteq InHand /\ worker.own \subseteq InHand
  BY <1>3 DEF InHand
<1>5. /\ looks' = looks /\ clock' = clock /\ era' = era /\ eraOf' = eraOf /\ loose' = loose /\ minted' = minted
      /\ frames' = frames /\ lastSeen' = lastSeen
  BY <1>1 DEF frameVars
<1>6. \A t \in worker.todo \cap worker.own : t \in keep
  <2>1. worker.ts - worker.ts <= MaxAge
    BY <1>2, <1>0, TrackSizes DEF TrackingTypeOK
  <2>. QED
    BY <1>2, <2>1 DEF Young
<1>7. keep \subseteq worker.own /\ worker.own \subseteq listed \cup loose
  BY <1>0, <1>4 DEF HandInv
<1>8. \A t \in keep : worker.ts - lastSeen[t] <= MaxAge
  BY DEF Young
<1>. HIDE DEF keep
<1>9. TimeInv'
  BY <1>0, <1>3, <1>5 DEF TimeInv, Begun
<1>10. TrackingTypeOK'
  <2>1. listed' \cup InHand' \cup loose' \subseteq 1..minted'
    BY <1>0, <1>1, <1>4, <1>5, <1>7 DEF TrackingTypeOK
  <2>2. anchor' \in [Ids -> 0..clock']
    <3>1. anchor \in [Ids -> 0..clock] /\ clock \in Nat
      BY <1>0 DEF TrackingTypeOK
    <3>. QED
      BY <1>1, <1>5, <3>1
  <2>3. Cardinality(listed') <= MaxTracks
    <3>1. IsFiniteSet(1..minted) /\ worker.own \subseteq 1..minted
      <4>1. minted \in Nat
        BY <1>0, IdsUpTo
      <4>. QED
        <5>1. IsFiniteSet(1..minted)
          BY <4>1, FS_Interval
        <5>2. InHand \subseteq 1..minted
          BY <1>0 DEF TrackingTypeOK
        <5>. QED
          BY <5>1, <5>2, <1>4
    <3>2. IsFiniteSet(worker.own)
      BY <3>1, FS_Subset
    <3>3. IsFiniteSet(keep) /\ Cardinality(keep) <= Cardinality(worker.own)
      BY <3>2, <1>7, FS_Subset
    <3>4. Cardinality(keep) \in Nat /\ Cardinality(worker.own) \in Nat
      BY <3>2, <3>3, FS_CardinalityType
    <3>. QED
      BY <3>3, <3>4, <1>1, <1>2, TrackSizes
  <2>. QED
    BY <1>0, <1>1, <1>2, <1>3, <1>5, <2>1, <2>2, <2>3 DEF TrackingTypeOK, sinkVars
<1>11. PlaceInv'
  BY <1>3 DEF PlaceInv
<1>12. HandInv'
  <2>1. \A t \in worker.todo : t \in listed' \cup loose'
    BY <1>0, <1>1, <1>2, <1>4, <1>5, <1>6 DEF HandInv
  <2>2. \A t \in Ids \ loose' : anchor'[t] # 0 => t \in listed'
    BY <1>0, <1>1, <1>2, <1>5 DEF HandInv
  <2>. QED
    BY <1>4, <2>1, <2>2 DEF HandInv
<1>13. LooksInv'
  <2>1. \A t \in listed' \ loose' : t \in listed \ loose /\ anchor'[t] = anchor[t]
    BY <1>1, <1>2, <1>5, <1>7
  <2>2. \A t \in Ids : t > minted' => anchor'[t] = 0 /\ lastSeen'[t] = 0
    BY <1>0, <1>1, <1>5 DEF LooksInv
  <2>. QED
    BY <1>0, <1>5, <2>1, <2>2 DEF LooksInv
<1>14. ListedInv'
  BY <1>0, <1>1, <1>5, <1>7, <1>8 DEF ListedInv
<1>15. LooksApart' /\ IsFiniteSet(looks)' /\ LossesCounted'
  BY <1>0, <1>1, <1>2, <1>3, <1>5 DEF TrackInv, LooksApart, LossesCounted, sinkVars
<1>. QED
  BY <1>9, <1>10, <1>11, <1>12, <1>13, <1>14, <1>15 DEF TrackInv

--------------------------------------------------------------------------------
\* Whether a track is worth a look again.
LEMMA JudgeHolds == ASSUME TrackInv, NEW t \in Ids, Judge(t) PROVE TrackInv'
<1>0. /\ TrackingTypeOK /\ TimeInv /\ PlaceInv /\ HandInv /\ LooksInv /\ ListedInv /\ LooksApart /\ LossesCounted
      /\ worker \in Workers /\ worker.pc = "judge" /\ t \in worker.todo /\ IsFiniteSet(looks)
      /\ UNCHANGED <<frameVars, trackerVars, sinkVars, trackBudget, era, eraOf, lastUpdate, loose>>
  BY DEF TrackInv, TrackingTypeOK, Judge
<1>1. /\ worker.todo \subseteq Ids /\ worker.pending \subseteq Ids /\ worker.ts \in 0..clock /\ worker.ts > 0
      /\ worker.own = {} /\ clock \in Nat
  <2>1. worker.todo \subseteq Ids /\ worker.pending \subseteq Ids
    BY <1>0, WorkerIs
  <2>2. worker.own = {}
    BY <1>0 DEF PlaceInv
  <2>3. clock \in Nat
    BY <1>0 DEF TrackingTypeOK
  <2>4. worker.ts <= clock /\ worker.ts > 0
    BY <1>0 DEF TimeInv
  <2>5. worker.ts \in Nat
    BY <1>0, WorkerIs
  <2>6. worker.ts \in 0..clock
    BY <2>3, <2>4, <2>5
  <2>. QED
    BY <2>1, <2>2, <2>3, <2>4, <2>6
<1>2. /\ frames' = frames /\ clock' = clock /\ minted' = minted /\ listed' = listed /\ lastSeen' = lastSeen
      /\ observations' = observations /\ sender' = sender /\ tally' = tally /\ loose' = loose /\ era' = era
  BY <1>0 DEF frameVars, trackerVars, sinkVars
<1>3. ASSUME NEW more \in SUBSET {t}, worker' = WorkerAt("judge", {}, worker.todo \ {t}, worker.pending \cup more)
      PROVE  /\ worker' \in Workers /\ worker'.pc = "judge" /\ worker'.ts = worker.ts /\ worker'.era = worker.era
             /\ worker'.own = {} /\ worker'.todo = worker.todo \ {t} /\ worker'.pending = worker.pending \cup more
             /\ InHand' \subseteq InHand
  <2>1. {} \in SUBSET Ids /\ worker.todo \ {t} \in SUBSET Ids /\ worker.pending \cup more \in SUBSET Ids
    BY <1>1
  <2>2. LET w == WorkerAt("judge", {}, worker.todo \ {t}, worker.pending \cup more) IN
        /\ w \in Workers /\ w.pc = "judge" /\ w.ts = worker.ts /\ w.era = worker.era
        /\ w.own = {} /\ w.todo = worker.todo \ {t} /\ w.pending = worker.pending \cup more
    BY <1>0, <2>1, WorkerAtIs
  <2>. QED
    BY <1>0, <1>1, <1>3, <2>2 DEF InHand
<1>4. CASE ~FirstSight(t) /\ worker' = WorkerAt("judge", {}, worker.todo \ {t}, worker.pending) /\ UNCHANGED <<anchor, looks>>
  <2>1. worker' = WorkerAt("judge", {}, worker.todo \ {t}, worker.pending \cup {}) /\ {} \in SUBSET {t}
    BY <1>4
  <2>2. /\ worker' \in Workers /\ worker'.pc = "judge" /\ worker'.ts = worker.ts /\ worker'.era = worker.era
        /\ worker'.own = {} /\ worker'.todo = worker.todo \ {t} /\ worker'.pending = worker.pending /\ InHand' \subseteq InHand
    BY <1>3, <2>1
  <2>3. TimeInv' /\ PlaceInv'
    BY <1>0, <1>2, <1>4, <2>2 DEF TimeInv, PlaceInv, Begun
  <2>4. TrackingTypeOK'
    BY <1>0, <1>2, <1>4, <2>2 DEF TrackingTypeOK
  <2>5. HandInv' /\ LooksInv' /\ ListedInv' /\ LooksApart' /\ LossesCounted' /\ IsFiniteSet(looks)'
    BY <1>0, <1>2, <1>4, <2>2 DEF HandInv, LooksInv, ListedInv, LooksApart, LossesCounted
  <2>. QED
    BY <2>3, <2>4, <2>5 DEF TrackInv
<1>5. CASE /\ MayRecord(t)
           /\ anchor' = [anchor EXCEPT ![t] = worker.ts]
           /\ looks' = looks \cup {<<t, worker.ts>>}
           /\ worker' = WorkerAt("judge", {}, worker.todo \ {t}, worker.pending \cup {t})
  <2>1. /\ worker' \in Workers /\ worker'.pc = "judge" /\ worker'.ts = worker.ts /\ worker'.era = worker.era
        /\ worker'.own = {} /\ worker'.todo = worker.todo \ {t} /\ worker'.pending = worker.pending \cup {t}
        /\ InHand' \subseteq InHand
    BY <1>3, <1>5
  <2>. DEFINE look == <<t, worker.ts>>
  <2>2. look[1] = t /\ look[2] = worker.ts /\ looks' = looks \cup {look}
    BY <1>5
  <2>3. look \notin looks /\ \A x \in looks : x[2] <= worker.ts /\ (x[1] = t => x[2] < worker.ts)
    <3>1. \A x \in looks : x[2] <= worker.ts /\ (x[1] = t => x[2] < worker.ts)
      BY <1>0 DEF TimeInv, Begun
    <3>. QED
      BY <2>2, <3>1, <1>1
  <2>4. t \in 1..minted /\ t \in InHand /\ t \in listed \cup loose
    BY <1>0 DEF InHand, HandInv, TrackingTypeOK
  <2>5. anchor'[t] = worker.ts /\ \A u \in Ids \ {t} : anchor'[u] = anchor[u]
    BY <1>0, <1>5 DEF TrackingTypeOK
  <2>6. \A x \in looks : x = <<x[1], x[2]>> /\ x[2] \in 0..clock /\ x[1] \in 1..minted
    BY <1>0 DEF TrackingTypeOK
  <2>. HIDE DEF look
  <2>7. TimeInv'
    <3>1. \A x \in looks' : \A i \in DOMAIN frames : x[2] < frames[i].ts
      BY <1>0, <2>2 DEF TimeInv
    <3>2. \A x \in looks' : x[2] <= worker.ts
      BY <1>1, <2>2, <2>3
    <3>3. \A x \in looks' : x[1] \in worker'.todo => x[2] < worker.ts
      BY <1>0, <2>1, <2>2 DEF TimeInv, Begun
    <3>. QED
      BY <1>0, <1>2, <2>1, <3>1, <3>2, <3>3 DEF TimeInv
  <2>8. TrackingTypeOK'
    <3>1. anchor' \in [Ids -> 0..clock]
      BY <1>0, <1>1, <1>5 DEF TrackingTypeOK
    <3>2. looks' \subseteq (1..minted) \X (0..clock)
      <4>1. looks \subseteq (1..minted) \X (0..clock)
        BY <1>0 DEF TrackingTypeOK
      <4>2. <<t, worker.ts>> \in (1..minted) \X (0..clock)
        BY <1>1, <2>4
      <4>. QED
        BY <1>5, <4>1, <4>2
    <3>. QED
      BY <1>0, <1>2, <2>1, <3>1, <3>2 DEF TrackingTypeOK
  <2>9. PlaceInv'
    <3>1. \A u \in worker'.pending : <<u, worker.ts>> \in looks'
      BY <1>0, <1>5, <2>1 DEF PlaceInv
    <3>. QED
      BY <2>1, <3>1 DEF PlaceInv
  <2>10. HandInv'
    BY <1>0, <1>2, <2>1, <2>4, <2>5 DEF HandInv
  <2>11. LooksInv'
    <3>1. ASSUME NEW u \in listed \ loose, NEW x \in looks', x[1] = u PROVE anchor'[u] # 0 /\ x[2] <= anchor'[u]
      <4>1. CASE u = t
        BY <4>1, <3>1, <1>1, <2>2, <2>3, <2>5
      <4>2. CASE u # t
        <5>1. u \in Ids
          BY <1>0, IdsUpTo DEF TrackingTypeOK
        <5>. QED
          BY <4>2, <5>1, <3>1, <1>0, <2>2, <2>5 DEF LooksInv
      <4>. QED
        BY <4>1, <4>2
    <3>2. \A u \in Ids : u > minted => anchor'[u] = 0 /\ lastSeen[u] = 0
      <4>1. ~(t > minted)
        BY <2>4, <1>0, IdsUpTo
      <4>. QED
        BY <4>1, <1>0, <2>5 DEF LooksInv
    <3>. QED
      BY <1>2, <3>1, <3>2 DEF LooksInv
  <2>12. LooksApart'
    <3>. SUFFICES ASSUME NEW x \in looks', NEW y \in looks', x[1] = y[1], x[2] < y[2], x[1] \notin loose
                  PROVE  y[2] - x[2] >= MinInterval
      BY <1>2 DEF LooksApart
    <3>1. CASE x \in looks /\ y \in looks
      BY <3>1, <1>0 DEF LooksApart
    <3>2. CASE x = look
      BY <3>2, <1>1, <2>2, <2>3, <2>6
    <3>3. CASE x \in looks /\ y = look
      <4>1. x[1] = t /\ t \in listed \ loose /\ y[2] = worker.ts
        BY <3>3, <2>2, <2>4
      <4>2. anchor[t] # 0 /\ x[2] <= anchor[t]
        BY <3>3, <4>1, <1>0 DEF LooksInv
      <4>3. ~(MinInterval > 0 /\ worker.ts - anchor[t] < MinInterval)
        BY <1>5, <4>2 DEF MayRecord, FirstSight, Within
      <4>4. anchor[t] \in Nat /\ x[2] \in Nat /\ worker.ts \in Nat
        BY <1>0, <1>1, <2>6, <3>3 DEF TrackingTypeOK
      <4>. QED
        BY <3>3, <4>1, <4>2, <4>3, <4>4, TrackSizes
    <3>. QED
      BY <2>2, <3>1, <3>2, <3>3
  <2>13. IsFiniteSet(looks') /\ Cardinality(looks') = Cardinality(looks) + 1
    BY <1>0, <2>2, <2>3, FS_AddElement
  <2>14. LossesCounted'
    <3>1. t \notin worker.pending
      BY <1>0, <2>3 DEF PlaceInv, look
    <3>2. IsFiniteSet(Ids)
      BY TrackSizes, FS_Interval DEF Ids
    <3>3. IsFiniteSet(worker.pending)
      BY <1>1, <3>2, FS_Subset
    <3>4. Cardinality(worker'.pending) = Cardinality(worker.pending) + 1 /\ Cardinality(worker.pending) \in Nat
      <4>1. Cardinality(worker.pending \cup {t}) = Cardinality(worker.pending) + 1
        BY <3>1, <3>3, FS_AddElement
      <4>2. Cardinality(worker.pending) \in Nat
        BY <3>3, FS_CardinalityType
      <4>3. worker'.pending = worker.pending \cup {t}
        BY <2>1
      <4>. QED
        BY <4>1, <4>2, <4>3, Zenon
    <3>5. tally.queued \in Nat
      BY <1>0 DEF TrackingTypeOK
    <3>. QED
      BY <1>0, <1>2, <2>13, <3>4, <3>5 DEF LossesCounted
  <2>15. ListedInv'
    BY <1>0, <1>2, <2>1 DEF ListedInv
  <2>. QED
    BY <2>7, <2>8, <2>9, <2>10, <2>11, <2>12, <2>13, <2>14, <2>15 DEF TrackInv
<1>. QED
  BY <1>4, <1>5 DEF Judge
--------------------------------------------------------------------------------
\* The steps by which what was decided goes into the queue.
LEMMA Handing ==
  ASSUME TrackInv, worker.pc \in {"judge", "full"}, UNCHANGED <<frameVars, trackerVars, anchor, traceVars>>,
         worker' \in Workers, worker'.pc \in {"judge", "full"}, worker'.ts = worker.ts, worker'.era = worker.era,
         worker'.own = {}, worker'.pending \subseteq worker.pending,
         worker'.pc = "judge" => worker'.todo = {},
         worker'.pc = "full" => worker'.todo \subseteq worker'.pending
  PROVE  /\ InHand' \subseteq InHand
         /\ TimeInv' /\ PlaceInv' /\ HandInv' /\ LooksInv' /\ ListedInv' /\ LooksApart' /\ IsFiniteSet(looks)'
<1>0. /\ TrackingTypeOK /\ TimeInv /\ PlaceInv /\ HandInv /\ LooksInv /\ ListedInv /\ LooksApart /\ IsFiniteSet(looks)
  BY DEF TrackInv
<1>1. /\ frames' = frames /\ clock' = clock /\ minted' = minted /\ listed' = listed /\ lastSeen' = lastSeen
      /\ looks' = looks /\ era' = era /\ eraOf' = eraOf /\ lastUpdate' = lastUpdate /\ loose' = loose /\ anchor' = anchor
  BY DEF frameVars, trackerVars, traceVars
<1>2. worker'.todo \subseteq worker'.pending
  BY DEF Workers
<1>3. InHand' \subseteq InHand
  BY <1>2 DEF InHand
<1>4. TimeInv'
  <2>1. /\ \A i \in DOMAIN frames : frames[i].ts <= clock /\ frames[i].era <= era /\ frames[i].ts > 0
        /\ \A i, j \in DOMAIN frames : i < j => frames[i].ts < frames[j].ts
        /\ \A i \in DOMAIN frames : worker.ts < frames[i].ts
        /\ worker.ts <= clock /\ worker.era <= era /\ worker.ts > 0
        /\ \A x \in looks : \A i \in DOMAIN frames : x[2] < frames[i].ts
        /\ \A x \in looks : x[2] <= worker.ts
    BY <1>0 DEF TimeInv
  <2>2. Begun' => \A x \in looks' : x[1] \in worker'.todo => x[2] < worker'.ts
    BY DEF Begun
  <2>3. worker'.pc \notin {"took", "aging", "idle"}
    OBVIOUS
  <2>. QED
    BY <1>1, <2>1, <2>2, <2>3 DEF TimeInv
<1>5. PlaceInv'
  BY <1>0, <1>1 DEF PlaceInv
<1>6. HandInv' /\ LooksInv' /\ LooksApart' /\ IsFiniteSet(looks)'
  BY <1>0, <1>1, <1>3 DEF HandInv, LooksInv, LooksApart
<1>7. ListedInv'
  <2>1. worker.pc # "aging"
    OBVIOUS
  <2>. QED
    BY <1>0, <1>1, <2>1 DEF ListedInv
<1>. QED
  BY <1>3, <1>4, <1>5, <1>6, <1>7

\* The worker's record once a look is handed over.
LEMMA HandedIs ==
  ASSUME TrackInv, NEW t \in worker.pending, worker' = Handed(t)
  PROVE  /\ worker' \in Workers /\ worker'.pc = "judge" /\ worker'.ts = worker.ts /\ worker'.era = worker.era
         /\ worker'.own = {} /\ worker'.todo = {} /\ worker'.pending = worker.pending \ {t}
         /\ Cardinality(worker'.pending) = Cardinality(worker.pending) - 1 /\ Cardinality(worker.pending) \in Nat
<1>0. worker \in Workers /\ worker.pending \subseteq Ids
  BY WorkerIs DEF TrackInv, TrackingTypeOK
<1>1. {} \in SUBSET Ids /\ worker.pending \ {t} \in SUBSET Ids
  BY <1>0
<1>2. LET w == WorkerAt("judge", {}, {}, worker.pending \ {t}) IN
      /\ w \in Workers /\ w.pc = "judge" /\ w.ts = worker.ts /\ w.era = worker.era
      /\ w.own = {} /\ w.todo = {} /\ w.pending = worker.pending \ {t}
  BY <1>0, <1>1, WorkerAtIs
<1>3. IsFiniteSet(worker.pending)
  <2>1. IsFiniteSet(Ids)
    BY TrackSizes, FS_Interval DEF Ids
  <2>. QED
    BY <1>0, <2>1, FS_Subset
<1>. QED
  BY <1>2, <1>3, FS_RemoveElement, FS_CardinalityType DEF Handed

\* A look handed over is a record of the queue's kind.
LEMMA LookIs == ASSUME TrackInv, NEW t \in worker.pending PROVE Look(t) \in Observed
<1>1. worker \in Workers
  BY DEF TrackInv, TrackingTypeOK
<1>2. worker.ts \in Nat /\ worker.pending \subseteq Ids
  BY <1>1, WorkerIs
<1>. QED
  BY <1>2 DEF Look, Observed

\* A look goes to the sink's queue, which may be full.
LEMMA Emits == ASSUME TrackInv, NEW t \in Ids, Emit(t) PROVE TrackInv'
<1>0. /\ TrackingTypeOK /\ PlaceInv /\ LossesCounted /\ worker \in Workers /\ worker.pc = "judge" /\ t \in worker.pending
      /\ worker.todo = {} /\ UNCHANGED <<frameVars, trackerVars, anchor, sender, trackBudget, traceVars>>
  BY DEF TrackInv, TrackingTypeOK, Emit, Decided
<1>1. CASE Put(t)
  <2>1. /\ worker' \in Workers /\ worker'.pc = "judge" /\ worker'.ts = worker.ts /\ worker'.era = worker.era
        /\ worker'.own = {} /\ worker'.todo = {} /\ worker'.pending = worker.pending \ {t}
        /\ Cardinality(worker'.pending) = Cardinality(worker.pending) - 1 /\ Cardinality(worker.pending) \in Nat
    BY <1>0, <1>1, HandedIs DEF Put
  <2>2. /\ InHand' \subseteq InHand
        /\ TimeInv' /\ PlaceInv' /\ HandInv' /\ LooksInv' /\ ListedInv' /\ LooksApart' /\ IsFiniteSet(looks)'
    BY <1>0, <2>1, Handing
  <2>3. /\ observations' = Append(observations, Look(t)) /\ Len(observations) < ObservationQueue
        /\ tally' = [tally EXCEPT !.queued = @ + 1]
    BY <1>1 DEF Put
  <2>4. observations \in Seq(Observed) /\ Len(observations) \in Nat /\ Look(t) \in Observed
    BY <1>0, LookIs, LenProperties DEF TrackingTypeOK
  <2>5. observations' \in Seq(Observed) /\ Len(observations') = Len(observations) + 1
    BY <2>3, <2>4, AppendProperties
  <2>6. Len(observations') <= ObservationQueue
    BY <2>3, <2>4, <2>5, TrackSizes
  <2>7. /\ tally' \in [queued : Nat, evicted : Nat, sent : Nat, failed : Nat]
        /\ tally'.queued = tally.queued + 1 /\ tally'.evicted = tally.evicted /\ tally'.sent = tally.sent /\ tally'.failed = tally.failed
        /\ tally.queued \in Nat /\ tally.evicted \in Nat /\ tally.sent \in Nat /\ tally.failed \in Nat
    <3>1. tally \in [queued : Nat, evicted : Nat, sent : Nat, failed : Nat]
      BY <1>0 DEF TrackingTypeOK
    <3>2. tally.queued \in Nat /\ tally.evicted \in Nat /\ tally.sent \in Nat /\ tally.failed \in Nat
      BY <3>1
    <3>3. tally' = [queued |-> tally.queued + 1, evicted |-> tally.evicted, sent |-> tally.sent, failed |-> tally.failed]
      BY <2>3, <3>1
    <3>4. tally.queued + 1 \in Nat
      BY <3>2
    <3>. QED
      BY <3>2, <3>3, <3>4
  <2>8. TrackingTypeOK'
    BY <1>0, <2>1, <2>2, <2>5, <2>6, <2>7 DEF TrackingTypeOK, frameVars, trackerVars, traceVars
  <2>9. LossesCounted'
    <3>1. sender' = sender /\ looks' = looks /\ Len(sender) \in Nat
      BY <1>0, LenProperties DEF traceVars, TrackingTypeOK
    <3>. QED
      <4>1. Cardinality(looks') = Cardinality(worker'.pending) + tally'.queued
        <5> DEFINE n == Cardinality(worker.pending)
                   q == tally.queued
        <5>1. Cardinality(looks) = n + q
          BY <1>0 DEF LossesCounted
        <5>2. n \in Nat /\ q \in Nat
          BY <2>1, <2>7
        <5>3. n + q = (n - 1) + (q + 1)
          <6> HIDE DEF n, q
          <6>. QED
            BY <5>2
        <5>. QED
          BY <2>1, <2>7, <3>1, <5>1, <5>3
      <4>2. tally'.queued = Len(observations') + Len(sender') + tally'.evicted + tally'.sent + tally'.failed
        <5> DEFINE q == tally.queued
                   o == Len(observations)
                   l == Len(sender)
                   e == tally.evicted
                   s == tally.sent
                   f == tally.failed
        <5>1. q = o + l + e + s + f
          BY <1>0 DEF LossesCounted
        <5>2. q \in Nat /\ o \in Nat /\ l \in Nat /\ e \in Nat /\ s \in Nat /\ f \in Nat
          BY <2>4, <2>7, <3>1
        <5>3. q + 1 = (o + 1) + l + e + s + f
          <6> HIDE DEF q, o, l, e, s, f
          <6>. QED
            BY <5>1, <5>2
        <5>. QED
          BY <2>5, <2>7, <3>1, <5>3
      <4>. QED
        BY <4>1, <4>2 DEF LossesCounted
  <2>. QED
    BY <2>2, <2>8, <2>9 DEF TrackInv
<1>2. CASE worker' = WorkerAt("full", {}, {t}, worker.pending) /\ UNCHANGED <<observations, tally>>
  <2>1. worker.pending \in SUBSET Ids /\ {} \in SUBSET Ids /\ {t} \in SUBSET Ids
    BY <1>0, WorkerIs
  <2>2. LET w == WorkerAt("full", {}, {t}, worker.pending) IN
        /\ w \in Workers /\ w.pc = "full" /\ w.ts = worker.ts /\ w.era = worker.era
        /\ w.own = {} /\ w.todo = {t} /\ w.pending = worker.pending
    BY <1>0, <2>1, WorkerAtIs
  <2>3. /\ worker' \in Workers /\ worker'.pc = "full" /\ worker'.ts = worker.ts /\ worker'.era = worker.era
        /\ worker'.own = {} /\ worker'.todo = {t} /\ worker'.pending = worker.pending
    BY <1>2, <2>2
  <2>4. /\ InHand' \subseteq InHand
        /\ TimeInv' /\ PlaceInv' /\ HandInv' /\ LooksInv' /\ ListedInv' /\ LooksApart' /\ IsFiniteSet(looks)'
    BY <1>0, <2>3, Handing
  <2>5. TrackingTypeOK'
    BY <1>0, <1>2, <2>3, <2>4 DEF TrackingTypeOK, frameVars, trackerVars, traceVars
  <2>6. LossesCounted'
    BY <1>0, <1>2, <2>3 DEF LossesCounted, traceVars
  <2>. QED
    BY <2>4, <2>5, <2>6 DEF TrackInv
<1>. QED
  BY <1>1, <1>2 DEF Emit

\* The oldest look is evicted and counted to make room.
LEMMA MakesRoom == ASSUME TrackInv, MakeRoom PROVE TrackInv'
<1>0. /\ TrackingTypeOK /\ PlaceInv /\ LossesCounted /\ worker \in Workers /\ worker.pc = "full"
      /\ UNCHANGED <<frameVars, trackerVars, anchor, sender, trackBudget, traceVars>>
  BY DEF TrackInv, TrackingTypeOK, MakeRoom
<1>1. PICK t \in worker.todo :
       /\ observations' = Append(IF observations = <<>> THEN <<>> ELSE Tail(observations), Look(t))
       /\ tally' = IF observations = <<>> THEN [tally EXCEPT !.queued = @ + 1] ELSE Evicts(tally)
       /\ worker' = Handed(t)
  BY DEF MakeRoom
<1>2. t \in worker.pending
  BY <1>0 DEF PlaceInv
<1>3. /\ worker' \in Workers /\ worker'.pc = "judge" /\ worker'.ts = worker.ts /\ worker'.era = worker.era
      /\ worker'.own = {} /\ worker'.todo = {} /\ worker'.pending = worker.pending \ {t}
      /\ Cardinality(worker'.pending) = Cardinality(worker.pending) - 1 /\ Cardinality(worker.pending) \in Nat
  BY <1>1, <1>2, HandedIs
<1>4. /\ InHand' \subseteq InHand
      /\ TimeInv' /\ PlaceInv' /\ HandInv' /\ LooksInv' /\ ListedInv' /\ LooksApart' /\ IsFiniteSet(looks)'
  BY <1>0, <1>3, Handing
<1>5. observations \in Seq(Observed) /\ Len(observations) \in Nat /\ Len(observations) <= ObservationQueue /\ Look(t) \in Observed
  BY <1>0, <1>2, LookIs, LenProperties DEF TrackingTypeOK
<1>6. /\ tally \in [queued : Nat, evicted : Nat, sent : Nat, failed : Nat]
      /\ tally.queued \in Nat /\ tally.evicted \in Nat /\ tally.sent \in Nat /\ tally.failed \in Nat
  BY <1>0 DEF TrackingTypeOK
<1>7. /\ observations' \in Seq(Observed) /\ Len(observations') <= ObservationQueue /\ Len(observations') \in Nat
      /\ tally' \in [queued : Nat, evicted : Nat, sent : Nat, failed : Nat]
      /\ tally'.queued = tally.queued + 1 /\ tally'.sent = tally.sent /\ tally'.failed = tally.failed
      /\ tally'.evicted \in Nat /\ Len(observations') + tally'.evicted = Len(observations) + tally.evicted + 1
  <2>1. CASE observations = <<>>
    <3>1. <<>> \in Seq(Observed) /\ Len(observations) = 0
      BY <1>5, <2>1
    <3>2. observations' \in Seq(Observed) /\ Len(observations') = 1
      BY <1>1, <1>5, <2>1, <3>1, AppendProperties
    <3>3. tally' = [tally EXCEPT !.queued = @ + 1]
      BY <1>1, <2>1
    <3>4. tally' = [queued |-> tally.queued + 1, evicted |-> tally.evicted, sent |-> tally.sent, failed |-> tally.failed]
      BY <1>6, <3>3
    <3>5. /\ tally'.queued = tally.queued + 1 /\ tally'.evicted = tally.evicted
          /\ tally'.sent = tally.sent /\ tally'.failed = tally.failed
      BY <3>4
    <3>6. tally' \in [queued : Nat, evicted : Nat, sent : Nat, failed : Nat]
      <4>1. tally.queued + 1 \in Nat
        BY <1>6
      <4>. QED
        BY <1>6, <3>4, <4>1
    <3>7. 1 + tally.evicted = 0 + tally.evicted + 1 /\ 1 <= ObservationQueue
      BY <1>6, TrackSizes
    <3>. QED
      BY <1>6, <3>1, <3>2, <3>5, <3>6, <3>7
  <2>2. CASE observations # <<>>
    <3>1. Tail(observations) \in Seq(Observed) /\ Len(Tail(observations)) = Len(observations) - 1
      BY <1>5, <2>2, HeadTailProperties
    <3>2. observations' \in Seq(Observed) /\ Len(observations') = Len(observations)
      <4>1. observations' = Append(Tail(observations), Look(t))
        BY <1>1, <2>2
      <4>. QED
        BY <1>5, <3>1, <4>1, AppendProperties
    <3>3. tally' = Evicts(tally)
      BY <1>1, <2>2
    <3>4. /\ tally' \in [queued : Nat, evicted : Nat, sent : Nat, failed : Nat]
          /\ tally'.queued = tally.queued + 1 /\ tally'.evicted = tally.evicted + 1
          /\ tally'.sent = tally.sent /\ tally'.failed = tally.failed
      BY <1>6, <3>3 DEF Evicts
    <3>. QED
      <4>1. Len(observations) + (tally.evicted + 1) = Len(observations) + tally.evicted + 1
        <5> DEFINE o == Len(observations)
                   e == tally.evicted
        <5>1. o \in Nat /\ e \in Nat
          BY <1>5, <1>6
        <5> HIDE DEF o, e
        <5>2. o + (e + 1) = o + e + 1
          BY <5>1
        <5>. QED
          BY <5>2 DEF o, e
      <4>2. tally'.evicted \in Nat
        BY <1>6, <3>4
      <4>. QED
        BY <1>5, <3>2, <3>4, <4>1, <4>2
  <2>. QED
    BY <2>1, <2>2
<1>8. TrackingTypeOK'
  BY <1>0, <1>3, <1>4, <1>7 DEF TrackingTypeOK, frameVars, trackerVars, traceVars
<1>9. LossesCounted'
  <2>1. sender' = sender /\ looks' = looks /\ Len(sender) \in Nat
    BY <1>0, LenProperties DEF traceVars, TrackingTypeOK
  <2>. QED
    <3>1. Cardinality(looks') = Cardinality(worker'.pending) + tally'.queued
      <4> DEFINE n == Cardinality(worker.pending)
                 q == tally.queued
      <4>1. Cardinality(looks) = n + q
        BY <1>0 DEF LossesCounted
      <4>2. n \in Nat /\ q \in Nat
        BY <1>3, <1>6
      <4>3. n + q = (n - 1) + (q + 1)
        <5> HIDE DEF n, q
        <5>. QED
          BY <4>2
      <4>. QED
        BY <1>3, <1>7, <2>1, <4>1, <4>3
    <3>2. tally.queued = Len(observations) + Len(sender) + tally.evicted + tally.sent + tally.failed
      BY <1>0 DEF LossesCounted
    <3>3. tally'.queued = Len(observations') + Len(sender') + tally'.evicted + tally'.sent + tally'.failed
      <4>2. /\ Len(observations) \in Nat /\ Len(observations') \in Nat /\ tally'.evicted \in Nat
            /\ Len(observations') + tally'.evicted = Len(observations) + tally.evicted + 1
        BY <1>5, <1>7
      <4>3. tally.queued + 1 = Len(observations') + Len(sender) + tally'.evicted + tally.sent + tally.failed
        <5>1. PICK o \in Nat, l \in Nat, e \in Nat, s \in Nat, n \in Nat, q \in Nat :
                q = tally.queued /\ o = Len(observations) /\ l = Len(sender) /\ e = tally.evicted /\ s = tally.sent /\ n = tally.failed
          BY <1>5, <1>6, <2>1
        <5>2. PICK o1 \in Nat, e1 \in Nat : o1 = Len(observations') /\ e1 = tally'.evicted
          BY <4>2
        <5>3. q = o + l + e + s + n
          BY <5>1, <3>2
        <5>4. o1 + e1 = o + e + 1
          BY <5>1, <5>2, <4>2
        <5>5. q + 1 = o1 + l + e1 + s + n
          BY <5>3, <5>4
        <5>. QED
          BY <5>1, <5>2, <5>5
      <4>. QED
        BY <1>7, <2>1, <4>3
    <3>. QED
      BY <3>1, <3>3 DEF LossesCounted
<1>. QED
  BY <1>4, <1>8, <1>9 DEF TrackInv

\* The worker is done with its frame.
LEMMA FrameEnds == ASSUME TrackInv, EndFrame PROVE TrackInv'
<1>0. /\ TrackingTypeOK /\ TimeInv /\ HandInv /\ LooksInv /\ ListedInv /\ LooksApart /\ LossesCounted /\ IsFiniteSet(looks)
      /\ worker.pc = "judge" /\ worker.pending = {} /\ worker' = Idle
      /\ UNCHANGED <<frameVars, trackerVars, anchor, sinkVars, trackBudget, traceVars>>
  BY DEF TrackInv, EndFrame, Decided
<1>1. InHand' = {}
  BY <1>0, IdleIs DEF InHand
<1>2. TimeInv'
  <2>1. clock \in Nat /\ era \in Nat
    BY <1>0 DEF TrackingTypeOK
  <2>. QED
    BY <1>0, <2>1, IdleIs DEF TimeInv, Begun, frameVars, traceVars
<1>3. TrackingTypeOK'
  BY <1>0, <1>1, IdleIs DEF TrackingTypeOK, frameVars, trackerVars, sinkVars, traceVars
<1>4. PlaceInv'
  BY <1>0, IdleIs DEF PlaceInv
<1>5. HandInv' /\ LooksInv' /\ ListedInv' /\ LooksApart' /\ IsFiniteSet(looks)'
  BY <1>0, <1>1 DEF HandInv, LooksInv, ListedInv, LooksApart, trackerVars, traceVars
<1>6. LossesCounted'
  <2>1. worker'.pending = worker.pending
    BY <1>0, IdleIs
  <2>. QED
    BY <1>0, <2>1 DEF LossesCounted, sinkVars, traceVars
<1>. QED
  BY <1>2, <1>3, <1>4, <1>5, <1>6 DEF TrackInv

\* The sender takes a look from the queue.
LEMMA Fetches == ASSUME TrackInv, Fetch PROVE TrackInv'
<1>0. /\ TrackInv /\ TrackingTypeOK /\ LossesCounted /\ trackBudget' \in TrackBudgetTypes
      /\ UNCHANGED <<frameVars, trackerVars, anchor, worker, tally, traceVars>>
      /\ sender = <<>> /\ observations # <<>>
      /\ sender' = <<Head(observations)>> /\ observations' = Tail(observations)
  BY TrackSpent DEF TrackInv, Fetch
<1>1. observations \in Seq(Observed) /\ Len(observations) \in Nat /\ Len(observations) <= ObservationQueue
  BY <1>0, LenProperties DEF TrackingTypeOK
<1>2. Head(observations) \in Observed /\ observations' \in Seq(Observed) /\ Len(observations') = Len(observations) - 1
  BY <1>0, <1>1, HeadTailProperties
<1>3. sender' \in Seq(Observed) /\ Len(sender') = 1 /\ Len(sender) = 0
  BY <1>0, <1>2
<1>4. InHand' = InHand
  BY <1>0 DEF InHand
<1>5. TrackingTypeOK'
  <2>1. Len(observations') <= ObservationQueue /\ Len(sender') <= 1
    BY <1>1, <1>2, <1>3, TrackSizes
  <2>. QED
    BY <1>0, <1>2, <1>3, <1>4, <2>1 DEF TrackingTypeOK, frameVars, trackerVars, traceVars
<1>6. LossesCounted'
  <2>1. tally.queued \in Nat /\ tally.evicted \in Nat /\ tally.sent \in Nat /\ tally.failed \in Nat
    BY <1>0 DEF TrackingTypeOK
  <2>. QED
    BY <1>0, <1>1, <1>2, <1>3, <2>1 DEF LossesCounted, traceVars
<1>7. TimeInv' /\ PlaceInv' /\ HandInv' /\ LooksInv' /\ ListedInv' /\ LooksApart' /\ IsFiniteSet(looks)'
  BY <1>0, <1>4 DEF TrackInv, TimeInv, Begun, PlaceInv, HandInv, LooksInv, ListedInv, LooksApart, frameVars, trackerVars, traceVars
<1>. QED
  BY <1>5, <1>6, <1>7 DEF TrackInv

\* A look is sent, or lost and counted.
LEMMA Sends == ASSUME TrackInv, Send PROVE TrackInv'
<1>0. /\ TrackInv /\ TrackingTypeOK /\ LossesCounted
      /\ UNCHANGED <<frameVars, trackerVars, anchor, worker, observations, traceVars>>
      /\ sender # <<>> /\ sender' = <<>>
      /\ tally' = [tally EXCEPT !.sent = @ + 1] \/ tally' = [tally EXCEPT !.failed = @ + 1]
  BY DEF TrackInv, Send
<1>1. trackBudget' \in TrackBudgetTypes
  <2>1. CASE UNCHANGED trackBudget
    BY <2>1, <1>0 DEF TrackingTypeOK
  <2>2. CASE UseTrack("fail")
    BY <2>2, <1>0, TrackSpent
  <2>. QED
    BY <2>1, <2>2 DEF Send
<1>2. Len(sender) = 1 /\ Len(sender') = 0 /\ sender' \in Seq(Observed)
  <2>1. sender \in Seq(Observed) /\ Len(sender) <= 1 /\ Len(sender) \in Nat
    BY <1>0, LenProperties DEF TrackingTypeOK
  <2>2. Len(sender) # 0
    BY <1>0, <2>1, EmptySeq
  <2>3. Len(sender) = 1
    <3>1. \A n \in Nat : n <= 1 /\ n # 0 => n = 1
      OBVIOUS
    <3>. QED
      BY <2>1, <2>2, <3>1
  <2>4. <<>> \in Seq(Observed) /\ Len(<<>>) = 0
    OBVIOUS
  <2>. QED
    BY <1>0, <2>3, <2>4
<1>3. /\ tally' \in [queued : Nat, evicted : Nat, sent : Nat, failed : Nat]
      /\ tally.queued \in Nat /\ tally.evicted \in Nat /\ tally.sent \in Nat /\ tally.failed \in Nat
      /\ tally'.queued = tally.queued /\ tally'.evicted = tally.evicted
      /\ tally'.sent + tally'.failed = tally.sent + tally.failed + 1
      /\ tally'.sent \in Nat /\ tally'.failed \in Nat
  <2>1. tally \in [queued : Nat, evicted : Nat, sent : Nat, failed : Nat]
    BY <1>0 DEF TrackingTypeOK
  <2>2. CASE tally' = [tally EXCEPT !.sent = @ + 1]
    BY <2>1, <2>2
  <2>3. CASE tally' = [tally EXCEPT !.failed = @ + 1]
    BY <2>1, <2>3
  <2>. QED
    BY <1>0, <2>2, <2>3
<1>4. InHand' = InHand
  BY <1>0 DEF InHand
<1>5. TrackingTypeOK'
  <2>1. Len(sender') <= 1
    BY <1>2
  <2>. QED
    BY <1>0, <1>1, <1>2, <1>3, <1>4, <2>1 DEF TrackingTypeOK, frameVars, trackerVars, traceVars
<1>6. LossesCounted'
  <2>1. Len(observations) \in Nat /\ observations' = observations
    BY <1>0, LenProperties DEF TrackingTypeOK
  <2>2. tally'.queued = Len(observations') + Len(sender') + tally'.evicted + tally'.sent + tally'.failed
    <3>2. tally.queued = Len(observations) + 1 + tally.evicted + tally.sent + tally.failed
      BY <1>0, <1>2 DEF LossesCounted
    <3>3. /\ tally.queued \in Nat /\ tally.evicted \in Nat /\ tally.sent \in Nat /\ tally.failed \in Nat
          /\ tally'.sent \in Nat /\ tally'.failed \in Nat
          /\ tally'.sent + tally'.failed = tally.sent + tally.failed + 1
      BY <1>3
    <3>4. tally.queued = Len(observations) + 0 + tally.evicted + tally'.sent + tally'.failed
      <4>1. PICK q \in Nat, o \in Nat, e \in Nat, n \in Nat, l \in Nat, n1 \in Nat, l1 \in Nat :
              /\ q = tally.queued /\ o = Len(observations) /\ e = tally.evicted /\ n = tally.sent /\ l = tally.failed
              /\ n1 = tally'.sent /\ l1 = tally'.failed
        BY <3>3, <2>1
      <4>2. q = o + 1 + e + n + l
        BY <4>1, <3>2
      <4>3. n1 + l1 = n + l + 1
        BY <4>1, <3>3
      <4>4. q = o + 0 + e + n1 + l1
        BY <4>2, <4>3
      <4>. QED
        BY <4>1, <4>4
    <3>. QED
      BY <1>2, <1>3, <2>1, <3>4
  <2>. QED
    BY <1>0, <1>3, <2>2 DEF LossesCounted, traceVars
<1>7. TimeInv' /\ PlaceInv' /\ HandInv' /\ LooksInv' /\ ListedInv' /\ LooksApart' /\ IsFiniteSet(looks)'
  BY <1>0, <1>4 DEF TrackInv, TimeInv, Begun, PlaceInv, HandInv, LooksInv, ListedInv, LooksApart, frameVars, trackerVars, traceVars
<1>. QED
  BY <1>5, <1>6, <1>7 DEF TrackInv

\* The tracker's invariant holds at the start.
LEMMA TrackStarts == ASSUME TrackingInit PROVE TrackInv
<1>1. InHand = {} /\ worker = Idle
  BY IdleIs DEF TrackingInit, InHand
<1>2. IsFiniteSet(looks) /\ Cardinality(looks) = 0 /\ Cardinality(worker.pending) = 0 /\ Cardinality(listed) = 0
  BY <1>1, IdleIs, FS_EmptySet DEF TrackingInit
<1>3. TrackingTypeOK
  <2>1. clock \in Nat /\ 0 \in 0..clock
    BY TrackSizes DEF TrackingInit
  <2>2. tally \in [queued : Nat, evicted : Nat, sent : Nat, failed : Nat]
    BY DEF TrackingInit
  <2>3. trackBudget \in TrackBudgetTypes
    BY TrackingAssumption DEF TrackingInit
  <2>4. /\ frames \in Seq(Waits) /\ Len(frames) = 0 /\ observations \in Seq(Observed) /\ Len(observations) = 0
        /\ sender \in Seq(Observed) /\ Len(sender) = 0
    BY DEF TrackingInit
  <2>5. minted = 0 /\ era = 0 /\ lastUpdate = 0 /\ listed = {} /\ loose = {} /\ looks = {}
        /\ lastSeen = [t \in Ids |-> 0] /\ anchor = [t \in Ids |-> 0] /\ eraOf = [t \in Ids |-> 0]
    BY DEF TrackingInit
  <2>6. lastSeen \in [Ids -> 0..clock] /\ anchor \in [Ids -> 0..clock] /\ eraOf \in [Ids -> 0..era]
    BY <2>1, <2>5
  <2>. QED
    BY <1>1, <1>2, <2>1, <2>2, <2>3, <2>4, <2>5, <2>6, TrackSizes, IdleIs DEF TrackingTypeOK
<1>4. TimeInv
  <2>1. DOMAIN frames = {}
    BY DEF TrackingInit
  <2>. QED
    BY <1>1, <1>3, <2>1, IdleIs, TrackSizes DEF TimeInv, Begun, TrackingInit
<1>5. PlaceInv /\ HandInv
  BY <1>1, IdleIs DEF PlaceInv, HandInv, TrackingInit
<1>6. LooksInv /\ ListedInv /\ LooksApart
  BY DEF LooksInv, ListedInv, LooksApart, TrackingInit
<1>7. LossesCounted
  BY <1>2 DEF LossesCounted, TrackingInit
<1>. QED
  BY <1>2, <1>3, <1>4, <1>5, <1>6, <1>7 DEF TrackInv

\* A step of another part leaves the tracker as it was.
LEMMA TrackStutters == ASSUME TrackInv, UNCHANGED trackingVars PROVE TrackInv' /\ ContinuesSame
<1>1. InHand' = InHand
  BY DEF trackingVars, InHand
<1>2. ContinuesSame
  BY DEF ContinuesSame, TrackContinued, trackingVars, trackerVars
<1>. QED
  BY <1>1, <1>2 DEF TrackInv, TrackingTypeOK, TimeInv, Begun, PlaceInv, HandInv, LooksInv, ListedInv, LooksApart, LossesCounted,
     trackingVars, frameVars, trackerVars, sinkVars, traceVars

\* Every step of the tracker keeps its invariant.
LEMMA TrackSteps == ASSUME TrackInv, TrackingNext PROVE TrackInv' /\ ContinuesSame
<1>1. CASE Associate
  BY <1>1, AssociatesHolds
<1>2. ASSUME lastSeen' = lastSeen PROVE ContinuesSame
  BY <1>2 DEF ContinuesSame, TrackContinued
<1>3. CASE Submit
  BY <1>2, <1>3, Submits DEF Submit, trackerVars
<1>4. CASE ResetGate
  BY <1>2, <1>4, Resets DEF ResetGate
<1>5. CASE TakeFrame
  BY <1>2, <1>5, Takes DEF TakeFrame, trackerVars
<1>6. CASE AgeOut
  BY <1>2, <1>6, AgesOut DEF AgeOut
<1>7. CASE MakeRoom
  BY <1>2, <1>7, MakesRoom DEF MakeRoom, trackerVars
<1>8. CASE EndFrame
  BY <1>2, <1>8, FrameEnds DEF EndFrame, trackerVars
<1>9. CASE Fetch
  BY <1>2, <1>9, Fetches DEF Fetch, trackerVars
<1>10. CASE Send
  BY <1>2, <1>10, Sends DEF Send, trackerVars
<1>11. ASSUME NEW t \in Ids, Judge(t) PROVE TrackInv' /\ ContinuesSame
  BY <1>2, <1>11, JudgeHolds DEF Judge, trackerVars
<1>12. ASSUME NEW t \in Ids, Emit(t) PROVE TrackInv' /\ ContinuesSame
  BY <1>2, <1>12, Emits DEF Emit, trackerVars
<1>. QED
  BY <1>1, <1>3, <1>4, <1>5, <1>6, <1>7, <1>8, <1>9, <1>10, <1>11, <1>12 DEF TrackingNext

-----------------------------------------------------------------------------
(* The motion service.                                                        *)

(* Who triggers has no incident that is open, and an incident knows whose it   *)
(* is.                                                                        *)
OpenOnes == (DOMAIN incidents) \ (ended \cup crossed)
OwnInv ==
  /\ \A e \in Entries : openEvent[e] # 0 => incidents[openEvent[e]] = e
  /\ \A i \in OpenOnes : /\ openEvent[incidents[i]] = i /\ state[incidents[i]] = "TRIGGERED"
                         /\ thread[incidents[i]] # "trigger"
                         /\ Broker \/ thread[incidents[i]] # "over"
  /\ \A e \in Entries : state[e] = "TRIGGERED" /\ thread[e] \notin {"over", "trigger"} =>
       openEvent[e] \in (DOMAIN incidents) \ ended
MotionInv == MotionTypeOK /\ OwnInv /\ WindowFresh


\* What the constants of the motion service are.
LEMMA MotionSizes ==
  /\ MaxEntries \in Nat /\ Widths \subseteq Nat /\ \A n \in Widths : n > 0
  /\ MotionBudgets \subseteq MotionBudgetTypes
BY MotionAssumption

\* The first window width is one of the widths.
LEMMA FirstWidthIs == FirstWidth \in Widths
<1>1. Widths \subseteq Nat /\ Widths # {}
  BY MotionAssumption
<1>2. IsWellFoundedOn(OpToRel(<, Nat), Nat)
  BY NatLessThanWellFounded
<1>3. PICK m \in Widths : \A n \in Widths : ~(<<n, m>> \in OpToRel(<, Nat))
  BY <1>1, <1>2, WFMin
<1>4. OpToRel(<, Nat) = {ss \in Nat \X Nat : ss[1] < ss[2]}
  BY Zenon DEF OpToRel
<1>5. \A n \in Widths : m <= n
  <2>. SUFFICES ASSUME NEW n \in Widths PROVE m <= n
    OBVIOUS
  <2>1. ~(<<n, m>> \in {ss \in Nat \X Nat : ss[1] < ss[2]})
    BY <1>3, <1>4
  <2>. QED
    BY <1>1, <2>1
<1>. QED
  BY <1>5 DEF FirstWidth, Least

\* A step of the motion service that is counted leaves its budget a table, and the broker as it was.
LEMMA MotionSpent ==
  ASSUME MotionTypeOK, NEW what \in {"remove", "reset", "break", "pause", "outage", "resize"}, UseMotion(what)
  PROVE  motionBudget' \in MotionBudgetTypes /\ Broker' = Broker
<1>1. motionBudget \in MotionBudgetTypes
  BY DEF MotionTypeOK
<1>2. \A n \in Nat : n > 0 => n - 1 \in Nat
  OBVIOUS
<1>3. CASE what = "remove"
  BY <1>1, <1>2, <1>3 DEF MotionBudgetTypes, UseMotion, Broker
<1>4. CASE what = "reset"
  BY <1>1, <1>2, <1>4 DEF MotionBudgetTypes, UseMotion, Broker
<1>5. CASE what = "break"
  BY <1>1, <1>2, <1>5 DEF MotionBudgetTypes, UseMotion, Broker
<1>6. CASE what = "pause"
  BY <1>1, <1>2, <1>6 DEF MotionBudgetTypes, UseMotion, Broker
<1>7. CASE what = "outage"
  BY <1>1, <1>2, <1>7 DEF MotionBudgetTypes, UseMotion, Broker
<1>8. CASE what = "resize"
  BY <1>1, <1>2, <1>8 DEF MotionBudgetTypes, UseMotion, Broker
<1>. QED
  BY <1>3, <1>4, <1>5, <1>6, <1>7, <1>8

\* The latest n of a sequence: all of it, or n of it.
LEMMA LatestKeeps ==
  ASSUME NEW s \in Seq(BOOLEAN), NEW n \in Nat
  PROVE  Latest(s, n) \in Seq(BOOLEAN) /\ Len(Latest(s, n)) = IF Len(s) <= n THEN Len(s) ELSE n
<1>1. Len(s) \in Nat
  BY LenProperties
<1>2. CASE Len(s) <= n
  BY <1>2 DEF Latest
<1>3. CASE ~(Len(s) <= n)
  <2>1. Len(s) - n + 1 \in 1..(Len(s) + 1) /\ Len(s) \in (Len(s) - n + 1 - 1)..Len(s)
    BY <1>1, <1>3
  <2>2. /\ SubSeq(s, Len(s) - n + 1, Len(s)) \in Seq(BOOLEAN)
        /\ Len(SubSeq(s, Len(s) - n + 1, Len(s))) =
             IF Len(s) - n + 1 <= Len(s) THEN Len(s) - (Len(s) - n + 1) + 1 ELSE 0
    BY <2>1, SubSeqProperties
  <2>. QED
    BY <1>1, <1>3, <2>2 DEF Latest
<1>. QED
  BY <1>2, <1>3

WindowTyped ==
  /\ tainted \subseteq Entries /\ width \in [Entries -> Widths]
  /\ window \in [Entries -> Seq(BOOLEAN)] /\ fresh \in [Entries -> Nat]
  /\ \A e \in Entries : Len(window[e]) <= width[e]
  /\ copy \in Seq(BOOLEAN)

\* The windows are typed when the service is.
LEMMA WindowsTyped == ASSUME MotionTypeOK PROVE WindowTyped
BY DEF MotionTypeOK, WindowTyped

\* A window that is forgotten is fresh.
LEMMA Forgets ==
  ASSUME WindowTyped, WindowFresh, NEW e \in Entries, Forget(e)
  PROVE  WindowTyped' /\ WindowFresh'
<1>1. /\ window' = [window EXCEPT ![e] = <<>>] /\ fresh' = [fresh EXCEPT ![e] = 0] /\ tainted' = tainted \ {e}
      /\ width' = width /\ copy' = copy
  BY DEF Forget, Cleared
<1>2. /\ window' \in [Entries -> Seq(BOOLEAN)] /\ window'[e] = <<>> /\ \A f \in Entries \ {e} : window'[f] = window[f]
      /\ fresh' \in [Entries -> Nat] /\ fresh'[e] = 0 /\ \A f \in Entries \ {e} : fresh'[f] = fresh[f]
  BY <1>1 DEF WindowTyped
<1>3. Len(window'[e]) = 0
  BY <1>2
<1>4. width[e] \in Nat
  BY MotionSizes DEF WindowTyped
<1>. QED
  BY <1>1, <1>2, <1>3, <1>4 DEF WindowTyped, WindowFresh

\* A sample is one more that is fresh.
LEMMA Applies ==
  ASSUME WindowTyped, WindowFresh, NEW e \in Entries, NEW motion \in BOOLEAN, NEW from, ApplyFeature(e, motion, from)
  PROVE  WindowTyped' /\ WindowFresh'
<1>. DEFINE w == Latest(Append(window[e], motion), width[e])
<1>1. /\ window' = [window EXCEPT ![e] = w]
      /\ fresh' = [fresh EXCEPT ![e] = IF @ < width[e] THEN @ + 1 ELSE @]
      /\ UNCHANGED <<width, copy, tainted>>
  BY DEF ApplyFeature
<1>2. width[e] \in Nat /\ fresh[e] \in Nat /\ window[e] \in Seq(BOOLEAN) /\ Len(window[e]) \in Nat
  BY MotionSizes, LenProperties DEF WindowTyped
<1>3. w \in Seq(BOOLEAN) /\ Len(w) = IF Len(window[e]) + 1 <= width[e] THEN Len(window[e]) + 1 ELSE width[e]
  <2>1. Append(window[e], motion) \in Seq(BOOLEAN) /\ Len(Append(window[e], motion)) = Len(window[e]) + 1
    BY <1>2, AppendProperties
  <2>. QED
    BY <1>2, <2>1, LatestKeeps
<1>. HIDE DEF w
<1>4. /\ window' \in [Entries -> Seq(BOOLEAN)] /\ window'[e] = w /\ \A f \in Entries \ {e} : window'[f] = window[f]
      /\ fresh' \in [Entries -> Nat] /\ fresh'[e] = (IF fresh[e] < width[e] THEN fresh[e] + 1 ELSE fresh[e])
      /\ \A f \in Entries \ {e} : fresh'[f] = fresh[f]
  BY <1>1, <1>2, <1>3 DEF WindowTyped
<1>5. Len(w) <= width[e] /\ (Len(window[e]) <= fresh[e] => Len(w) <= fresh'[e])
  BY <1>2, <1>3, <1>4
<1>. QED
  BY <1>1, <1>4, <1>5 DEF WindowTyped, WindowFresh

\* A stored window is a window.
LEMMA Stores == ASSUME MotionTypeOK, WindowFresh, NEW e \in Entries, StoreWindow(e) PROVE WindowTyped' /\ WindowFresh'
<1>0. WindowTyped
  BY WindowsTyped
<1>1. PICK n \in Widths \ {width[e]} :
       /\ window' = [window EXCEPT ![e] = Latest(copy, n)]
       /\ width' = [width EXCEPT ![e] = n]
       /\ tainted' = IF Len(window'[e]) > Len(window[e]) THEN tainted \cup {e} ELSE tainted
  BY DEF StoreWindow
<1>2. copy' = <<>> /\ fresh' = fresh
  BY DEF StoreWindow
<1>3. n \in Nat /\ Latest(copy, n) \in Seq(BOOLEAN) /\ Len(Latest(copy, n)) <= n /\ Len(Latest(copy, n)) \in Nat
  <2>1. n \in Nat /\ copy \in Seq(BOOLEAN) /\ Len(copy) \in Nat
    BY <1>0, MotionSizes, LenProperties DEF WindowTyped
  <2>. QED
    BY <2>1, LatestKeeps
<1>4. /\ window' \in [Entries -> Seq(BOOLEAN)] /\ window'[e] = Latest(copy, n) /\ \A f \in Entries \ {e} : window'[f] = window[f]
      /\ width' \in [Entries -> Widths] /\ width'[e] = n /\ \A f \in Entries \ {e} : width'[f] = width[f]
  BY <1>0, <1>1, <1>3 DEF WindowTyped
<1>5. Len(window[e]) \in Nat /\ fresh[e] \in Nat
  BY <1>0, LenProperties DEF WindowTyped
<1>6. WindowTyped'
  BY <1>0, <1>1, <1>2, <1>3, <1>4 DEF WindowTyped
<1>7. WindowFresh'
  <2>. SUFFICES ASSUME NEW f \in Entries \ tainted' PROVE Len(window'[f]) <= fresh'[f]
    BY DEF WindowFresh
  <2>1. CASE f = e
    BY <2>1, <1>1, <1>2, <1>3, <1>4, <1>5 DEF WindowFresh
  <2>2. CASE f # e
    BY <2>2, <1>1, <1>2, <1>4 DEF WindowFresh
  <2>. QED
    BY <2>1, <2>2
<1>. QED
  BY <1>6, <1>7


\* The parts of the type invariant that are not about windows.
PlacesTyped ==
  /\ added \in 0 .. MaxEntries /\ camera \in 0 .. added /\ asked \in 0 .. added /\ stopped \subseteq 1 .. added
  /\ state \in [Entries -> {"CONNECTING", "MONITORING", "TRIGGERED"}] /\ primed \in [Entries -> BOOLEAN]
  /\ thread \in [Entries -> {"idle", "copied", "sized", "trigger", "over"}]
  /\ heard \in {"never", "lately", "long ago"} /\ subscribed \in BOOLEAN
EventsTyped ==
  /\ incidents \in Seq(Entries)
  /\ openEvent \in [Entries -> 0 .. Len(incidents)]
  /\ ended \cup crossed \subseteq DOMAIN incidents

\* The type of the service, in the parts its variables fall into.
LEMMA MotionTyped == MotionTypeOK <=> WindowTyped /\ PlacesTyped /\ EventsTyped /\ motionBudget \in MotionBudgetTypes
BY DEF MotionTypeOK, WindowTyped, PlacesTyped, EventsTyped

\* The incidents are numbered, each of one entry.
LEMMA EventsAre ==
  ASSUME EventsTyped
  PROVE  /\ Len(incidents) \in Nat /\ DOMAIN incidents = 1..Len(incidents)
         /\ \A i \in DOMAIN incidents : incidents[i] \in Entries
         /\ \A e \in Entries : openEvent[e] # 0 => openEvent[e] \in DOMAIN incidents
BY LenProperties DEF EventsTyped

\* Who leaves TRIGGERED closes what it has.
LEMMA Closes ==
  ASSUME EventsTyped, OwnInv, NEW e \in Entries, Broker' = Broker,
         openEvent' = [openEvent EXCEPT ![e] = 0], ended' = Closed(e), UNCHANGED <<incidents, crossed>>,
         \A f \in Entries \ {e} : state'[f] = state[f] /\ thread'[f] = thread[f],
         state'[e] = "TRIGGERED" => thread'[e] = "over"
  PROVE  EventsTyped' /\ OwnInv'
<1>1. openEvent' \in [Entries -> 0..Len(incidents)] /\ openEvent'[e] = 0 /\ \A f \in Entries \ {e} : openEvent'[f] = openEvent[f]
  BY EventsAre DEF EventsTyped
<1>2. ended' = ended \cup ({openEvent[e]} \ {0})
  BY DEF Closed
<1>3. ended' \cup crossed' \subseteq DOMAIN incidents
  BY <1>2, EventsAre DEF EventsTyped
<1>4. EventsTyped'
  BY <1>1, <1>3 DEF EventsTyped
<1>5. \A i \in OpenOnes' : i \in OpenOnes /\ incidents[i] \in Entries \ {e}
  <2>. SUFFICES ASSUME NEW i \in OpenOnes' PROVE i \in OpenOnes /\ incidents[i] \in Entries \ {e}
    OBVIOUS
  <2>1. i \in OpenOnes /\ i # openEvent[e] /\ incidents[i] \in Entries
    BY <1>2, EventsAre DEF OpenOnes
  <2>. QED
    BY <2>1 DEF OwnInv
<1>6. \A f \in Entries : openEvent'[f] # 0 => incidents'[openEvent'[f]] = f
  BY <1>1 DEF OwnInv
<1>7. \A i \in OpenOnes' : /\ openEvent'[incidents'[i]] = i /\ state'[incidents'[i]] = "TRIGGERED"
                           /\ thread'[incidents'[i]] # "trigger"
                           /\ Broker' \/ thread'[incidents'[i]] # "over"
  BY <1>1, <1>5 DEF OwnInv
<1>8. ASSUME NEW f \in Entries, state'[f] = "TRIGGERED", thread'[f] \notin {"over", "trigger"}
      PROVE  openEvent'[f] \in (DOMAIN incidents') \ ended'
  <2>1. f # e
    BY <1>8
  <2>2. openEvent[f] \in (DOMAIN incidents) \ ended
    BY <1>8, <2>1 DEF OwnInv
  <2>3. openEvent[f] # openEvent[e] \/ openEvent[e] = 0
    BY <2>1 DEF OwnInv
  <2>4. openEvent[f] # 0
    BY <2>2, EventsAre
  <2>. QED
    BY <1>1, <1>2, <2>1, <2>2, <2>3, <2>4
<1>. QED
  BY <1>4, <1>6, <1>7, <1>8 DEF OwnInv

\* Steps that open and close nothing.
LEMMA Remains ==
  ASSUME EventsTyped, OwnInv, UNCHANGED eventVars, Broker' = Broker,
         \A f \in Entries : state[f] = "TRIGGERED" <=> state'[f] = "TRIGGERED",
         \A f \in Entries : thread[f] = thread'[f] \/ {thread[f], thread'[f]} \subseteq {"idle", "copied", "sized"}
  PROVE  EventsTyped' /\ OwnInv'
<1>1. incidents' = incidents /\ openEvent' = openEvent /\ ended' = ended /\ crossed' = crossed /\ OpenOnes' = OpenOnes
  BY DEF eventVars, OpenOnes
<1>2. \A f \in Entries : (thread'[f] = "over" <=> thread[f] = "over") /\ (thread'[f] = "trigger" <=> thread[f] = "trigger")
  OBVIOUS
<1>3. \A i \in OpenOnes : incidents[i] \in Entries
  BY EventsAre DEF OpenOnes
<1>4. EventsTyped'
  BY <1>1 DEF EventsTyped
<1>. QED
  BY <1>1, <1>2, <1>3, <1>4 DEF OwnInv

\* A sample that triggers finds nothing open.
LEMMA Triggers ==
  ASSUME EventsTyped, OwnInv, UNCHANGED eventVars, Broker' = Broker, PlacesTyped,
         NEW e \in Entries, thread[e] \in {"idle", "sized"}, NEW motion \in BOOLEAN,
         ApplyFeature(e, motion, IF state[e] = "CONNECTING" THEN "MONITORING" ELSE state[e])
  PROVE  /\ EventsTyped' /\ OwnInv'
         /\ state' \in [Entries -> {"CONNECTING", "MONITORING", "TRIGGERED"}]
         /\ thread' \in [Entries -> {"idle", "copied", "sized", "trigger", "over"}]
<1>. DEFINE from == IF state[e] = "CONNECTING" THEN "MONITORING" ELSE state[e]
            triggers == Confirms(Latest(Append(window[e], motion), width[e]), width[e]) /\ from = "MONITORING"
<1>1. /\ state' = [state EXCEPT ![e] = IF triggers THEN "TRIGGERED" ELSE from]
      /\ thread' = [thread EXCEPT ![e] = IF triggers THEN "trigger" ELSE "idle"]
  BY DEF ApplyFeature
<1>2. from \in {"MONITORING", "TRIGGERED"} /\ (from = "TRIGGERED" <=> state[e] = "TRIGGERED")
  BY DEF PlacesTyped
<1>3. triggers => from = "MONITORING"
  OBVIOUS
<1>. HIDE DEF from, triggers
<1>4. /\ state' \in [Entries -> {"CONNECTING", "MONITORING", "TRIGGERED"}]
      /\ thread' \in [Entries -> {"idle", "copied", "sized", "trigger", "over"}]
      /\ state'[e] = (IF triggers THEN "TRIGGERED" ELSE from) /\ thread'[e] = (IF triggers THEN "trigger" ELSE "idle")
      /\ \A f \in Entries \ {e} : state'[f] = state[f] /\ thread'[f] = thread[f]
  BY <1>1, <1>2 DEF PlacesTyped
<1>5. incidents' = incidents /\ openEvent' = openEvent /\ ended' = ended /\ crossed' = crossed /\ OpenOnes' = OpenOnes
  BY DEF eventVars, OpenOnes
<1>6. CASE triggers
  <2>1. \A i \in OpenOnes : incidents[i] \in Entries \ {e}
    BY <1>2, <1>3, <1>6, EventsAre DEF OwnInv, OpenOnes
  <2>2. EventsTyped'
    BY <1>5 DEF EventsTyped
  <2>. QED
    BY <1>4, <1>5, <1>6, <2>1, <2>2 DEF OwnInv
<1>7. CASE ~triggers
  <2>1. \A f \in Entries : state[f] = "TRIGGERED" <=> state'[f] = "TRIGGERED"
    BY <1>2, <1>4, <1>7
  <2>2. \A f \in Entries : thread[f] = thread'[f] \/ {thread[f], thread'[f]} \subseteq {"idle", "copied", "sized"}
    BY <1>4, <1>7
  <2>. QED
    BY <1>4, <2>1, <2>2, Remains
<1>. QED
  BY <1>6, <1>7

\* The motion invariant holds at the start.
LEMMA MotionStarts == ASSUME MotionInit PROVE MotionInv
<1>1. FirstWidth \in Widths /\ FirstWidth \in Nat
  BY FirstWidthIs, MotionSizes
<1>2. WindowTyped
  BY <1>1 DEF MotionInit, WindowTyped
<1>3. PlacesTyped
  BY MotionSizes DEF MotionInit, PlacesTyped
<1>4. incidents \in Seq(Entries) /\ Len(incidents) = 0 /\ DOMAIN incidents = {}
  BY DEF MotionInit
<1>5. EventsTyped
  BY <1>4 DEF MotionInit, EventsTyped
<1>6. motionBudget \in MotionBudgetTypes
  BY MotionSizes DEF MotionInit
<1>7. OwnInv
  BY <1>4 DEF MotionInit, OwnInv, OpenOnes
<1>8. WindowFresh
  BY <1>2 DEF MotionInit, WindowFresh
<1>. QED
  BY <1>2, <1>3, <1>5, <1>6, <1>7, <1>8, MotionTyped DEF MotionInv

\* The parts of the motion invariant.
LEMMA MotionFacts ==
  ASSUME MotionInv
  PROVE  /\ WindowTyped /\ PlacesTyped /\ EventsTyped /\ OwnInv /\ WindowFresh
         /\ motionBudget \in MotionBudgetTypes /\ MotionTypeOK
BY MotionTyped DEF MotionInv

\* The parts of the motion invariant make it up.
LEMMA Together ==
  ASSUME WindowTyped', PlacesTyped', EventsTyped', OwnInv', WindowFresh', motionBudget' \in MotionBudgetTypes
  PROVE  MotionInv'
BY DEF MotionInv, MotionTypeOK, WindowTyped, PlacesTyped, EventsTyped

\* A step that leaves the windows alone leaves them fresh.
LEMMA WindowsStay == ASSUME WindowTyped, WindowFresh, UNCHANGED windowVars PROVE WindowTyped' /\ WindowFresh'
BY DEF WindowTyped, WindowFresh, windowVars

\* A step of another part leaves the motion service as it was.
LEMMA MotionStutters == ASSUME MotionInv, UNCHANGED motionVars PROVE MotionInv'
<1>1. /\ UNCHANGED windowVars /\ UNCHANGED eventVars /\ Broker' = Broker /\ state' = state /\ thread' = thread
      /\ motionBudget' = motionBudget
  BY DEF motionVars, cameraVars, Broker
<1>2. WindowTyped' /\ WindowFresh'
  BY <1>1, MotionFacts, WindowsStay
<1>3. EventsTyped' /\ OwnInv'
  BY <1>1, MotionFacts, Remains
<1>4. PlacesTyped'
  BY MotionFacts DEF PlacesTyped, motionVars, cameraVars, inputVars
<1>. QED
  BY <1>1, <1>2, <1>3, <1>4, MotionFacts, Together

\* A camera is added to the service.
LEMMA AddsCamera == ASSUME MotionInv, AddCamera PROVE MotionInv'
<1>1. /\ camera' = added + 1 /\ added' = added + 1 /\ added < MaxEntries
      /\ UNCHANGED <<stopped, state, primed, windowVars, eventVars, inputVars, thread, asked, motionBudget>>
  BY DEF AddCamera
<1>2. Broker' = Broker
  BY <1>1 DEF Broker
<1>3. WindowTyped' /\ WindowFresh'
  BY <1>1, MotionFacts, WindowsStay
<1>4. EventsTyped' /\ OwnInv'
  BY <1>1, <1>2, MotionFacts, Remains
<1>5. PlacesTyped'
  <2>1. PlacesTyped
    BY MotionFacts
  <2>2. added \in 0..MaxEntries /\ MaxEntries \in Nat /\ added < MaxEntries /\ asked \in 0..added /\ stopped \subseteq 1..added
    BY <1>1, <2>1, MotionSizes DEF PlacesTyped
  <2>3. /\ added + 1 \in 0..MaxEntries /\ added + 1 \in 0..(added + 1) /\ asked \in 0..(added + 1)
        /\ 1..added \subseteq 1..(added + 1)
    BY <2>2
  <2>4. /\ added' = added + 1 /\ camera' = added + 1 /\ asked' = asked /\ stopped' = stopped
        /\ UNCHANGED <<state, primed, thread, heard, subscribed>>
    BY <1>1 DEF inputVars
  <2>5. added' \in 0..MaxEntries /\ camera' \in 0..added' /\ asked' \in 0..added' /\ stopped' \subseteq 1..added'
    BY <2>2, <2>3, <2>4
  <2>. QED
    BY <2>1, <2>4, <2>5 DEF PlacesTyped
<1>. QED
  BY <1>1, <1>3, <1>4, <1>5, MotionFacts, Together

\* A camera is removed, and its incident closed.
LEMMA RemovesCamera == ASSUME MotionInv, RemoveCamera PROVE MotionInv'
<1>1. /\ camera # 0 /\ camera' = 0 /\ stopped' = stopped \cup {camera}
      /\ UNCHANGED <<added, state, primed, windowVars, eventVars, inputVars, thread, asked>>
  BY DEF RemoveCamera
<1>2. Broker' = Broker /\ motionBudget' \in MotionBudgetTypes
  BY MotionFacts, MotionSpent DEF RemoveCamera
<1>3. WindowTyped' /\ WindowFresh'
  BY <1>1, MotionFacts, WindowsStay
<1>4. EventsTyped' /\ OwnInv'
  BY <1>1, <1>2, MotionFacts, Remains
<1>5. PlacesTyped'
  <2>1. PlacesTyped /\ MaxEntries \in Nat
    BY MotionFacts, MotionSizes
  <2>2. 0 \in 0..added /\ camera \in 1..added
    <3>1. added \in 0..MaxEntries /\ camera \in 0..added
      BY <2>1 DEF PlacesTyped
    <3>. QED
      BY <1>1, <2>1, <3>1
  <2>. QED
    BY <1>1, <2>1, <2>2 DEF PlacesTyped, inputVars
<1>. QED
  BY <1>2, <1>3, <1>4, <1>5, Together

\* A reset is asked for.
LEMMA AsksReset == ASSUME MotionInv, AskReset PROVE MotionInv'
<1>1. asked' = camera /\ UNCHANGED <<cameraVars, windowVars, eventVars, inputVars, thread>>
  BY DEF AskReset
<1>2. Broker' = Broker /\ motionBudget' \in MotionBudgetTypes
  BY MotionFacts, MotionSpent DEF AskReset
<1>3. WindowTyped' /\ WindowFresh'
  BY <1>1, MotionFacts, WindowsStay
<1>4. state' = state
  BY <1>1 DEF cameraVars
<1>5. EventsTyped' /\ OwnInv'
  BY <1>1, <1>2, <1>4, MotionFacts, Remains
<1>6. PlacesTyped'
  BY <1>1, MotionFacts DEF PlacesTyped, cameraVars, inputVars
<1>. QED
  BY <1>2, <1>3, <1>5, <1>6, Together

\* Whoever leaves, by a reset, a cooldown, a lost stream or silence.
LEMMA Leaves ==
  ASSUME MotionInv, NEW e \in Entries, NEW to \in {"CONNECTING", "MONITORING"}, Leave(e, to), ended' = Closed(e),
         Broker' = Broker, thread' = thread
  PROVE  /\ WindowTyped' /\ WindowFresh' /\ EventsTyped' /\ OwnInv'
         /\ state' \in [Entries -> {"CONNECTING", "MONITORING", "TRIGGERED"}]
<1>1. /\ state' = [state EXCEPT ![e] = to] /\ openEvent' = [openEvent EXCEPT ![e] = 0]
      /\ UNCHANGED <<incidents, crossed>> /\ Forget(e)
  BY DEF Leave
<1>2. WindowTyped' /\ WindowFresh'
  BY <1>1, MotionFacts, Forgets
<1>3. /\ state' \in [Entries -> {"CONNECTING", "MONITORING", "TRIGGERED"}]
      /\ state'[e] # "TRIGGERED" /\ \A f \in Entries \ {e} : state'[f] = state[f]
  <2>1. state \in [Entries -> {"CONNECTING", "MONITORING", "TRIGGERED"}]
    BY MotionFacts DEF PlacesTyped
  <2>. QED
    BY <1>1, <2>1
<1>4. EventsTyped' /\ OwnInv'
  <2>1. \A f \in Entries \ {e} : state'[f] = state[f] /\ thread'[f] = thread[f]
    BY <1>3
  <2>. QED
    BY <1>1, <1>3, <2>1, MotionFacts, Closes
<1>. QED
  BY <1>2, <1>3, <1>4

\* A camera is reset: its capture ends and its window starts anew.
LEMMA ResetsCamera == ASSUME MotionInv, ResetCamera PROVE MotionInv'
<1>1. /\ asked # 0 /\ asked' = 0
      /\ UNCHANGED <<camera, added, stopped, primed, inputVars, thread, motionBudget>>
  BY DEF ResetCamera
<1>2. Broker' = Broker
  BY <1>1 DEF Broker
<1>3. asked \in Entries
  <2>1. asked \in 0..added /\ added \in 0..MaxEntries /\ MaxEntries \in Nat
    BY MotionFacts, MotionSizes DEF PlacesTyped
  <2>. QED
    BY <1>1, <2>1 DEF Entries
<1>4. /\ WindowTyped' /\ WindowFresh' /\ EventsTyped' /\ OwnInv'
      /\ state' \in [Entries -> {"CONNECTING", "MONITORING", "TRIGGERED"}]
  <2>1. CASE Leave(asked, "MONITORING") /\ ended' = Closed(asked)
    BY <1>1, <1>2, <1>3, <2>1, Leaves
  <2>2. CASE UNCHANGED <<state, windowVars, eventVars>>
    <3>1. WindowTyped' /\ WindowFresh' /\ EventsTyped' /\ OwnInv'
      BY <1>1, <1>2, <2>2, MotionFacts, Remains, WindowsStay
    <3>. QED
      BY <2>2, <3>1, MotionFacts DEF PlacesTyped
  <2>. QED
    BY <2>1, <2>2 DEF ResetCamera
<1>5. PlacesTyped'
  <2>1. PlacesTyped /\ MaxEntries \in Nat
    BY MotionFacts, MotionSizes
  <2>2. 0 \in 0..added
    <3>1. added \in 0..MaxEntries
      BY <2>1 DEF PlacesTyped
    <3>. QED
      BY <2>1, <3>1
  <2>. QED
    BY <1>1, <1>4, <2>1, <2>2 DEF PlacesTyped, inputVars
<1>. QED
  BY <1>1, <1>4, <1>5, MotionFacts, Together

\* A window in motion opens an incident.
LEMMA RecordsTrigger == ASSUME MotionInv, NEW e \in Entries, RecordTrigger(e) PROVE MotionInv'
<1>. DEFINE i == Len(incidents) + 1
<1>1. /\ thread[e] = "trigger" /\ incidents' = Append(incidents, e)
      /\ openEvent' = [openEvent EXCEPT ![e] = i]
      /\ crossed' = IF state[e] = "TRIGGERED" THEN crossed ELSE crossed \cup {i}
      /\ thread' = [thread EXCEPT ![e] = "idle"]
      /\ UNCHANGED <<cameraVars, windowVars, ended, inputVars, asked, motionBudget>>
  BY DEF RecordTrigger
<1>2. Broker' = Broker /\ state' = state /\ ended' = ended
  BY <1>1 DEF Broker, cameraVars
<1>3. WindowTyped' /\ WindowFresh'
  BY <1>1, MotionFacts, WindowsStay
<1>4. /\ EventsTyped /\ OwnInv /\ PlacesTyped /\ Len(incidents) \in Nat /\ DOMAIN incidents = 1..Len(incidents)
      /\ incidents \in Seq(Entries)
  BY MotionFacts, EventsAre DEF EventsTyped
<1>5. /\ incidents' \in Seq(Entries) /\ Len(incidents') = i /\ incidents'[i] = e
      /\ \A j \in 1..Len(incidents) : incidents'[j] = incidents[j]
  BY <1>1, <1>4, AppendProperties
<1>6. DOMAIN incidents' = 1..i /\ i \in Nat /\ 1..i = (1..Len(incidents)) \cup {i} /\ i \notin 1..Len(incidents)
  BY <1>4, <1>5, LenProperties
<1>7. /\ openEvent' \in [Entries -> 0..i] /\ openEvent'[e] = i /\ \A f \in Entries \ {e} : openEvent'[f] = openEvent[f]
  <2>1. openEvent \in [Entries -> 0..Len(incidents)] /\ 0..Len(incidents) \subseteq 0..i /\ i \in 0..i
    BY <1>4, <1>6 DEF EventsTyped
  <2>. HIDE DEF i
  <2>. QED
    BY <1>1, <2>1
<1>8. /\ thread' \in [Entries -> {"idle", "copied", "sized", "trigger", "over"}] /\ thread'[e] = "idle"
      /\ \A f \in Entries \ {e} : thread'[f] = thread[f]
  BY <1>1, <1>4 DEF PlacesTyped
<1>. HIDE DEF i
<1>9. EventsTyped'
  BY <1>1, <1>2, <1>4, <1>5, <1>6, <1>7 DEF EventsTyped
<1>10. i \notin ended
  BY <1>4, <1>6 DEF EventsTyped
<1>11. \A f \in Entries : openEvent'[f] # 0 => incidents'[openEvent'[f]] = f
  <2>. SUFFICES ASSUME NEW f \in Entries \ {e}, openEvent'[f] # 0 PROVE incidents'[openEvent'[f]] = f
    BY <1>5, <1>7
  <2>1. openEvent'[f] = openEvent[f] /\ openEvent[f] \in DOMAIN incidents
    BY <1>4, <1>7, EventsAre
  <2>. QED
    BY <1>4, <1>5, <2>1 DEF OwnInv
<1>12. ASSUME NEW j \in OpenOnes'
       PROVE  /\ openEvent'[incidents'[j]] = j /\ state'[incidents'[j]] = "TRIGGERED"
              /\ thread'[incidents'[j]] # "trigger" /\ (Broker' \/ thread'[incidents'[j]] # "over")
  <2>1. CASE j = i
    <3>1. state[e] = "TRIGGERED"
      BY <1>1, <2>1, <1>12 DEF OpenOnes
    <3>. QED
      BY <2>1, <3>1, <1>2, <1>5, <1>7, <1>8
  <2>2. CASE j # i
    <3>1. j \in OpenOnes /\ incidents'[j] = incidents[j] /\ incidents[j] \in Entries
      BY <2>2, <1>12, <1>1, <1>2, <1>4, <1>5, <1>6, EventsAre DEF OpenOnes
    <3>2. incidents[j] # e
      BY <3>1, <1>1, <1>4 DEF OwnInv
    <3>. QED
      BY <3>1, <3>2, <1>2, <1>4, <1>7, <1>8 DEF OwnInv
  <2>. QED
    BY <2>1, <2>2
<1>13. ASSUME NEW f \in Entries, state'[f] = "TRIGGERED", thread'[f] \notin {"over", "trigger"}
       PROVE  openEvent'[f] \in (DOMAIN incidents') \ ended'
  <2>1. CASE f = e
    BY <2>1, <1>2, <1>6, <1>7, <1>10
  <2>2. CASE f # e
    BY <2>2, <1>13, <1>2, <1>4, <1>6, <1>7, <1>8 DEF OwnInv
  <2>. QED
    BY <2>1, <2>2
<1>14. OwnInv'
  BY <1>11, <1>12, <1>13 DEF OwnInv
<1>15. PlacesTyped'
  BY <1>1, <1>4, <1>8 DEF PlacesTyped, cameraVars, inputVars
<1>. QED
  BY <1>1, <1>3, <1>9, <1>14, <1>15, MotionFacts, Together

\* A frame is captured for an open incident.
LEMMA CapturesFrame == ASSUME MotionInv, NEW e \in Entries, CaptureFrame(e) PROVE MotionInv'
<1>. DEFINE from == IF state[e] = "CONNECTING" THEN "MONITORING" ELSE state[e]
<1>1. /\ Capture /\ AtRest(e) /\ UNCHANGED <<camera, added, stopped, eventVars, inputVars, asked, motionBudget>>
  BY DEF CaptureFrame, CaptureLoop
<1>2. Broker' = Broker /\ thread[e] = "idle"
  BY <1>1 DEF Broker, AtRest
<1>3. CASE primed[e]
  <2>1. PICK m \in Samples : ApplyFeature(e, m, from)
    BY <1>3 DEF CaptureFrame
  <2>2. m \in BOOLEAN /\ primed' = primed
    BY <1>3 DEF CaptureFrame, Samples
  <2>3. WindowTyped' /\ WindowFresh'
    BY <2>1, <2>2, MotionFacts, Applies
  <2>4. /\ EventsTyped' /\ OwnInv'
        /\ state' \in [Entries -> {"CONNECTING", "MONITORING", "TRIGGERED"}]
        /\ thread' \in [Entries -> {"idle", "copied", "sized", "trigger", "over"}]
    BY <1>1, <1>2, <2>1, <2>2, MotionFacts, Triggers
  <2>5. PlacesTyped'
    BY <1>1, <2>2, <2>4, MotionFacts DEF PlacesTyped, inputVars
  <2>. QED
    BY <1>1, <2>3, <2>4, <2>5, MotionFacts, Together
<1>4. CASE ~primed[e]
  <2>1. /\ primed' = [primed EXCEPT ![e] = TRUE] /\ state' = [state EXCEPT ![e] = from] /\ UNCHANGED <<windowVars, thread>>
    BY <1>4 DEF CaptureFrame
  <2>2. WindowTyped' /\ WindowFresh'
    BY <2>1, MotionFacts, WindowsStay
  <2>3. PlacesTyped' /\ \A f \in Entries : state[f] = "TRIGGERED" <=> state'[f] = "TRIGGERED"
    BY <1>1, <2>1, MotionFacts DEF PlacesTyped, inputVars
  <2>4. EventsTyped' /\ OwnInv'
    BY <1>1, <1>2, <2>1, <2>3, MotionFacts, Remains
  <2>. QED
    BY <1>1, <2>2, <2>3, <2>4, MotionFacts, Together
<1>. QED
  BY <1>3, <1>4

\* The stream breaks off within a capture.
LEMMA LosesStream == ASSUME MotionInv, NEW e \in Entries, LoseStream(e) PROVE MotionInv'
<1>1. primed' = [primed EXCEPT ![e] = FALSE] /\ UNCHANGED <<camera, added, stopped, inputVars, thread, asked>>
  BY DEF LoseStream
<1>2. Broker' = Broker /\ motionBudget' \in MotionBudgetTypes
  BY MotionFacts, MotionSpent DEF LoseStream
<1>3. /\ WindowTyped' /\ WindowFresh' /\ EventsTyped' /\ OwnInv'
      /\ state' \in [Entries -> {"CONNECTING", "MONITORING", "TRIGGERED"}]
  <2>1. CASE Leave(e, "CONNECTING") /\ ended' = Closed(e)
    BY <1>1, <1>2, <2>1, Leaves
  <2>2. CASE UNCHANGED <<state, windowVars, eventVars>>
    <3>1. WindowTyped' /\ WindowFresh' /\ EventsTyped' /\ OwnInv'
      BY <1>1, <1>2, <2>2, MotionFacts, Remains, WindowsStay
    <3>. QED
      BY <2>2, <3>1, MotionFacts DEF PlacesTyped
  <2>. QED
    BY <2>1, <2>2 DEF LoseStream
<1>4. PlacesTyped'
  BY <1>1, <1>3, MotionFacts DEF PlacesTyped, inputVars
<1>. QED
  BY <1>2, <1>3, <1>4, Together

\* A capture ends and its incident is closed.
LEMMA EndsCapture == ASSUME MotionInv, NEW e \in Entries, EndCapture(e) PROVE MotionInv'
<1>1. /\ thread' = [thread EXCEPT ![e] = "over"] /\ openEvent' = [openEvent EXCEPT ![e] = 0] /\ ended' = Closed(e)
      /\ UNCHANGED <<cameraVars, windowVars, incidents, crossed, inputVars, asked, motionBudget>>
  BY DEF EndCapture
<1>2. Broker' = Broker /\ state' = state
  BY <1>1 DEF Broker, cameraVars
<1>3. WindowTyped' /\ WindowFresh'
  BY <1>1, MotionFacts, WindowsStay
<1>4. /\ thread' \in [Entries -> {"idle", "copied", "sized", "trigger", "over"}] /\ thread'[e] = "over"
      /\ \A f \in Entries \ {e} : thread'[f] = thread[f]
  BY <1>1, MotionFacts DEF PlacesTyped
<1>5. EventsTyped' /\ OwnInv'
  BY <1>1, <1>2, <1>4, MotionFacts, Closes
<1>6. PlacesTyped'
  BY <1>1, <1>4, MotionFacts DEF PlacesTyped, cameraVars, inputVars
<1>. QED
  BY <1>1, <1>3, <1>5, <1>6, MotionFacts, Together

\* An entry is armed again, or goes stale.
LEMMA CoolsDown ==
  ASSUME MotionInv, NEW e \in Entries, Rearm(e) \/ GoStale(e)
  PROVE  MotionInv'
<1>1. /\ ended' = Closed(e) /\ (Leave(e, "MONITORING") \/ Leave(e, "CONNECTING"))
      /\ UNCHANGED <<camera, added, stopped, primed, inputVars, thread, asked, motionBudget>>
  BY DEF Rearm, GoStale
<1>2. Broker' = Broker
  BY <1>1 DEF Broker
<1>3. ended' = Closed(e)
  BY DEF Rearm, GoStale
<1>4. /\ WindowTyped' /\ WindowFresh' /\ EventsTyped' /\ OwnInv'
      /\ state' \in [Entries -> {"CONNECTING", "MONITORING", "TRIGGERED"}]
  BY <1>1, <1>2, <1>3, Leaves
<1>5. PlacesTyped'
  BY <1>1, <1>4, MotionFacts DEF PlacesTyped, inputVars
<1>. QED
  BY <1>1, <1>4, <1>5, MotionFacts, Together

\* The baseline is taken anew.
LEMMA ResetsBaseline == ASSUME MotionInv, NEW e \in Entries, BaselineReset(e) PROVE MotionInv'
<1>1. Forget(e) /\ UNCHANGED <<cameraVars, eventVars, inputVars, thread, asked>>
  BY DEF BaselineReset
<1>2. Broker' = Broker /\ motionBudget' \in MotionBudgetTypes
  BY MotionFacts, MotionSpent DEF BaselineReset
<1>3. WindowTyped' /\ WindowFresh'
  BY <1>1, MotionFacts, Forgets
<1>4. state' = state
  BY <1>1 DEF cameraVars
<1>5. EventsTyped' /\ OwnInv'
  BY <1>1, <1>2, <1>4, MotionFacts, Remains
<1>6. PlacesTyped'
  BY <1>1, MotionFacts DEF PlacesTyped, cameraVars, inputVars
<1>. QED
  BY <1>2, <1>3, <1>5, <1>6, Together

\* A notice of the broker arrives.
LEMMA ReceivesNotice == ASSUME MotionInv, NEW e \in Entries, ReceiveNotice(e) PROVE MotionInv'
<1>1. /\ heard' \in {"lately", "long ago"} /\ (thread' = [thread EXCEPT ![e] = "sized"] \/ thread' = [thread EXCEPT ![e] = "copied"])
      /\ UNCHANGED <<cameraVars, window, width, fresh, tainted, eventVars, subscribed, asked>>
      /\ copy' = copy \/ copy' = window[e]
  BY DEF ReceiveNotice
<1>2. Broker' = Broker /\ motionBudget' \in MotionBudgetTypes
  <2>1. CASE UNCHANGED motionBudget
    BY <2>1, MotionFacts DEF Broker
  <2>2. CASE UseMotion("pause") \/ UseMotion("resize")
    BY <2>2, MotionFacts, MotionSpent
  <2>. QED
    BY <2>1, <2>2 DEF ReceiveNotice
<1>3. thread[e] = "idle"
  BY DEF ReceiveNotice, Subscribed, AtRest, Broker, Capture
<1>4. WindowTyped' /\ WindowFresh'
  BY <1>1, MotionFacts DEF WindowTyped, WindowFresh
<1>5. /\ thread' \in [Entries -> {"idle", "copied", "sized", "trigger", "over"}]
      /\ \A f \in Entries : thread[f] = thread'[f] \/ {thread[f], thread'[f]} \subseteq {"idle", "copied", "sized"}
  <2>1. thread \in [Entries -> {"idle", "copied", "sized", "trigger", "over"}]
    BY MotionFacts DEF PlacesTyped
  <2>2. CASE thread' = [thread EXCEPT ![e] = "sized"]
    BY <1>3, <2>1, <2>2
  <2>3. CASE thread' = [thread EXCEPT ![e] = "copied"]
    BY <1>3, <2>1, <2>3
  <2>. QED
    BY <1>1, <2>2, <2>3
<1>6. state' = state
  BY <1>1 DEF cameraVars
<1>7. EventsTyped' /\ OwnInv'
  BY <1>1, <1>2, <1>5, <1>6, MotionFacts, Remains
<1>8. PlacesTyped'
  BY <1>1, <1>5, MotionFacts DEF PlacesTyped, cameraVars
<1>. QED
  BY <1>2, <1>4, <1>7, <1>8, Together

\* A sample closes a window and opens the next.
LEMMA StoresWindow == ASSUME MotionInv, NEW e \in Entries, StoreWindow(e) PROVE MotionInv'
<1>1. /\ thread[e] = "copied" /\ thread' = [thread EXCEPT ![e] = "sized"]
      /\ UNCHANGED <<cameraVars, eventVars, inputVars, asked, motionBudget>>
  BY DEF StoreWindow
<1>2. Broker' = Broker /\ state' = state
  BY <1>1 DEF Broker, cameraVars
<1>3. WindowTyped' /\ WindowFresh'
  BY MotionFacts, Stores
<1>4. /\ thread' \in [Entries -> {"idle", "copied", "sized", "trigger", "over"}]
      /\ \A f \in Entries : thread[f] = thread'[f] \/ {thread[f], thread'[f]} \subseteq {"idle", "copied", "sized"}
  BY <1>1, MotionFacts DEF PlacesTyped
<1>5. EventsTyped' /\ OwnInv'
  BY <1>1, <1>2, <1>4, MotionFacts, Remains
<1>6. PlacesTyped'
  BY <1>1, <1>4, MotionFacts DEF PlacesTyped, cameraVars, inputVars
<1>. QED
  BY <1>1, <1>3, <1>5, <1>6, MotionFacts, Together

\* A notice is sampled into the window.
LEMMA SamplesNotice == ASSUME MotionInv, NEW e \in Entries, NoticeSample(e) PROVE MotionInv'
<1>1. /\ thread[e] = "sized" /\ UNCHANGED <<camera, added, stopped, primed, eventVars, inputVars, asked, motionBudget>>
  BY DEF NoticeSample
<1>2. Broker' = Broker
  BY <1>1 DEF Broker
<1>3. PICK m \in Samples : ApplyFeature(e, m, IF state[e] = "CONNECTING" THEN "MONITORING" ELSE state[e])
  BY DEF NoticeSample
<1>4. m \in BOOLEAN
  BY DEF Samples
<1>5. WindowTyped' /\ WindowFresh'
  BY <1>3, <1>4, MotionFacts, Applies
<1>6. /\ EventsTyped' /\ OwnInv'
      /\ state' \in [Entries -> {"CONNECTING", "MONITORING", "TRIGGERED"}]
      /\ thread' \in [Entries -> {"idle", "copied", "sized", "trigger", "over"}]
  BY <1>1, <1>2, <1>3, <1>4, MotionFacts, Triggers
<1>7. PlacesTyped'
  BY <1>1, <1>6, MotionFacts DEF PlacesTyped, inputVars
<1>. QED
  BY <1>1, <1>5, <1>6, <1>7, MotionFacts, Together

\* Notices stop, the subscription is lost or taken up again.
LEMMA Quiets == ASSUME MotionInv, NoticesStop \/ LoseSubscription \/ Resubscribe PROVE MotionInv'
<1>1. /\ UNCHANGED <<cameraVars, window, width, copy, eventVars, thread, asked>>
      /\ heard' \in {heard, "long ago"} /\ subscribed' \in {subscribed, TRUE, FALSE}
  BY DEF NoticesStop, LoseSubscription, Resubscribe, windowVars
<1>2. Broker' = Broker /\ motionBudget' \in MotionBudgetTypes
  BY MotionFacts, MotionSpent DEF NoticesStop, LoseSubscription, Resubscribe, Broker
<1>3. state' = state
  BY <1>1 DEF cameraVars
<1>4. WindowTyped' /\ WindowFresh'
  <2>1. CASE UNCHANGED windowVars
    BY <2>1, MotionFacts, WindowsStay
  <2>2. CASE LoseSubscription
    <3>1. tainted' = tainted \cup {e \in Entries : window[e] # <<>>} /\ fresh' = [e \in Entries |-> 0]
      BY <2>2 DEF LoseSubscription
    <3>2. \A e \in Entries \ tainted' : Len(window[e]) = 0
      BY <3>1
    <3>3. WindowTyped'
      BY <1>1, <3>1, MotionFacts DEF WindowTyped
    <3>4. WindowFresh'
      <4>1. \A e \in Entries : fresh'[e] = 0
        BY <3>1
      <4>2. window' = window
        BY <1>1
      <4>. SUFFICES ASSUME NEW e \in Entries \ tainted' PROVE Len(window'[e]) <= fresh'[e]
        BY DEF WindowFresh
      <4>3. Len(window'[e]) = 0 /\ fresh'[e] = 0
        BY <3>2, <4>1, <4>2
      <4>. QED
        BY <4>3
    <3>. QED
      BY <3>3, <3>4
  <2>. QED
    BY <2>1, <2>2 DEF NoticesStop, Resubscribe
<1>5. EventsTyped' /\ OwnInv'
  BY <1>1, <1>2, <1>3, MotionFacts, Remains
<1>6. PlacesTyped'
  BY <1>1, MotionFacts DEF PlacesTyped, cameraVars
<1>. QED
  BY <1>2, <1>4, <1>5, <1>6, Together

\* Every step of the motion service keeps its invariant.
LEMMA MotionSteps == ASSUME MotionInv, MotionNext PROVE MotionInv'
<1>1. CASE AddCamera \/ RemoveCamera \/ AskReset \/ ResetCamera
  BY <1>1, AddsCamera, RemovesCamera, AsksReset, ResetsCamera
<1>2. CASE NoticesStop \/ LoseSubscription \/ Resubscribe
  BY <1>2, Quiets
<1>3. ASSUME NEW e \in Entries, MotionThread(e) PROVE MotionInv'
  BY <1>3, RecordsTrigger, EndsCapture, CoolsDown, StoresWindow, SamplesNotice DEF MotionThread
<1>4. ASSUME NEW e \in Entries, CaptureFrame(e) \/ LoseStream(e) \/ BaselineReset(e) \/ ReceiveNotice(e) PROVE MotionInv'
  BY <1>4, CapturesFrame, LosesStream, ResetsBaseline, ReceivesNotice
<1>. QED
  BY <1>1, <1>2, <1>3, <1>4 DEF MotionNext

\* The invariant has the type, the match of the incidents and the fresh windows.
LEMMA MotionIsTold == ASSUME MotionInv PROVE MotionTypeOK /\ IncidentsMatch /\ WindowFresh
<1>1. \A i \in (DOMAIN incidents) \ (ended \cup crossed) :
       LET e == incidents[i] IN
       /\ openEvent[e] = i
       /\ camera = e => state[e] = "TRIGGERED"
       /\ camera # e => Broker \/ thread[e] # "over"
  BY MotionFacts DEF OwnInv, OpenOnes
<1>2. \A e \in Entries : state[e] = "TRIGGERED" /\ thread[e] # "over" =>
       thread[e] = "trigger" \/ openEvent[e] \in (DOMAIN incidents) \ ended
  BY MotionFacts DEF OwnInv
<1>. QED
  BY <1>1, <1>2, MotionFacts DEF IncidentsMatch

-----------------------------------------------------------------------------
(* Recursion.  A function that is defined by what it is for one less exists,   *)
(* and what holds at the start and is handed on holds to the end.             *)

LEMMA LeastOf ==
  ASSUME NEW T, T \subseteq Nat, T # {}
  PROVE  \E x \in T : \A y \in T : x <= y
<1> DEFINE R == OpToRel(<, Nat)
<1>1. \E x \in T : \A y \in T : <<y, x>> \notin R
  <2>. HIDE DEF R
  <2>1. IsWellFoundedOn(R, Nat)
    BY NatLessThanWellFounded DEF R
  <2>. QED
    BY <2>1, WFMin, Zenon
<1>2. PICK x \in T : \A y \in T : <<y, x>> \notin R
  BY <1>1
<1>3. ASSUME NEW y \in T PROVE x <= y
  <2>1. ~(y < x)
    BY <1>2, <1>3 DEF OpToRel
  <2>. QED
    BY <2>1
<1>. QED
  BY <1>3

\* What holds at 0 and goes on from each number to the next holds up to n.
LEMMA StepByStep ==
  ASSUME NEW n \in Nat, NEW I \in SUBSET (0 .. n), 0 \in I, \A k \in 1 .. n : k - 1 \in I => k \in I
  PROVE  \A k \in 0 .. n : k \in I
<1> DEFINE T == (0 .. n) \ I
<1>. SUFFICES ASSUME T # {} PROVE FALSE
  OBVIOUS
<1>1. PICK x \in T : \A y \in T : x <= y
  <2>1. T \subseteq Nat
    OBVIOUS
  <2>. HIDE DEF T
  <2>. QED
    BY <2>1, LeastOf
<1>2. x \in 1 .. n /\ x \notin I
  OBVIOUS
<1>3. x - 1 \in 0 .. n /\ x - 1 \in I
  BY <1>1, <1>2
<1>. QED
  BY <1>2, <1>3

Unrolls(V, zero, n, step) ==
  \E g \in [0 .. n -> V] : g[0] = zero /\ \A k \in 1 .. n : g[k] = step[<<k, g[k - 1]>>]

\* A recursive function over 0 .. n exists as defined: its values unroll.
LEMMA Unrolled ==
  ASSUME NEW V, NEW zero \in V, NEW n \in Nat, NEW step \in [(1 .. n) \X V -> V]
  PROVE  Unrolls(V, zero, n, step)
<1> DEFINE P(k) == \E g \in [0 .. k -> V] : g[0] = zero /\ \A i \in 1 .. k : g[i] = step[<<i, g[i - 1]>>]
           I == {k \in 0 .. n : P(k)}
<1>1. P(0)
  <2> DEFINE g == [i \in 0 .. 0 |-> zero]
  <2>1. g \in [0 .. 0 -> V] /\ g[0] = zero /\ 1 .. 0 = {}
    OBVIOUS
  <2>. QED
    BY <2>1
<1>2. ASSUME NEW k \in 1 .. n, P(k - 1) PROVE P(k)
  <2>1. PICK g \in [0 .. k - 1 -> V] : g[0] = zero /\ \A i \in 1 .. k - 1 : g[i] = step[<<i, g[i - 1]>>]
    BY <1>2
  <2> DEFINE v == step[<<k, g[k - 1]>>]
             h == [i \in 0 .. k |-> IF i = k THEN v ELSE g[i]]
  <2>2. k - 1 \in 0 .. k - 1 /\ g[k - 1] \in V
    BY <2>1
  <2>3. <<k, g[k - 1]>> \in (1 .. n) \X V
    BY <2>2
  <2>4. v \in V
    BY <2>3
  <2>. HIDE DEF v
  <2>5. h \in [0 .. k -> V]
    BY <2>1, <2>4
  <2>6. h[0] = zero
    BY <2>1
  <2>7. ASSUME NEW i \in 1 .. k PROVE h[i] = step[<<i, h[i - 1]>>]
    <3>1. CASE i = k
      <4>1. h[i] = v /\ h[i - 1] = g[k - 1]
        BY <3>1
      <4>. QED
        BY <4>1, <3>1 DEF v
    <3>2. CASE i # k
      <4>1. i \in 1 .. k - 1 /\ h[i] = g[i] /\ h[i - 1] = g[i - 1]
        BY <3>2
      <4>. QED
        BY <4>1, <2>1
    <3>. QED
      BY <3>1, <3>2
  <2>. QED
    BY <2>5, <2>6, <2>7
<1>. HIDE DEF P
<1>3. I \in SUBSET (0 .. n) /\ 0 \in I /\ \A k \in 1 .. n : k - 1 \in I => k \in I
  BY <1>1, <1>2
<1>. HIDE DEF I
<1>4. \A k \in 0 .. n : k \in I
  BY <1>3, StepByStep
<1>5. P(n)
  BY <1>4 DEF I
<1>. QED
  BY <1>5 DEF P, Unrolls

-----------------------------------------------------------------------------
(* The events.                                                                *)

Event == [id : Nat, of : Reporters, at : Nat]
EventTables == [ids : Seq(Nat), of : SUBSET Reporters, keeps : Nat,
                fail : Nat, refuse : Nat, tick : Nat, edit : Nat, read : Nat]
Ledger == [evicted : Nat, sent : Nat, inserted : Nat, duplicates : Nat, refused : Nat, dropped : Nat]
StoredRow == [event : Event, expires : Nat]
Handlings == [rows : SUBSET StoredRow, refused : Nat]
Couriers == [pc : {"take", "send", "prepared", "recorded"}, batch : Seq(Event), handling : Handlings]

\* What happened: one event for each id, in the order of the ids.
DecidedInv ==
  /\ eventBudget \in EventTables
  /\ \A j, k \in 1 .. Len(eventBudget.ids) : eventBudget.ids[j] = eventBudget.ids[k] => j = k
  /\ today \in Nat
  /\ registry \in [Reporters -> [is : {"watched", "plain", "gone"}, keeps : Nat]]
  /\ happened \in Seq(Event) /\ Len(happened) <= Len(eventBudget.ids)
  /\ \A k \in 1 .. Len(happened) : happened[k].id = eventBudget.ids[k]

\* What waits is the latest that happened.
OutboxInv ==
  /\ outbox \in Seq(Event) /\ Len(outbox) <= OutboxSize /\ Len(outbox) <= Len(happened)
  /\ \A i \in 1 .. Len(outbox) : outbox[i] = happened[Len(happened) - Len(outbox) + i]

\* The batch is a stretch of what happened, from b, up to what waits, unless the
\* queue is full.
BatchFrom(b) ==
  /\ \A i \in 1 .. Len(courier.batch) : courier.batch[i] = happened[b + i]
  /\ b + Len(courier.batch) <= Len(happened) - Len(outbox)
  /\ Len(outbox) < OutboxSize => b + Len(courier.batch) = Len(happened) - Len(outbox)
CourierInv ==
  /\ courier \in Couriers /\ Len(courier.batch) <= BatchSize
  /\ (courier.pc = "take") = (courier.batch = << >>)
  /\ \E b \in 0 .. Len(happened) : BatchFrom(b)

\* Rows that are stored or may yet be: of what happened, one for an id.
FitRows(rows, events) ==
  /\ IsFiniteSet(rows)
  /\ \A r \in rows : r.event \in events
  /\ \A r, q \in rows : r.event.id = q.event.id => r = q
StoredInv ==
  /\ stored \subseteq StoredRow /\ FitRows(stored, ToSet(happened))
  /\ \A r \in stored : r.event \in kept
  /\ abandoned \subseteq SUBSET StoredRow /\ \A rows \in abandoned : FitRows(rows, ToSet(happened))

\* What the API has found of the batch in hand.
HandlingInv ==
  /\ FitRows(courier.handling.rows, ToSet(happened))
  /\ courier.pc \in {"prepared", "recorded"} =>
       Cardinality(courier.handling.rows) + courier.handling.refused <= Len(courier.batch)
  /\ courier.pc = "prepared" =>
       Cardinality(ToSet(courier.batch) \ {r.event : r \in courier.handling.rows}) <= courier.handling.refused
  /\ courier.pc = "recorded" => Cardinality(ToSet(courier.batch) \ kept) <= courier.handling.refused

\* The counters say how many events are no longer on their way, and own up to
\* those that were never stored.
LedgerInv ==
  /\ counters \in Ledger
  /\ Len(happened) = Len(outbox) + Len(courier.batch) + counters.evicted + counters.dropped + counters.sent
  /\ counters.sent = counters.inserted + counters.duplicates + counters.refused
  /\ Cardinality(Gone \ kept) <= counters.evicted + counters.dropped + counters.refused

EventInv ==
  /\ DecidedInv /\ OutboxInv /\ CourierInv /\ StoredInv /\ HandlingInv /\ LedgerInv
  /\ walk.pc \in {"closed", "open", "read"}

-----------------------------------------------------------------------------
\* The entries of a stretch of a sequence are no more than it is long.
LEMMA StretchIsSmall ==
  ASSUME NEW S, NEW s \in Seq(S), NEW n \in 0 .. Len(s)
  PROVE  LET T == {s[i] : i \in 1 .. n} IN IsFiniteSet(T) /\ Cardinality(T) <= n
<1> DEFINE T == {s[i] : i \in 1 .. n}
           f == [i \in 1 .. n |-> s[i]]
<1>1. f \in Surjection(1 .. n, T)
  BY DEF Surjection
<1>2. IsFiniteSet(1 .. n) /\ Cardinality(1 .. n) = n
  BY FS_Interval
<1>. QED
  BY <1>1, <1>2, FS_Surjection

\* A sequence has no more different entries than places.
LEMMA EntriesAreFew ==
  ASSUME NEW S, NEW s \in Seq(S)
  PROVE  IsFiniteSet(ToSet(s)) /\ Cardinality(ToSet(s)) \in Nat /\ Cardinality(ToSet(s)) <= Len(s)
<1>1. ToSet(s) = {s[i] : i \in 1 .. Len(s)}
  BY DEF ToSet
<1>2. Len(s) \in 0 .. Len(s)
  OBVIOUS
<1>. QED
  BY <1>1, <1>2, StretchIsSmall, FS_CardinalityType

\* What grows by a few stays small.
LEMMA AddsFew ==
  ASSUME NEW S, NEW D, NEW T, IsFiniteSet(S), IsFiniteSet(D), T \subseteq S \cup D,
         NEW n \in Int, NEW m \in Int, Cardinality(S) <= n, Cardinality(D) <= m
  PROVE  IsFiniteSet(T) /\ Cardinality(T) <= n + m
<1>1. IsFiniteSet(S \cup D) /\ Cardinality(S \cup D) = Cardinality(S) + Cardinality(D) - Cardinality(S \cap D)
  BY FS_Union
<1>2. IsFiniteSet(S \cap D)
  BY FS_Subset
<1>3. Cardinality(S) \in Nat /\ Cardinality(D) \in Nat /\ Cardinality(S \cap D) \in Nat
  BY <1>2, FS_CardinalityType
<1>4. IsFiniteSet(T) /\ Cardinality(T) <= Cardinality(S \cup D) /\ Cardinality(T) \in Nat
  BY <1>1, FS_Subset, FS_CardinalityType
<1>. QED
  BY <1>1, <1>3, <1>4

-----------------------------------------------------------------------------
\* An id stands for one event.
LEMMA OneAnId ==
  ASSUME DecidedInv, NEW e \in ToSet(happened), NEW f \in ToSet(happened), e.id = f.id
  PROVE  e = f
<1>1. PICK j \in 1 .. Len(happened) : e = happened[j]
  BY DEF ToSet, DecidedInv
<1>2. PICK k \in 1 .. Len(happened) : f = happened[k]
  BY DEF ToSet, DecidedInv
<1>3. j \in 1 .. Len(eventBudget.ids) /\ k \in 1 .. Len(eventBudget.ids)
  BY DEF DecidedInv, EventTables
<1>. QED
  BY <1>1, <1>2, <1>3 DEF DecidedInv

\* The place of what happened is where it stands.
LEMMA PlaceIs ==
  ASSUME DecidedInv, NEW k \in 1 .. Len(happened)
  PROVE  PlaceOf(happened[k]) = k
<1>1. \A j \in 1 .. Len(happened) : happened[j] = happened[k] => j = k
  <2>1. \A j \in 1 .. Len(happened) : j \in 1 .. Len(eventBudget.ids)
    BY DEF DecidedInv, EventTables
  <2>. QED
    BY <2>1 DEF DecidedInv
<1>2. DOMAIN happened = 1 .. Len(happened)
  BY DEF DecidedInv
<1>. QED
  BY <1>1, <1>2 DEF PlaceOf

\* A step of the events that is counted leaves their budget a table.
LEMMA BudgetGoesDown ==
  ASSUME DecidedInv, NEW what \in {"fail", "refuse", "tick", "edit", "read"}, UseEvent(what)
  PROVE  eventBudget' \in EventTables /\ eventBudget'.ids = eventBudget.ids
<1>1. eventBudget \in EventTables /\ eventBudget[what] > 0
  BY DEF DecidedInv, UseEvent
<1>2. eventBudget[what] \in Nat
  BY <1>1 DEF EventTables
<1>3. eventBudget[what] - 1 \in Nat
  BY <1>1, <1>2
<1>. QED
  BY <1>1, <1>3 DEF EventTables, UseEvent

\* Some of the rows that fit, fit.
LEMMA FitSubset ==
  ASSUME NEW all, NEW rows, FitRows(rows, all), NEW some \in SUBSET rows
  PROVE  FitRows(some, all)
BY FS_Subset DEF FitRows

\* What is added to the rows is new, and every row then has its event stored.
LEMMA RowsAdded ==
  ASSUME DecidedInv, StoredInv, NEW rows \in SUBSET StoredRow, FitRows(rows, ToSet(happened))
  PROVE  /\ AddRows(rows) \subseteq StoredRow /\ FitRows(AddRows(rows), ToSet(happened))
         /\ \A r \in rows : r.event \in {q.event : q \in AddRows(rows)}
<1> DEFINE New == {r \in rows : r.event.id \notin IdsOf(stored)}
<1>1. AddRows(rows) = stored \cup New
  BY DEF AddRows
<1>2. IsFiniteSet(New)
  BY FS_Subset DEF FitRows
<1>3. IsFiniteSet(stored \cup New)
  BY <1>2, FS_Union DEF StoredInv, FitRows
<1>4. \A r \in stored \cup New : r.event \in ToSet(happened)
  BY DEF StoredInv, FitRows
<1>5. \A r, q \in stored \cup New : r.event.id = q.event.id => r = q
  BY DEF StoredInv, FitRows, IdsOf
<1>6. ASSUME NEW r \in rows PROVE r.event \in {q.event : q \in stored \cup New}
  <2>1. CASE r \in New
    BY <2>1
  <2>2. CASE r \notin New
    <3>1. PICK q \in stored : q.event.id = r.event.id
      BY <2>2 DEF IdsOf
    <3>2. q.event \in ToSet(happened) /\ r.event \in ToSet(happened)
      BY DEF StoredInv, FitRows
    <3>3. q.event = r.event
      BY <3>1, <3>2, OneAnId
    <3>. QED
      BY <3>3
  <2>. QED
    BY <2>1, <2>2
<1>. QED
  BY <1>1, <1>3, <1>4, <1>5, <1>6 DEF StoredInv, FitRows

-----------------------------------------------------------------------------
\* The events' invariant holds at the start.
LEMMA EventStarts == ASSUME EventInit PROVE EventInv
<1>1. DecidedInv
  <2>1. eventBudget \in EventTables /\ \A j, k \in 1 .. Len(eventBudget.ids) : eventBudget.ids[j] = eventBudget.ids[k] => j = k
    BY EventAssumption DEF EventInit, EventTables
  <2>2. today \in Nat /\ happened = << >>
    BY DEF EventInit
  <2>3. registry \in [Reporters -> [is : {"watched", "plain", "gone"}, keeps : Nat]]
    BY <2>1 DEF EventInit, EventTables
  <2>4. happened \in Seq(Event) /\ Len(happened) = 0 /\ Len(eventBudget.ids) \in Nat
    BY <2>1, <2>2 DEF EventTables
  <2>. QED
    BY <2>1, <2>2, <2>3, <2>4 DEF DecidedInv
<1>2. /\ outbox = << >> /\ courier = CourierWaits /\ abandoned = {} /\ stored = {} /\ kept = {} /\ happened = << >>
      /\ counters = [evicted |-> 0, sent |-> 0, inserted |-> 0, duplicates |-> 0, refused |-> 0, dropped |-> 0]
      /\ walk = NotReading
  BY DEF EventInit
<1>3. OutboxInv
  BY <1>2, EventAssumption DEF OutboxInv
<1>4. courier.pc = "take" /\ courier.batch = << >> /\ courier.handling.rows = {} /\ courier.handling.refused = 0
  BY <1>2 DEF CourierWaits, NoHandling
<1>5. courier \in Couriers
  BY <1>2 DEF CourierWaits, NoHandling, Couriers, Handlings
<1>6. CourierInv
  <2>1. BatchFrom(0) /\ 0 \in 0 .. Len(happened)
    BY <1>2, <1>4 DEF BatchFrom
  <2>. QED
    BY <1>4, <1>5, <2>1, EventAssumption DEF CourierInv
<1>7. IsFiniteSet({})
  BY FS_EmptySet
<1>8. StoredInv /\ HandlingInv
  BY <1>2, <1>4, <1>7 DEF StoredInv, HandlingInv, FitRows
<1>9. LedgerInv
  <2>1. ToSet(happened) = {}
    BY <1>2 DEF ToSet
  <2>2. Gone \ kept = {}
    BY <2>1 DEF Gone
  <2>3. Cardinality(Gone \ kept) = 0
    BY <2>2, FS_EmptySet
  <2>. QED
    BY <1>2, <1>4, <2>3 DEF LedgerInv, Ledger
<1>. QED
  BY <1>1, <1>2, <1>3, <1>6, <1>8, <1>9 DEF EventInv, NotReading

\* What was decided stays so when only the day, the registry or the budget changes.
LEMMA DecidedKept ==
  ASSUME DecidedInv, happened' = happened, today' \in Nat, eventBudget' \in EventTables, eventBudget'.ids = eventBudget.ids,
         registry' \in [Reporters -> [is : {"watched", "plain", "gone"}, keeps : Nat]]
  PROVE  DecidedInv'
BY DEF DecidedInv

\* The losses that are not stored: no more than before and those that went.
LEMMA LossGrows ==
  ASSUME DecidedInv, LedgerInv, NEW D, IsFiniteSet(D), NEW m \in Int, Cardinality(D) <= m,
         NEW lost, lost \subseteq (Gone \ kept) \cup D
  PROVE  Cardinality(lost) <= counters.evicted + counters.dropped + counters.refused + m
<1>1. IsFiniteSet(ToSet(happened))
  BY EntriesAreFew DEF DecidedInv
<1>2. IsFiniteSet(Gone \ kept)
  BY <1>1, FS_Subset DEF Gone
<1> DEFINE n == counters.evicted + counters.dropped + counters.refused
<1>3. n \in Int /\ Cardinality(Gone \ kept) <= n
  BY DEF LedgerInv, Ledger
<1>4. Cardinality(lost) <= n + m
  <2> HIDE DEF n
  <2>. QED
    BY <1>2, <1>3, AddsFew
<1>. QED
  BY <1>4

\* Where neither what happened nor what is on its way nor the counters move, they still fit.
LEMMA WayKept ==
  ASSUME EventInv, UNCHANGED <<happened, outbox, courier, counters>>, kept \subseteq kept'
  PROVE  OutboxInv' /\ CourierInv' /\ HandlingInv' /\ LedgerInv'
<1>1. OutboxInv' /\ CourierInv'
  BY DEF EventInv, OutboxInv, CourierInv, BatchFrom
<1>2. IsFiniteSet(ToSet(courier.batch)) /\ IsFiniteSet(ToSet(happened))
  BY EntriesAreFew DEF EventInv, CourierInv, Couriers, DecidedInv
<1>3. Cardinality(ToSet(courier.batch) \ kept') <= Cardinality(ToSet(courier.batch) \ kept)
  <2>1. IsFiniteSet(ToSet(courier.batch) \ kept)
    BY <1>2, FS_Subset
  <2>2. ToSet(courier.batch) \ kept' \subseteq ToSet(courier.batch) \ kept
    OBVIOUS
  <2>. QED
    BY <2>1, <2>2, FS_Subset
<1>4. Cardinality(Gone \ kept') <= Cardinality(Gone \ kept)
  <2>1. IsFiniteSet(Gone \ kept)
    BY <1>2, FS_Subset DEF Gone
  <2>2. Gone \ kept' \subseteq Gone \ kept
    OBVIOUS
  <2>. QED
    BY <2>1, <2>2, FS_Subset
<1>5. /\ Cardinality(ToSet(courier.batch) \ kept') \in Nat /\ Cardinality(ToSet(courier.batch) \ kept) \in Nat
      /\ Cardinality(Gone \ kept') \in Nat /\ Cardinality(Gone \ kept) \in Nat
  BY <1>2, FS_Subset, FS_CardinalityType DEF Gone
<1>6. HandlingInv'
  <2>1. courier.handling.refused \in Nat
    BY DEF EventInv, CourierInv, Couriers, Handlings
  <2>2. courier.pc = "recorded" => Cardinality(ToSet(courier.batch) \ kept') <= courier.handling.refused
    BY <1>3, <1>5, <2>1 DEF EventInv, HandlingInv
  <2>. QED
    BY <2>2 DEF EventInv, HandlingInv
<1>7. Gone' = Gone
  BY DEF Gone, OnItsWay
<1>8. LedgerInv'
  <2>1. counters \in Ledger
    BY DEF EventInv, LedgerInv
  <2>2. counters.evicted + counters.dropped + counters.refused \in Nat
    BY <2>1 DEF Ledger
  <2>3. Cardinality(Gone \ kept') <= counters.evicted + counters.dropped + counters.refused
    BY <1>4, <1>5, <2>2 DEF EventInv, LedgerInv
  <2>. QED
    BY <1>7, <2>3 DEF EventInv, LedgerInv
<1>. QED
  BY <1>1, <1>6, <1>8
-----------------------------------------------------------------------------
\* The camera's own: time, the registry, rows that go.
LEMMA TheRest ==
  ASSUME EventInv, (\E c \in Reporters : Withdraw(c) \/ Reconfigure(c)) \/ PassDay \/ PurgeExpired \/ ReadPage
  PROVE  EventInv'
<1>0. DecidedInv /\ StoredInv /\ walk.pc \in {"closed", "open", "read"}
  BY DEF EventInv
<1>1. UNCHANGED <<happened, outbox, courier, abandoned, counters, kept>>
  BY DEF Withdraw, Reconfigure, PassDay, PurgeExpired, ReadPage, pathOfEvents, storeOfEvents
<1>2. OutboxInv' /\ CourierInv' /\ HandlingInv' /\ LedgerInv'
  BY <1>1, WayKept
<1>3. eventBudget' \in EventTables /\ eventBudget'.ids = eventBudget.ids
  <2>1. UseEvent("tick") \/ UseEvent("edit") \/ UseEvent("read") \/ UNCHANGED eventBudget
    BY DEF Withdraw, Reconfigure, PassDay, PurgeExpired, ReadPage
  <2>. QED
    BY <1>0, <2>1, BudgetGoesDown DEF DecidedInv
<1>4. today' \in Nat
  <2>1. today' = today \/ today' = today + 1
    BY DEF Withdraw, Reconfigure, PassDay, PurgeExpired, ReadPage
  <2>. QED
    BY <1>0, <2>1 DEF DecidedInv
<1>5. registry' \in [Reporters -> [is : {"watched", "plain", "gone"}, keeps : Nat]]
  <2>0. registry \in [Reporters -> [is : {"watched", "plain", "gone"}, keeps : Nat]]
    BY <1>0 DEF DecidedInv
  <2>1. ASSUME NEW c \in Reporters, Withdraw(c) PROVE registry' \in [Reporters -> [is : {"watched", "plain", "gone"}, keeps : Nat]]
    <3>1. registry' = [registry EXCEPT ![c] = [is |-> "gone", keeps |-> registry[c].keeps]]
      BY <2>1 DEF Withdraw
    <3>2. [is |-> "gone", keeps |-> registry[c].keeps] \in [is : {"watched", "plain", "gone"}, keeps : Nat]
      BY <2>0
    <3>. QED
      BY <2>0, <3>1, <3>2
  <2>2. ASSUME NEW c \in Reporters, Reconfigure(c) PROVE registry' \in [Reporters -> [is : {"watched", "plain", "gone"}, keeps : Nat]]
    <3>1. PICK is \in {"watched", "plain"}, keeps \in Retentions : registry' = [registry EXCEPT ![c] = [is |-> is, keeps |-> keeps]]
      BY <2>2 DEF Reconfigure
    <3>2. [is |-> is, keeps |-> keeps] \in [is : {"watched", "plain", "gone"}, keeps : Nat]
      BY EventAssumption
    <3>. QED
      BY <2>0, <3>1, <3>2
  <2>3. CASE PassDay \/ PurgeExpired \/ ReadPage
    BY <2>0, <2>3 DEF PassDay, PurgeExpired, ReadPage
  <2>. QED
    BY <2>1, <2>2, <2>3
<1>6. DecidedInv'
  BY <1>0, <1>1, <1>3, <1>4, <1>5, DecidedKept
<1>7. stored' \subseteq stored
  BY DEF Withdraw, Reconfigure, PassDay, PurgeExpired, ReadPage, storeOfEvents
<1>8. FitRows(stored', ToSet(happened))
  BY <1>0, <1>7, FitSubset DEF StoredInv
<1>9. StoredInv'
  BY <1>0, <1>1, <1>7, <1>8 DEF StoredInv
<1>10. walk'.pc \in {"closed", "open", "read"}
  <2>1. CASE ReadPage
    BY <2>1 DEF ReadPage
  <2>2. CASE ~ReadPage
    BY <1>0, <2>2 DEF Withdraw, Reconfigure, PassDay, PurgeExpired
  <2>. QED
    BY <2>1, <2>2
<1>. QED
  BY <1>2, <1>6, <1>9, <1>10 DEF EventInv

\* An event is decided: it gets an id and a place in the outbox, or pushes one out.
LEMMA Decides == ASSUME EventInv, NEW c \in Reporters, Decide(c) PROVE EventInv'
<1>0. DecidedInv /\ OutboxInv /\ CourierInv /\ StoredInv /\ HandlingInv /\ LedgerInv
  BY DEF EventInv
<1>1. PICK event : /\ event = [id |-> eventBudget.ids[Len(happened) + 1], of |-> c, at |-> today]
                   /\ happened' = Append(happened, event)
                   /\ outbox' = Append(IF Len(outbox) >= OutboxSize THEN Tail(outbox) ELSE outbox, event)
                   /\ counters' = [counters EXCEPT !.evicted = @ + (IF Len(outbox) >= OutboxSize THEN 1 ELSE 0)]
  BY DEF Decide
<1>2. /\ Len(happened) < Len(eventBudget.ids) /\ c \in Reporters
      /\ UNCHANGED <<eventBudget, today, registry, courier, abandoned, stored, kept, walk>>
  BY DEF Decide, storeOfEvents
<1> DEFINE H == Len(happened)
           L == Len(outbox)
<1>3. H \in Nat /\ L \in Nat /\ happened \in Seq(Event) /\ outbox \in Seq(Event) /\ eventBudget.ids \in Seq(Nat)
  BY <1>0 DEF DecidedInv, OutboxInv, EventTables
<1>4. event \in Event
  <2>1. eventBudget.ids[H + 1] \in Nat
    BY <1>2, <1>3
  <2>. QED
    BY <1>0, <1>1, <2>1 DEF Event, DecidedInv
<1>5. /\ happened' \in Seq(Event) /\ Len(happened') = H + 1 /\ happened'[H + 1] = event
      /\ \A k \in 1 .. H : happened'[k] = happened[k]
  BY <1>1, <1>3, <1>4, AppendProperties
<1>6. DecidedInv'
  <2>1. \A k \in 1 .. Len(happened') : happened'[k].id = eventBudget.ids[k]
    <3>1. event.id = eventBudget.ids[H + 1]
      BY <1>1
    <3>2. ASSUME NEW k \in 1 .. H PROVE happened'[k].id = eventBudget.ids[k]
      BY <1>0, <1>5, <3>2 DEF DecidedInv
    <3>3. \A k \in 1 .. H + 1 : k \in 1 .. H \/ k = H + 1
      BY <1>3
    <3>. QED
      BY <1>5, <3>1, <3>2, <3>3
  <2>2. Len(happened') <= Len(eventBudget.ids)
    BY <1>2, <1>3, <1>5
  <2>. QED
    BY <1>0, <1>2, <1>5, <2>1, <2>2 DEF DecidedInv
<1>7. PICK q \in Seq(Event) :
        /\ outbox' = Append(q, event)
        /\ L < OutboxSize => q = outbox
        /\ L >= OutboxSize => q = Tail(outbox)
  <2>1. L >= OutboxSize => Tail(outbox) \in Seq(Event)
    BY <1>3, EventAssumption, HeadTailProperties
  <2>2. CASE L < OutboxSize
    <3>1. ~(Len(outbox) >= OutboxSize)
      BY <1>3, <2>2, EventAssumption
    <3>2. outbox' = Append(outbox, event)
      BY <1>1, <3>1
    <3>. QED
      BY <1>3, <2>2, <3>1, <3>2
  <2>3. CASE L >= OutboxSize
    <3>1. ~(L < OutboxSize)
      BY <1>3, <2>3, EventAssumption
    <3>2. outbox' = Append(Tail(outbox), event)
      BY <1>1, <2>3
    <3>. QED
      BY <2>1, <2>3, <3>1, <3>2
  <2>. QED
    BY <1>3, <2>2, <2>3, EventAssumption
<1>8. L >= OutboxSize => /\ L = OutboxSize /\ Len(q) = L - 1
                         /\ \A i \in 1 .. L - 1 : q[i] = outbox[i + 1]
  <2>1. L >= OutboxSize => L = OutboxSize /\ outbox # << >>
    BY <1>0, <1>3, EventAssumption DEF OutboxInv
  <2>. QED
    BY <1>3, <1>7, <2>1, HeadTailProperties
<1>9. /\ Len(q) \in Nat /\ Len(q) <= H /\ Len(q) < OutboxSize
      /\ \A i \in 1 .. Len(q) : q[i] = happened[H - Len(q) + i]
  <2>1. CASE L < OutboxSize
    BY <1>0, <1>3, <1>7, <2>1 DEF OutboxInv
  <2>2. CASE L >= OutboxSize
    <3>1. ASSUME NEW i \in 1 .. Len(q) PROVE q[i] = happened[H - Len(q) + i]
      <4>1. i + 1 \in 1 .. L /\ q[i] = outbox[i + 1]
        BY <1>3, <1>8, <2>2
      <4>2. outbox[i + 1] = happened[H - L + (i + 1)]
        BY <1>0, <4>1 DEF OutboxInv
      <4>3. H - L + (i + 1) = H - Len(q) + i
        <5>1. Len(q) = L - 1 /\ i \in Int
          BY <1>8, <2>2
        <5>. QED
          BY <1>3, <5>1
      <4>. QED
        BY <4>1, <4>2, <4>3
    <3>. QED
      BY <1>0, <1>3, <1>8, <2>2, <3>1, EventAssumption DEF OutboxInv
  <2>. QED
    BY <1>3, <2>1, <2>2, EventAssumption
<1>10. /\ outbox' \in Seq(Event) /\ Len(outbox') = Len(q) + 1 /\ outbox'[Len(q) + 1] = event
       /\ \A i \in 1 .. Len(q) : outbox'[i] = q[i]
  BY <1>4, <1>7, AppendProperties
<1>11. OutboxInv'
  <2>1. ASSUME NEW i \in 1 .. Len(outbox') PROVE outbox'[i] = happened'[Len(happened') - Len(outbox') + i]
    <3>1. Len(happened') - Len(outbox') + i = H - Len(q) + i
      BY <1>3, <1>5, <1>9, <1>10
    <3>2. CASE i = Len(q) + 1
      BY <1>3, <1>5, <1>9, <1>10, <3>1, <3>2
    <3>3. CASE i \in 1 .. Len(q)
      <4>1. H - Len(q) + i \in 1 .. H
        BY <1>3, <1>9, <3>3
      <4>. QED
        BY <1>5, <1>9, <1>10, <3>1, <3>3, <4>1
    <3>. QED
      BY <1>9, <1>10, <3>2, <3>3
  <2>. QED
    BY <1>3, <1>5, <1>9, <1>10, <2>1, EventAssumption DEF OutboxInv
<1>12. Len(outbox') = IF L < OutboxSize THEN L + 1 ELSE L
  BY <1>3, <1>7, <1>8, <1>10, EventAssumption
<1>13. CourierInv'
  <2>1. PICK b \in 0 .. H : BatchFrom(b)
    BY <1>0 DEF CourierInv
  <2>2. Len(courier.batch) \in Nat
    BY <1>0 DEF CourierInv, Couriers
  <2>3. \A i \in 1 .. Len(courier.batch) : b + i \in 1 .. H
    BY <1>3, <2>1, <2>2 DEF BatchFrom
  <2>4. BatchFrom(b)'
    <3>1. \A i \in 1 .. Len(courier.batch) : courier.batch[i] = happened'[b + i]
      BY <1>5, <2>1, <2>3 DEF BatchFrom
    <3>2. /\ b + Len(courier.batch) <= H + 1 - Len(outbox')
          /\ Len(outbox') < OutboxSize => b + Len(courier.batch) = H + 1 - Len(outbox')
      <4>1. /\ b + Len(courier.batch) <= H - L
            /\ L < OutboxSize => b + Len(courier.batch) = H - L
        BY <2>1 DEF BatchFrom
      <4>2. L <= OutboxSize
        BY <1>0 DEF OutboxInv
      <4>3. OutboxSize \in Nat /\ b \in Nat
        BY <1>3, EventAssumption
      <4>4. H \in Nat /\ L \in Nat
        BY <1>3
      <4> DEFINE n == Len(courier.batch)
                 l == Len(outbox')
      <4>5. n \in Nat /\ l = IF L < OutboxSize THEN L + 1 ELSE L
        BY <1>12, <2>2
      <4>6. b + n <= H - L /\ (L < OutboxSize => b + n = H - L)
        BY <4>1
      <4>7. b + n <= H + 1 - l /\ (l < OutboxSize => b + n = H + 1 - l)
        <5> HIDE DEF H, L, n, l
        <5>1. CASE L < OutboxSize
          BY <4>2, <4>3, <4>4, <4>5, <4>6, <5>1
        <5>2. CASE L = OutboxSize
          BY <4>3, <4>4, <4>5, <4>6, <5>2
        <5>. QED
          BY <4>2, <4>3, <4>4, <5>1, <5>2
      <4>. QED
        BY <4>7
    <3>. QED
      BY <1>2, <1>5, <3>1, <3>2 DEF BatchFrom
  <2>5. b \in 0 .. Len(happened')
    BY <1>3, <1>5
  <2>. QED
    BY <1>0, <1>2, <2>4, <2>5 DEF CourierInv
<1>14. ToSet(happened) \subseteq ToSet(happened') /\ ToSet(happened') \subseteq ToSet(happened) \cup {event}
  <2>1. DOMAIN happened = 1 .. H /\ DOMAIN happened' = 1 .. H + 1
    BY <1>3, <1>5
  <2>2. \A k \in 1 .. H : k \in 1 .. H + 1
    BY <1>3
  <2>3. \A k \in 1 .. H + 1 : k \in 1 .. H \/ k = H + 1
    BY <1>3
  <2>4. ToSet(happened) = {happened[k] : k \in 1 .. H} /\ ToSet(happened') = {happened'[k] : k \in 1 .. H + 1}
    BY <2>1 DEF ToSet
  <2> HIDE DEF H
  <2>. QED
    BY <1>5, <2>2, <2>3, <2>4
<1>15. StoredInv' /\ HandlingInv'
  BY <1>0, <1>2, <1>14 DEF StoredInv, HandlingInv, FitRows
<1>16. LedgerInv'
  <2> DEFINE D == {outbox[i] : i \in 1 .. (IF L < OutboxSize THEN 0 ELSE 1)}
             m == IF L < OutboxSize THEN 0 ELSE 1
  <2>1. IsFiniteSet(D) /\ Cardinality(D) <= m
    <3>1. m \in 0 .. L
      BY <1>3, EventAssumption
    <3>. QED
      BY <1>3, <3>1, StretchIsSmall
  <2>2. ToSet(outbox) \subseteq ToSet(outbox') \cup D
    <3>1. CASE L < OutboxSize
      <4>1. \A i \in 1 .. L : outbox[i] = outbox'[i]
        BY <1>3, <1>7, <1>10, <3>1
      <4>. QED
        BY <1>3, <1>10, <1>12, <3>1, <4>1 DEF ToSet
    <3>2. CASE L >= OutboxSize
      <4>1. \A i \in 2 .. L : i - 1 \in 1 .. Len(outbox') /\ outbox[i] = outbox'[i - 1]
        <5>. TAKE i \in 2 .. L
        <5>1. i - 1 \in 1 .. Len(q) /\ i - 1 \in 1 .. L - 1
          BY <1>3, <1>8, <3>2
        <5>2. q[i - 1] = outbox[(i - 1) + 1]
          BY <1>8, <3>2, <5>1
        <5>3. i - 1 \in 1 .. Len(outbox') /\ outbox'[i - 1] = q[i - 1]
          BY <1>9, <1>10, <5>1
        <5>4. (i - 1) + 1 = i
          BY <1>3
        <5>. QED
          BY <5>2, <5>3, <5>4
      <4>2. outbox[1] \in D
        BY <1>3, <3>2, EventAssumption
      <4>3. DOMAIN outbox = 1 .. L /\ DOMAIN outbox' = 1 .. Len(outbox')
        BY <1>3, <1>10
      <4>4. \A i \in 1 .. L : i = 1 \/ i \in 2 .. L
        BY <1>3
      <4>5. ToSet(outbox) = {outbox[k] : k \in 1 .. L} /\ ToSet(outbox') = {outbox'[k] : k \in 1 .. Len(outbox')}
        BY <4>3 DEF ToSet
      <4> HIDE DEF L, D
      <4>. QED
        BY <4>1, <4>2, <4>4, <4>5
    <3>. QED
      BY <1>3, <3>1, <3>2, EventAssumption
  <2>3. event \in ToSet(outbox')
    BY <1>9, <1>10 DEF ToSet
  <2>4. (Gone \ kept)' \subseteq (Gone \ kept) \cup D
    BY <1>2, <1>14, <2>2, <2>3 DEF Gone, OnItsWay
  <2>5. m \in Int /\ m = IF L < OutboxSize THEN 0 ELSE 1
    OBVIOUS
  <2>6. Cardinality((Gone \ kept)') <= counters.evicted + counters.dropped + counters.refused + m
    <3> HIDE DEF D, m
    <3>. QED
      BY <1>0, <2>1, <2>4, <2>5, LossGrows
  <2>7. /\ counters' \in Ledger /\ counters'.evicted = counters.evicted + m
        /\ counters'.dropped = counters.dropped /\ counters'.sent = counters.sent /\ counters'.inserted = counters.inserted
        /\ counters'.duplicates = counters.duplicates /\ counters'.refused = counters.refused
    <3>1. counters' = [counters EXCEPT !.evicted = @ + m] /\ m \in Nat
      <4>1. (IF Len(outbox) >= OutboxSize THEN 1 ELSE 0) = m
        BY <1>3, EventAssumption
      <4>2. m \in Nat
        OBVIOUS
      <4> HIDE DEF m
      <4>. QED
        BY <1>1, <4>1, <4>2
    <3>2. counters \in Ledger
      BY <1>0 DEF LedgerInv
    <3> HIDE DEF m
    <3>. QED
      BY <3>1, <3>2 DEF Ledger
  <2>8. counters \in Ledger /\ Len(courier.batch) \in Nat
    BY <1>0 DEF LedgerInv, CourierInv, Couriers
  <2>9. Len(happened') = Len(outbox') + Len(courier'.batch) + counters'.evicted + counters'.dropped + counters'.sent
    <3> HIDE DEF m
    <3>1. H = L + Len(courier.batch) + counters.evicted + counters.dropped + counters.sent
      BY <1>0 DEF LedgerInv
    <3>2. Len(outbox') + m = L + 1
      BY <1>3, <1>12, <2>5
    <3>3. /\ counters.evicted \in Nat /\ counters.dropped \in Nat /\ counters.sent \in Nat
          /\ Len(outbox') \in Nat /\ m \in Int
      BY <1>10, <1>9, <2>5, <2>8 DEF Ledger
    <3>4. Len(happened') = H + 1 /\ courier'.batch = courier.batch /\ H \in Nat /\ L \in Nat
      BY <1>2, <1>3, <1>5
    <3>5. counters'.evicted = counters.evicted + m /\ counters'.dropped = counters.dropped /\ counters'.sent = counters.sent
      BY <2>7
    <3> DEFINE n == Len(courier.batch)
               l == Len(outbox')
               e == counters.evicted
               d == counters.dropped
               s == counters.sent
    <3>6. H = L + n + e + d + s /\ n \in Nat /\ l + m = L + 1 /\ l \in Nat /\ e \in Nat /\ d \in Nat /\ s \in Nat
      BY <2>8, <3>1, <3>2, <3>3
    <3>7. H + 1 = l + n + (e + m) + d + s
      <4> HIDE DEF H, L, n, l, e, d, s
      <4>. QED
        BY <3>3, <3>4, <3>6
    <3>. QED
      BY <3>4, <3>5, <3>7
  <2> HIDE DEF m, D
  <2>10. counters'.sent = counters'.inserted + counters'.duplicates + counters'.refused
    BY <1>0, <2>7 DEF LedgerInv
  <2>11. Cardinality((Gone \ kept)') <= counters'.evicted + counters'.dropped + counters'.refused
    BY <2>5, <2>6, <2>7, <2>8 DEF Ledger
  <2>. QED
    BY <2>7, <2>9, <2>10, <2>11 DEF LedgerInv
<1>. QED
  BY <1>2, <1>6, <1>11, <1>13, <1>15, <1>16 DEF EventInv
-----------------------------------------------------------------------------
\* What a part of a sequence is.
LEMMA PartOf ==
  ASSUME NEW S, NEW s \in Seq(S), NEW a \in Nat, NEW z \in Nat, a <= z, z <= Len(s)
  PROVE  /\ SubSeq(s, a + 1, z) \in Seq(S) /\ Len(SubSeq(s, a + 1, z)) = z - a
         /\ \A i \in 1 .. z - a : SubSeq(s, a + 1, z)[i] = s[a + i]
<1>1. \A i \in a + 1 .. z : s[i] \in S
  BY LenProperties
<1>2. a + 1 \in Int /\ z \in Int
  OBVIOUS
<1>3. /\ SubSeq(s, a + 1, z) \in Seq(S)
      /\ Len(SubSeq(s, a + 1, z)) = IF a + 1 <= z THEN z - (a + 1) + 1 ELSE 0
      /\ \A i \in 1 .. z - (a + 1) + 1 : SubSeq(s, a + 1, z)[i] = s[(a + 1) + i - 1]
  BY <1>1, <1>2, SubSeqProperties
<1>4. Len(SubSeq(s, a + 1, z)) = z - a
  BY <1>3
<1>5. ASSUME NEW i \in 1 .. z - a PROVE SubSeq(s, a + 1, z)[i] = s[a + i]
  <2>1. i \in 1 .. z - (a + 1) + 1 /\ (a + 1) + i - 1 = a + i
    OBVIOUS
  <2>. QED
    BY <1>3, <2>1
<1>. QED
  BY <1>3, <1>4, <1>5

\* The entries of a sequence, by their numbers.
LEMMA EntriesOf ==
  ASSUME NEW S, NEW s \in Seq(S)
  PROVE  ToSet(s) = {s[i] : i \in 1 .. Len(s)} /\ Len(s) \in Nat
BY LenProperties DEF ToSet

\* A courier that waits has nothing in hand.
LEMMA CourierRests ==
  ASSUME OutboxInv', happened' \in Seq(Event), courier' = CourierWaits
  PROVE  CourierInv' /\ HandlingInv' /\ courier'.batch = << >> /\ ToSet(courier'.batch) = {} /\ Len(courier'.batch) = 0
<1>1. courier'.pc = "take" /\ courier'.batch = << >> /\ courier'.handling = NoHandling
  BY DEF CourierWaits
<1>2. Len(courier'.batch) = 0 /\ ToSet(courier'.batch) = {}
  BY <1>1 DEF ToSet
<1>3. courier' \in Couriers
  BY DEF CourierWaits, NoHandling, Couriers, Handlings
<1>4. Len(happened') - Len(outbox') \in 0 .. Len(happened')
  BY DEF OutboxInv
<1>5. \E b \in 0 .. Len(happened') : BatchFrom(b)'
  <2>0. PICK b \in 0 .. Len(happened') : b = Len(happened') - Len(outbox')
    BY <1>4
  <2>1. BatchFrom(b)'
    <3>1. b + Len(courier'.batch) = Len(happened') - Len(outbox')
      BY <1>2, <2>0
    <3>2. b + Len(courier'.batch) <= Len(happened') - Len(outbox')
      BY <1>2, <1>4, <2>0
    <3>. QED
      BY <1>2, <3>1, <3>2 DEF BatchFrom
  <2>. QED
    BY <2>1
<1>6. CourierInv'
  BY <1>1, <1>2, <1>3, <1>5, EventAssumption DEF CourierInv
<1>7. HandlingInv'
  BY <1>1, FS_EmptySet DEF HandlingInv, NoHandling, FitRows
<1>. QED
  BY <1>1, <1>2, <1>6, <1>7

\* The courier takes the next batch from the outbox.
LEMMA BatchTaken == ASSUME EventInv, TakeBatch PROVE EventInv'
<1>0. DecidedInv /\ OutboxInv /\ CourierInv /\ StoredInv /\ HandlingInv /\ LedgerInv /\ walk.pc \in {"closed", "open", "read"}
  BY DEF EventInv
<1> DEFINE H == Len(happened)
           L == Len(outbox)
           n == IF L < BatchSize THEN L ELSE BatchSize
<1>1. /\ courier.pc = "take" /\ outbox # << >>
      /\ courier' = [pc |-> "send", batch |-> SubSeq(outbox, 1, n), handling |-> NoHandling]
      /\ outbox' = SubSeq(outbox, n + 1, L)
      /\ UNCHANGED <<today, registry, abandoned, counters, stored, kept, walk, eventBudget, happened>>
  BY DEF TakeBatch, Enough, storeOfEvents
<1>2. /\ H \in Nat /\ L \in Nat /\ L > 0 /\ L <= OutboxSize /\ L <= H /\ outbox \in Seq(Event) /\ happened \in Seq(Event)
  BY <1>0, <1>1 DEF DecidedInv, OutboxInv
<1>3. n \in Nat /\ n > 0 /\ n <= L /\ n <= BatchSize
  BY <1>2, EventAssumption
<1>4. courier.batch = << >> /\ Len(courier.batch) = 0 /\ ToSet(courier.batch) = {}
  BY <1>0, <1>1 DEF CourierInv, ToSet
<1> HIDE DEF n
<1>5. /\ outbox' \in Seq(Event) /\ Len(outbox') = L - n
      /\ \A i \in 1 .. L - n : outbox'[i] = outbox[n + i]
  BY <1>1, <1>2, <1>3, PartOf
<1>6. /\ courier'.batch \in Seq(Event) /\ Len(courier'.batch) = n
      /\ \A i \in 1 .. n : courier'.batch[i] = outbox[i]
  <2>0. 0 + 1 = 1
    OBVIOUS
  <2>1. courier'.batch = SubSeq(outbox, 0 + 1, n)
    BY <1>1, <2>0
  <2>2. /\ SubSeq(outbox, 0 + 1, n) \in Seq(Event) /\ Len(SubSeq(outbox, 0 + 1, n)) = n - 0
        /\ \A i \in 1 .. n - 0 : SubSeq(outbox, 0 + 1, n)[i] = outbox[0 + i]
    BY <1>2, <1>3, PartOf
  <2>. QED
    BY <1>3, <2>1, <2>2
<1>7. DecidedInv'
  BY <1>0, <1>1, DecidedKept DEF DecidedInv
<1>8. OutboxInv'
  <2>1. ASSUME NEW i \in 1 .. L - n PROVE outbox'[i] = happened[H - (L - n) + i]
    <3>1. n + i \in 1 .. L /\ H - L + (n + i) = H - (L - n) + i
      BY <1>2, <1>3
    <3>. QED
      BY <1>0, <1>5, <3>1 DEF OutboxInv
  <2>2. L - n <= OutboxSize /\ L - n <= H
    BY <1>2, <1>3, EventAssumption
  <2>. QED
    BY <1>1, <1>5, <2>1, <2>2 DEF OutboxInv
<1>9. CourierInv'
  <2>1. courier'.pc = "send" /\ courier' \in Couriers
    <3>1. courier' = [pc |-> "send", batch |-> courier'.batch, handling |-> NoHandling]
      BY <1>1
    <3>. QED
      BY <1>6, <3>1 DEF Couriers, Handlings, NoHandling
  <2>2. courier'.batch # << >>
    BY <1>3, <1>6
  <2>3. H - L \in 0 .. H
    BY <1>2
  <2>4. ASSUME NEW i \in 1 .. n PROVE courier'.batch[i] = happened[(H - L) + i]
    <3>1. i \in 1 .. L
      BY <1>2, <1>3
    <3>. QED
      BY <1>0, <1>6, <3>1 DEF OutboxInv
  <2>5. (H - L) + n = H - (L - n)
    BY <1>2, <1>3
  <2>6. \E b \in 0 .. Len(happened') : BatchFrom(b)'
    <3>1. /\ \A i \in 1 .. Len(courier'.batch) : courier'.batch[i] = happened'[(H - L) + i]
          /\ (H - L) + Len(courier'.batch) = Len(happened') - Len(outbox')
      BY <1>1, <1>5, <1>6, <2>4, <2>5
    <3>2. PICK b \in 0 .. H : b = H - L
      BY <2>3
    <3>3. b + Len(courier'.batch) = Len(happened') - Len(outbox') /\ b + Len(courier'.batch) \in Int
      BY <1>3, <1>6, <3>1, <3>2
    <3>4. BatchFrom(b)'
      BY <3>1, <3>2, <3>3 DEF BatchFrom
    <3>. QED
      BY <1>1, <3>2, <3>4
  <2>. QED
    BY <1>3, <1>6, <2>1, <2>2, <2>6 DEF CourierInv
<1>10. StoredInv'
  BY <1>0, <1>1 DEF StoredInv
<1>11. HandlingInv'
  BY <1>1, FS_EmptySet DEF HandlingInv, NoHandling, FitRows
<1>12. LedgerInv'
  <2>1. ASSUME NEW i \in 1 .. L PROVE outbox[i] \in ToSet(outbox') \cup ToSet(courier'.batch)
    <3>1. CASE i <= n
      <4>1. i \in 1 .. n
        BY <3>1, <1>3
      <4>. QED
        BY <1>6, <4>1, EntriesOf
    <3>2. CASE i > n
      <4>1. i - n \in 1 .. L - n /\ n + (i - n) = i
        BY <3>2, <1>2, <1>3
      <4>. QED
        BY <1>5, <4>1, EntriesOf
    <3>. QED
      BY <1>2, <1>3, <3>1, <3>2
  <2>2. ToSet(outbox) \subseteq ToSet(outbox') \cup ToSet(courier'.batch)
    BY <1>2, <2>1, EntriesOf
  <2>3. (Gone \ kept)' \subseteq (Gone \ kept) \cup {}
    BY <1>1, <1>4, <2>2 DEF Gone, OnItsWay
  <2>4. Cardinality((Gone \ kept)') <= counters.evicted + counters.dropped + counters.refused + 0
    BY <1>0, <2>3, LossGrows, FS_EmptySet
  <2>5. counters.evicted + counters.dropped + counters.refused + 0 = counters.evicted + counters.dropped + counters.refused
    BY <1>0 DEF LedgerInv, Ledger
  <2>6. Len(happened') = Len(outbox') + Len(courier'.batch) + counters.evicted + counters.dropped + counters.sent
    <3> DEFINE e == counters.evicted
               d == counters.dropped
               s == counters.sent
    <3>1. H = L + 0 + e + d + s /\ e \in Nat /\ d \in Nat /\ s \in Nat
      BY <1>0, <1>4 DEF LedgerInv, Ledger
    <3>2. H = (L - n) + n + e + d + s
      <4> HIDE DEF H, L, e, d, s
      <4>. QED
        BY <1>2, <1>3, <3>1
    <3>. QED
      BY <1>1, <1>5, <1>6, <3>2
  <2>. QED
    BY <1>0, <1>1, <2>4, <2>5, <2>6 DEF LedgerInv
<1>. QED
  BY <1>0, <1>1, <1>7, <1>8, <1>9, <1>10, <1>11, <1>12 DEF EventInv
\* What the queue has no room for is counted.
LEMMA TriesLater ==
  ASSUME EventInv, courier.pc # "take", TryLater, UNCHANGED <<happened, kept>>
  PROVE  OutboxInv' /\ CourierInv' /\ HandlingInv' /\ LedgerInv'
<1>0. DecidedInv /\ OutboxInv /\ CourierInv /\ LedgerInv
  BY DEF EventInv
<1> DEFINE H == Len(happened)
           L == Len(outbox)
           n == Len(courier.batch)
           keep == IF n < Room THEN n ELSE Room
           r == n - keep
           part == SubSeq(courier.batch, r + 1, n)
<1>1. /\ courier' = CourierWaits /\ outbox' = part \o outbox
      /\ counters' = [counters EXCEPT !.evicted = @ + Evicted(courier.batch)]
  BY DEF TryLater, Requeued
<1>2. /\ H \in Nat /\ L \in Nat /\ n \in Nat /\ L <= OutboxSize /\ L <= H /\ OutboxSize \in Nat
      /\ outbox \in Seq(Event) /\ happened \in Seq(Event) /\ courier.batch \in Seq(Event) /\ Room = OutboxSize - L
  BY <1>0, EventAssumption DEF DecidedInv, OutboxInv, CourierInv, Couriers, Room
<1>3. /\ keep \in Nat /\ keep <= n /\ L + keep <= OutboxSize /\ r \in 0 .. n /\ r + keep = n
      /\ Evicted(courier.batch) = r
  <2>1. Room \in Nat
    BY <1>2
  <2>2. Evicted(courier.batch) = IF n > Room THEN n - Room ELSE 0
    BY DEF Evicted
  <2> DEFINE x == Room
             v == Evicted(courier.batch)
  <2>3. x = OutboxSize - L /\ x \in Nat /\ v = (IF n > x THEN n - x ELSE 0) /\ n \in Nat /\ L \in Nat /\ OutboxSize \in Nat
    BY <1>2, <2>1, <2>2
  <2>4. keep = (IF n < x THEN n ELSE x) /\ r = n - keep
    OBVIOUS
  <2> HIDE DEF H, L, n, x, v, keep, r
  <2>5. CASE n < x
    <3>1. keep = n /\ r = 0 /\ v = 0
      BY <2>3, <2>4, <2>5
    <3>. QED
      BY <2>3, <2>5, <3>1 DEF v
  <2>6. CASE n >= x
    <3>1. keep = x /\ r = n - x /\ v = n - x
      BY <2>3, <2>4, <2>6
    <3>. QED
      BY <2>3, <2>6, <3>1 DEF v
  <2>. QED
    BY <2>3, <2>5, <2>6
<1> HIDE DEF keep
<1>4. part \in Seq(Event) /\ Len(part) = keep /\ \A i \in 1 .. keep : part[i] = courier.batch[r + i]
  <2>1. n - r = keep /\ r \in Nat
    BY <1>2, <1>3
  <2>. QED
    BY <1>2, <1>3, <2>1, PartOf
<1> HIDE DEF r, part
<1>5. /\ outbox' \in Seq(Event) /\ Len(outbox') = keep + L
      /\ \A i \in 1 .. keep + L : outbox'[i] = IF i <= keep THEN part[i] ELSE outbox[i - keep]
  <2>1. part \in Seq(Event) /\ outbox \in Seq(Event) /\ Len(part) = keep
    BY <1>2, <1>4
  <2>2. /\ part \o outbox \in Seq(Event) /\ Len(part \o outbox) = Len(part) + Len(outbox)
        /\ \A i \in 1 .. Len(part) + Len(outbox) :
             (part \o outbox)[i] = IF i <= Len(part) THEN part[i] ELSE outbox[i - Len(part)]
    BY <2>1, ConcatProperties
  <2>. QED
    BY <1>1, <2>1, <2>2
<1>6. PICK b \in 0 .. H : BatchFrom(b)
  BY <1>0 DEF CourierInv
<1>7. keep > 0 => b + n = H - L
  BY <1>2, <1>3, <1>6 DEF BatchFrom
<1>8. keep + L <= H
  <2>1. b + n <= H - L /\ b \in Nat
    BY <1>2, <1>6 DEF BatchFrom
  <2>. QED
    BY <1>2, <1>3, <2>1
<1>9. OutboxInv'
  <2>1. ASSUME NEW i \in 1 .. keep + L PROVE outbox'[i] = happened[H - (keep + L) + i]
    <3>1. CASE i <= keep
      <4>1. i \in 1 .. keep /\ r + i \in 1 .. n /\ b + n = H - L
        BY <3>1, <1>2, <1>3, <1>7
      <4>2. outbox'[i] = courier.batch[r + i] /\ courier.batch[r + i] = happened[b + (r + i)]
        BY <1>4, <1>5, <1>6, <3>1, <4>1 DEF BatchFrom
      <4>3. b + (r + i) = H - (keep + L) + i
        <5>1. H \in Nat /\ L \in Nat /\ n \in Nat /\ keep \in Nat /\ b \in Nat /\ r \in Nat /\ i \in Nat
          BY <1>2, <1>3, <1>6
        <5>2. r + keep = n /\ b + n = H - L
          BY <1>3, <4>1
        <5> HIDE DEF H, L, n
        <5>. QED
          BY <5>1, <5>2
      <4>. QED
        BY <4>2, <4>3
    <3>2. CASE i > keep
      <4>1. i - keep \in 1 .. L /\ H - L + (i - keep) = H - (keep + L) + i /\ ~(i <= keep)
        BY <3>2, <1>2, <1>3
      <4>. QED
        BY <1>0, <1>5, <4>1 DEF OutboxInv
    <3>. QED
      BY <1>2, <1>3, <3>1, <3>2
  <2>2. keep + L <= OutboxSize
    BY <1>2, <1>3
  <2>. QED
    BY <1>5, <1>8, <2>1, <2>2 DEF OutboxInv
<1>10. CourierInv' /\ HandlingInv' /\ courier'.batch = << >> /\ ToSet(courier'.batch) = {} /\ Len(courier'.batch) = 0
  BY <1>1, <1>2, <1>9, CourierRests
<1>11. LedgerInv'
  <2> DEFINE D == {courier.batch[i] : i \in 1 .. r}
  <2>1. IsFiniteSet(D) /\ Cardinality(D) <= r
    BY <1>2, <1>3, StretchIsSmall
  <2>2. ToSet(outbox) \subseteq ToSet(outbox')
    <3>1. ASSUME NEW i \in 1 .. L PROVE outbox[i] \in ToSet(outbox')
      <4>1. keep + i \in 1 .. keep + L /\ (keep + i) - keep = i /\ ~(keep + i <= keep)
        BY <1>2, <1>3
      <4>2. outbox'[keep + i] = outbox[i]
        BY <1>5, <4>1
      <4>. QED
        BY <1>5, <4>1, <4>2, EntriesOf
    <3>. QED
      BY <1>2, <3>1, EntriesOf
  <2>3. ToSet(courier.batch) \subseteq ToSet(outbox') \cup D
    <3>1. ASSUME NEW i \in 1 .. n PROVE courier.batch[i] \in ToSet(outbox') \cup D
      <4>1. CASE i <= r
        <5>1. i \in 1 .. r
          BY <4>1, <1>3
        <5>. QED
          BY <5>1
      <4>2. CASE i > r
        <5>1. i - r \in 1 .. keep /\ r + (i - r) = i /\ i - r \in 1 .. keep + L /\ i - r <= keep
          BY <4>2, <1>2, <1>3
        <5>2. outbox'[i - r] = courier.batch[i]
          BY <1>4, <1>5, <5>1
        <5>. QED
          BY <1>5, <5>1, <5>2, EntriesOf
      <4>. QED
        BY <1>2, <1>3, <4>1, <4>2
    <3>2. ToSet(courier.batch) = {courier.batch[i] : i \in 1 .. n}
      BY <1>2, EntriesOf
    <3> HIDE DEF n, D
    <3>. QED
      BY <3>1, <3>2
  <2>4. (Gone \ kept)' \subseteq (Gone \ kept) \cup D
    BY <1>10, <2>2, <2>3 DEF Gone, OnItsWay
  <2>5. Cardinality((Gone \ kept)') <= counters.evicted + counters.dropped + counters.refused + r
    <3>1. r \in Int
      BY <1>3
    <3> HIDE DEF D
    <3>. QED
      BY <1>0, <2>1, <2>4, <3>1, LossGrows
  <2>6. /\ counters' \in Ledger /\ counters'.evicted = counters.evicted + r
        /\ counters'.dropped = counters.dropped /\ counters'.sent = counters.sent /\ counters'.inserted = counters.inserted
        /\ counters'.duplicates = counters.duplicates /\ counters'.refused = counters.refused
    <3>1. counters' = [counters EXCEPT !.evicted = @ + r] /\ r \in Nat
      BY <1>1, <1>3
    <3>2. counters \in Ledger
      BY <1>0 DEF LedgerInv
    <3>. QED
      BY <3>1, <3>2 DEF Ledger
  <2> DEFINE e == counters.evicted
             d == counters.dropped
             s == counters.sent
             f == counters.refused
  <2>7. H = L + n + e + d + s /\ e \in Nat /\ d \in Nat /\ s \in Nat /\ f \in Nat
    BY <1>0 DEF LedgerInv, Ledger
  <2>8. H = (keep + L) + 0 + (e + r) + d + s /\ e + d + f + r = (e + r) + d + f
    <3> HIDE DEF H, L, n, e, d, s, f
    <3>. QED
      BY <1>2, <1>3, <2>7
  <2>9. Len(happened') = Len(outbox') + Len(courier'.batch) + counters'.evicted + counters'.dropped + counters'.sent
    BY <1>5, <1>10, <2>6, <2>8
  <2>10. Cardinality((Gone \ kept)') <= counters'.evicted + counters'.dropped + counters'.refused
    BY <2>5, <2>6, <2>8
  <2>11. counters'.sent = counters'.inserted + counters'.duplicates + counters'.refused
    BY <1>0, <2>6 DEF LedgerInv
  <2>. QED
    BY <2>6, <2>9, <2>10, <2>11 DEF LedgerInv
<1>. QED
  BY <1>9, <1>10, <1>11

\* A batch that was not sent goes back to the outbox, or part of it.
LEMMA SendFails == ASSUME EventInv, Fail PROVE EventInv'
<1>0. DecidedInv /\ StoredInv /\ HandlingInv /\ walk.pc \in {"closed", "open", "read"} /\ CourierInv
  BY DEF EventInv
<1>1. /\ courier.pc # "take" /\ TryLater /\ UNCHANGED <<today, registry, stored, kept, walk, happened>> /\ UseEvent("fail")
      /\ abandoned' = IF courier.pc = "prepared" THEN abandoned \cup {courier.handling.rows} ELSE abandoned
  BY DEF Fail, storeOfEvents
<1>2. OutboxInv' /\ CourierInv' /\ HandlingInv' /\ LedgerInv'
  BY <1>1, TriesLater
<1>3. DecidedInv'
  BY <1>0, <1>1, BudgetGoesDown, DecidedKept DEF DecidedInv
<1>4. courier.handling.rows \in SUBSET StoredRow /\ FitRows(courier.handling.rows, ToSet(happened))
  BY <1>0 DEF CourierInv, Couriers, Handlings, HandlingInv
<1>5. StoredInv'
  BY <1>0, <1>1, <1>4 DEF StoredInv
<1>. QED
  BY <1>0, <1>1, <1>2, <1>3, <1>5 DEF EventInv

\* What the API makes of a batch: rows of those it admits, the others counted.
LEMMA Reaches == ASSUME EventInv, Reach PROVE EventInv'
<1>0. DecidedInv /\ OutboxInv /\ CourierInv /\ StoredInv /\ HandlingInv /\ LedgerInv /\ walk.pc \in {"closed", "open", "read"}
  BY DEF EventInv
<1> DEFINE batch == courier.batch
           good == {e \in ToSet(batch) : Admitted(e)}
           rows == {Row(e) : e \in good}
           refused == Len(batch) - Cardinality(good)
<1>1. /\ courier.pc = "send"
      /\ courier' = [pc |-> "prepared", batch |-> batch, handling |-> [rows |-> rows, refused |-> refused]]
      /\ UNCHANGED <<today, registry, outbox, abandoned, counters, stored, kept, walk, eventBudget, happened>>
  BY DEF Reach, storeOfEvents
<1>2. batch \in Seq(Event) /\ Len(batch) \in Nat /\ IsFiniteSet(ToSet(batch)) /\ Cardinality(ToSet(batch)) \in Nat
      /\ Cardinality(ToSet(batch)) <= Len(batch)
  <2>1. batch \in Seq(Event)
    BY <1>0 DEF CourierInv, Couriers
  <2>. QED
    BY <2>1, EntriesAreFew
<1>3. IsFiniteSet(good) /\ Cardinality(good) \in Nat /\ Cardinality(good) <= Cardinality(ToSet(batch))
  BY <1>2, FS_Subset, FS_CardinalityType
<1>4. refused \in Nat
  BY <1>2, <1>3
<1>5. ToSet(batch) \subseteq ToSet(happened) /\ ToSet(batch) \subseteq Event
  <2>1. PICK b \in 0 .. Len(happened) : BatchFrom(b)
    BY <1>0 DEF CourierInv
  <2>2. \A i \in 1 .. Len(batch) : b + i \in 1 .. Len(happened) /\ batch[i] = happened[b + i]
    <3>1. Len(happened) \in Nat /\ Len(outbox) \in Nat
      BY <1>0, LenProperties DEF OutboxInv, DecidedInv
    <3>2. /\ b + Len(batch) <= Len(happened) - Len(outbox)
          /\ \A i \in 1 .. Len(batch) : batch[i] = happened[b + i]
      BY <2>1 DEF BatchFrom
    <3> HIDE DEF batch
    <3>3. b \in Nat /\ b + Len(batch) <= Len(happened)
      BY <1>2, <3>1, <3>2
    <3>4. \A i \in 1 .. Len(batch) : b + i \in 1 .. Len(happened)
      BY <1>2, <3>1, <3>3
    <3>. QED
      BY <3>2, <3>4
  <2>3. ToSet(happened) = {happened[k] : k \in 1 .. Len(happened)} /\ ToSet(batch) = {batch[k] : k \in 1 .. Len(batch)}
    <3>1. happened \in Seq(Event)
      BY <1>0 DEF DecidedInv
    <3>2. ToSet(happened) = {happened[k] : k \in 1 .. Len(happened)}
      BY <3>1, EntriesOf
    <3> HIDE DEF batch
    <3>3. ToSet(batch) = {batch[k] : k \in 1 .. Len(batch)}
      BY <1>2, EntriesOf
    <3>. QED
      BY <3>2, <3>3
  <2>4. ToSet(batch) \subseteq ToSet(happened)
    <3> HIDE DEF batch
    <3>. QED
      BY <2>2, <2>3
  <2>5. ToSet(happened) \subseteq Event
    BY <1>0, <2>3, LenProperties DEF DecidedInv
  <2>. QED
    BY <2>4, <2>5
<1>6. \A e \in good : Row(e) \in StoredRow /\ Row(e).event = e
  <2>. TAKE e \in good
  <2>1. e \in Event /\ registry[e.of].keeps \in Nat /\ e.at \in Nat
    BY <1>0, <1>5 DEF Event, DecidedInv
  <2>. QED
    BY <2>1 DEF Row, StoredRow
<1>7. FitRows(rows, ToSet(happened)) /\ Cardinality(rows) \in Nat /\ Cardinality(rows) <= Cardinality(good)
  <2> DEFINE f == [e \in good |-> Row(e)]
  <2>1. f \in Surjection(good, rows)
    BY DEF Surjection
  <2>2. IsFiniteSet(rows) /\ Cardinality(rows) <= Cardinality(good)
    BY <1>3, <2>1, FS_Surjection
  <2>3. \A r \in rows : r.event \in good /\ r = Row(r.event)
    BY <1>6
  <2>4. \A r, q \in rows : r.event.id = q.event.id => r = q
    <3>. SUFFICES ASSUME NEW r \in rows, NEW q \in rows, r.event.id = q.event.id PROVE r = q
      OBVIOUS
    <3>1. r.event \in ToSet(happened) /\ q.event \in ToSet(happened)
      BY <1>5, <2>3
    <3>2. r.event = q.event
      BY <1>0, <3>1, OneAnId
    <3>3. r = Row(r.event) /\ q = Row(q.event)
      BY <2>3
    <3>. QED
      BY <3>2, <3>3, Zenon
  <2>5. \A r \in rows : r.event \in ToSet(happened)
    BY <1>5, <2>3
  <2>. QED
    BY <2>2, <2>4, <2>5, FS_CardinalityType DEF FitRows
<1>8. Cardinality(ToSet(batch) \ {r.event : r \in rows}) <= refused
  <2>1. {r.event : r \in rows} = good
    BY <1>6
  <2>2. Cardinality(ToSet(batch) \ good) = Cardinality(ToSet(batch)) - Cardinality(ToSet(batch) \cap good)
    BY <1>2, FS_Difference
  <2>3. ToSet(batch) \cap good = good
    OBVIOUS
  <2> DEFINE N == Len(batch)
             T == Cardinality(ToSet(batch))
             g == Cardinality(good)
             d == Cardinality(ToSet(batch) \ good)
  <2>4. N \in Nat /\ T \in Nat /\ g \in Nat /\ T <= N /\ d = T - g
    BY <1>2, <1>3, <2>2, <2>3
  <2>5. Cardinality(ToSet(batch) \ {r.event : r \in rows}) = d /\ refused = N - g
    BY <2>1
  <2> HIDE DEF N, T, g, d, refused, rows, good
  <2>. QED
    BY <2>4, <2>5
<1>9. courier' \in Couriers
  <2>1. rows \in SUBSET StoredRow
    BY <1>6
  <2> HIDE DEF rows, refused, batch
  <2>2. [rows |-> rows, refused |-> refused] \in Handlings
    BY <1>4, <2>1 DEF Handlings
  <2>3. batch \in Seq(Event)
    BY <1>2
  <2>. QED
    BY <1>1, <2>2, <2>3 DEF Couriers
<1>10. courier'.pc = "prepared" /\ courier'.batch = batch /\ courier'.handling.rows = rows /\ courier'.handling.refused = refused
  BY <1>1
<1>11. CourierInv'
  BY <1>0, <1>1, <1>9, <1>10 DEF CourierInv, BatchFrom
<1>12. HandlingInv'
  <2>1. Cardinality(rows) + refused <= Len(batch)
    BY <1>2, <1>3, <1>7
  <2> HIDE DEF rows, refused, batch
  <2>. QED
    BY <1>1, <1>7, <1>8, <1>10, <2>1 DEF HandlingInv
<1>13. DecidedInv' /\ OutboxInv' /\ StoredInv'
  BY <1>0, <1>1, DecidedKept DEF DecidedInv, OutboxInv, StoredInv
<1>14. LedgerInv'
  BY <1>0, <1>1, <1>10 DEF LedgerInv, Gone, OnItsWay
<1>. QED
  BY <1>0, <1>1, <1>11, <1>12, <1>13, <1>14 DEF EventInv
\* The rows of a batch are stored, those whose id is there apart; or, for a camera
\* that is gone, none is.
LEMMA Records == ASSUME EventInv, Record PROVE EventInv'
<1>0. DecidedInv /\ OutboxInv /\ CourierInv /\ StoredInv /\ HandlingInv /\ LedgerInv /\ walk.pc \in {"closed", "open", "read"}
  BY DEF EventInv
<1> DEFINE rows == courier.handling.rows
           unfit == courier.handling.refused
           new == {r \in rows : r.event.id \notin IdsOf(stored)}
<1>1. courier.pc = "prepared" /\ UNCHANGED <<today, registry, abandoned, walk, eventBudget, happened>>
  BY DEF Record
<1>2. DecidedInv'
  BY <1>0, <1>1, DecidedKept DEF DecidedInv
<1>3. CASE Storable(rows)
  <2>1. /\ stored' = AddRows(rows) /\ kept' = kept \cup {r.event : r \in stored'}
        /\ courier' = [pc |-> "recorded", batch |-> courier.batch, handling |-> [rows |-> new, refused |-> unfit]]
        /\ UNCHANGED <<outbox, counters>>
    BY <1>3 DEF Record
  <2>2. courier \in Couriers
    BY <1>0 DEF CourierInv
  <2>3. rows \in SUBSET StoredRow /\ unfit \in Nat /\ courier.batch \in Seq(Event)
    BY <2>2 DEF Couriers, Handlings
  <2>4. FitRows(rows, ToSet(happened))
    BY <1>0 DEF HandlingInv
  <2>5. /\ stored' \subseteq StoredRow /\ FitRows(stored', ToSet(happened))
        /\ \A r \in rows : r.event \in {q.event : q \in stored'}
    BY <1>0, <2>1, <2>3, <2>4, RowsAdded
  <2>6. FitRows(new, ToSet(happened)) /\ new \in SUBSET StoredRow
    BY <2>3, <2>4, FitSubset
  <2>7. /\ courier'.pc = "recorded" /\ courier'.batch = courier.batch
        /\ courier'.handling.rows = new /\ courier'.handling.refused = unfit
    BY <2>1
  <2>8. courier' \in Couriers
    <3>1. [rows |-> new, refused |-> unfit] \in Handlings
      BY <2>3, <2>6 DEF Handlings
    <3> HIDE DEF new, unfit, rows
    <3>. QED
      BY <2>1, <2>3, <3>1 DEF Couriers
  <2>9. OutboxInv' /\ CourierInv'
    <3>1. OutboxInv'
      BY <1>0, <1>1, <2>1 DEF OutboxInv
    <3>2. \E b \in 0 .. Len(happened') : BatchFrom(b)'
      BY <1>0, <1>1, <2>1, <2>7 DEF CourierInv, BatchFrom
    <3>. QED
      BY <1>0, <1>1, <2>7, <2>8, <3>1, <3>2 DEF CourierInv
  <2>10. StoredInv'
    BY <1>0, <1>1, <2>1, <2>5 DEF StoredInv
  <2>11. HandlingInv'
    <3>1. IsFiniteSet(rows) /\ Cardinality(new) <= Cardinality(rows) /\ Cardinality(new) \in Nat /\ Cardinality(rows) \in Nat
      BY <2>4, FS_Subset, FS_CardinalityType DEF FitRows
    <3>2. Cardinality(rows) + unfit <= Len(courier.batch) /\ Len(courier.batch) \in Nat
      BY <1>0, <1>1, <2>3 DEF HandlingInv
    <3>3. Cardinality(new) + unfit <= Len(courier.batch)
      <4> DEFINE a == Cardinality(new)
                 z == Cardinality(rows)
                 n == Len(courier.batch)
      <4>1. a \in Nat /\ z \in Nat /\ n \in Nat /\ unfit \in Nat /\ a <= z /\ z + unfit <= n
        BY <2>3, <3>1, <3>2
      <4> HIDE DEF a, z, n, unfit, new, rows
      <4>2. a + unfit <= n
        BY <4>1
      <4>. QED
        BY <4>2 DEF a, n
    <3> DEFINE owedBefore == ToSet(courier.batch) \ {r.event : r \in rows}
               owedNow == ToSet(courier.batch) \ kept'
    <3>4. owedNow \subseteq owedBefore
      BY <2>1, <2>5
    <3>5. IsFiniteSet(owedBefore)
      BY <2>3, EntriesAreFew, FS_Subset
    <3>6. Cardinality(owedNow) <= Cardinality(owedBefore) /\ Cardinality(owedNow) \in Nat /\ Cardinality(owedBefore) \in Nat
      BY <3>4, <3>5, FS_Subset, FS_CardinalityType
    <3>7. Cardinality(owedBefore) <= unfit
      BY <1>0, <1>1 DEF HandlingInv
    <3>8. Cardinality(owedNow) <= unfit
      <4> HIDE DEF owedNow, owedBefore, unfit
      <4>. QED
        BY <2>3, <3>6, <3>7
    <3>. QED
      BY <1>1, <2>6, <2>7, <3>3, <3>8 DEF HandlingInv
  <2>12. LedgerInv'
    <3>1. (Gone \ kept)' \subseteq (Gone \ kept) \cup {}
      BY <1>1, <2>1, <2>7 DEF Gone, OnItsWay
    <3>2. Cardinality((Gone \ kept)') <= counters.evicted + counters.dropped + counters.refused + 0
      BY <1>0, <3>1, LossGrows, FS_EmptySet
    <3>3. counters.evicted + counters.dropped + counters.refused + 0 = counters.evicted + counters.dropped + counters.refused
      BY <1>0 DEF LedgerInv, Ledger
    <3>. QED
      BY <1>0, <1>1, <2>1, <2>7, <3>2, <3>3 DEF LedgerInv
  <2>. QED
    BY <1>0, <1>1, <1>2, <2>9, <2>10, <2>11, <2>12 DEF EventInv
<1>4. CASE ~Storable(rows)
  <2>1. TryLater /\ UNCHANGED <<stored, kept>>
    BY <1>4 DEF Record, storeOfEvents
  <2>2. OutboxInv' /\ CourierInv' /\ HandlingInv' /\ LedgerInv'
    BY <1>1, <2>1, TriesLater
  <2>3. StoredInv'
    BY <1>0, <1>1, <2>1 DEF StoredInv
  <2>. QED
    BY <1>0, <1>1, <1>2, <2>2, <2>3 DEF EventInv
<1>. QED
  BY <1>3, <1>4

\* A batch that is answered for, or refused for good, is no longer on its way.
LEMMA LetsGo ==
  ASSUME EventInv, courier' = CourierWaits, UNCHANGED <<today, registry, happened, outbox, abandoned, stored, kept, walk>>,
         eventBudget' \in EventTables, eventBudget'.ids = eventBudget.ids,
         NEW m \in Nat, Cardinality(ToSet(courier.batch) \ kept) <= m,
         counters' \in Ledger, counters'.evicted = counters.evicted,
         counters'.dropped + counters'.sent = counters.dropped + counters.sent + Len(courier.batch),
         counters'.dropped + counters'.refused = counters.dropped + counters.refused + m,
         counters'.sent = counters'.inserted + counters'.duplicates + counters'.refused
  PROVE  EventInv'
<1>0. DecidedInv /\ OutboxInv /\ CourierInv /\ StoredInv /\ HandlingInv /\ LedgerInv /\ walk.pc \in {"closed", "open", "read"}
  BY DEF EventInv
<1>1. DecidedInv' /\ OutboxInv' /\ StoredInv'
  BY <1>0, DecidedKept DEF DecidedInv, OutboxInv, StoredInv
<1>2. CourierInv' /\ HandlingInv' /\ courier'.batch = << >> /\ ToSet(courier'.batch) = {} /\ Len(courier'.batch) = 0
  BY <1>1, CourierRests DEF DecidedInv
<1> DEFINE D == ToSet(courier.batch) \ kept
<1>3. IsFiniteSet(D) /\ courier.batch \in Seq(Event) /\ Len(courier.batch) \in Nat
  <2>1. courier.batch \in Seq(Event)
    BY <1>0 DEF CourierInv, Couriers
  <2>. QED
    BY <2>1, EntriesAreFew, FS_Subset
<1>4. (Gone \ kept)' \subseteq (Gone \ kept) \cup D
  BY <1>2 DEF Gone, OnItsWay
<1>5. Cardinality((Gone \ kept)') <= counters.evicted + counters.dropped + counters.refused + m
  <2>1. m \in Int /\ Cardinality(D) <= m
    OBVIOUS
  <2> HIDE DEF D
  <2>. QED
    BY <1>0, <1>3, <1>4, <2>1, LossGrows
<1>6. /\ Len(happened') = Len(outbox') + 0 + counters'.evicted + counters'.dropped + counters'.sent
      /\ counters.evicted + counters.dropped + counters.refused + m = counters'.evicted + counters'.dropped + counters'.refused
  <2> DEFINE H == Len(happened)
             L == Len(outbox)
             n == Len(courier.batch)
             e == counters.evicted
             d == counters.dropped
             s == counters.sent
             f == counters.refused
             d2 == counters'.dropped
             s2 == counters'.sent
             f2 == counters'.refused
  <2>1. H = L + n + e + d + s /\ H \in Nat /\ L \in Nat /\ n \in Nat
    BY <1>0, <1>3 DEF LedgerInv, DecidedInv, OutboxInv
  <2>2. e \in Nat /\ d \in Nat /\ s \in Nat /\ f \in Nat /\ d2 \in Nat /\ s2 \in Nat /\ f2 \in Nat
    BY <1>0 DEF LedgerInv, Ledger
  <2>3. d2 + s2 = d + s + n /\ d2 + f2 = d + f + m /\ counters'.evicted = e /\ Len(happened') = H /\ Len(outbox') = L
    OBVIOUS
  <2>4. H = L + 0 + e + d2 + s2 /\ e + d + f + m = e + d2 + f2
    <3>1. d2 + s2 = d + s + n /\ d2 + f2 = d + f + m /\ m \in Nat
      BY <2>3
    <3> HIDE DEF H, L, n, e, d, s, f, d2, s2, f2
    <3>. QED
      BY <2>1, <2>2, <3>1
  <2>. QED
    BY <2>3, <2>4
<1>7. LedgerInv'
  BY <1>2, <1>5, <1>6 DEF LedgerInv
<1>. QED
  BY <1>0, <1>1, <1>2, <1>7 DEF EventInv

\* A batch that was handled is counted by the answer.
LEMMA Delivers == ASSUME EventInv, Delivered PROVE EventInv'
<1>0. DecidedInv /\ CourierInv /\ HandlingInv /\ LedgerInv
  BY DEF EventInv
<1> DEFINE n == Len(courier.batch)
           new == Cardinality(courier.handling.rows)
           m == courier.handling.refused
           all == counters.sent + n
           in == counters.inserted + new
           out == counters.refused + m
           twice == counters.duplicates + n - new - m
<1>1. /\ courier.pc = "recorded" /\ courier' = CourierWaits
      /\ counters' = [evicted |-> counters.evicted, dropped |-> counters.dropped,
                      sent |-> all, inserted |-> in, refused |-> out, duplicates |-> twice]
      /\ UNCHANGED <<today, registry, outbox, abandoned, stored, kept, walk, eventBudget, happened>>
  BY DEF Delivered, storeOfEvents
<1>2. m \in Nat /\ n \in Nat /\ new \in Nat /\ new + m <= n
  <2>1. courier \in Couriers
    BY <1>0 DEF CourierInv
  <2>2. m \in Nat /\ n \in Nat
    BY <2>1 DEF Couriers, Handlings
  <2>3. new \in Nat
    BY <1>0, FS_CardinalityType DEF HandlingInv, FitRows
  <2>. QED
    BY <1>0, <1>1, <2>2, <2>3 DEF HandlingInv
<1> DEFINE e == counters.evicted
           d == counters.dropped
           s == counters.sent
           f == counters.refused
           i == counters.inserted
           u == counters.duplicates
<1>3. e \in Nat /\ d \in Nat /\ s \in Nat /\ f \in Nat /\ i \in Nat /\ u \in Nat /\ s = i + u + f
  BY <1>0 DEF LedgerInv, Ledger
<1>4. all \in Nat /\ in \in Nat /\ out \in Nat /\ twice \in Nat /\ all = in + twice + out /\ d + all = d + s + n /\ d + out = d + f + m
  <2>1. all = s + n /\ in = i + new /\ out = f + m /\ twice = u + n - new - m
    OBVIOUS
  <2> HIDE DEF e, d, s, f, i, u, n, new, m, all, in, out, twice
  <2>. QED
    BY <1>2, <1>3, <2>1
<1>5. /\ counters' \in Ledger /\ counters'.evicted = e /\ counters'.dropped = d
      /\ counters'.sent = all /\ counters'.inserted = in /\ counters'.refused = out /\ counters'.duplicates = twice
  <2> HIDE DEF all, in, out, twice
  <2>. QED
    BY <1>1, <1>3, <1>4 DEF Ledger
<1>6. Cardinality(ToSet(courier.batch) \ kept) <= m
  BY <1>0, <1>1 DEF HandlingInv
<1>7. eventBudget' \in EventTables /\ eventBudget'.ids = eventBudget.ids
  BY <1>0, <1>1 DEF DecidedInv
<1>8. /\ counters'.dropped + counters'.sent = counters.dropped + counters.sent + n
      /\ counters'.dropped + counters'.refused = counters.dropped + counters.refused + m
      /\ counters'.sent = counters'.inserted + counters'.duplicates + counters'.refused
  <2> HIDE DEF all, in, out, twice, n, m
  <2>. QED
    BY <1>4, <1>5
<1>9. /\ counters'.evicted = counters.evicted /\ m \in Nat
      /\ UNCHANGED <<today, registry, happened, outbox, abandoned, stored, kept, walk>>
  BY <1>1, <1>2, <1>5
<1>. QED
  <2> HIDE DEF all, in, out, twice, m
  <2>. QED
    BY <1>1, <1>5, <1>6, <1>7, <1>8, <1>9, LetsGo

\* A batch that is refused is dropped and counted.
LEMMA Refuses == ASSUME EventInv, Refuse PROVE EventInv'
<1>0. DecidedInv /\ CourierInv /\ LedgerInv
  BY DEF EventInv
<1> DEFINE n == Len(courier.batch)
           d == counters.dropped
           s == counters.sent
           f == counters.refused
<1>1. /\ courier' = CourierWaits /\ counters' = [counters EXCEPT !.dropped = @ + n] /\ UseEvent("refuse")
      /\ UNCHANGED <<today, registry, outbox, abandoned, stored, kept, walk, happened>>
  BY DEF Refuse, storeOfEvents
<1>2. n \in Nat /\ IsFiniteSet(ToSet(courier.batch)) /\ Cardinality(ToSet(courier.batch)) <= n /\ Cardinality(ToSet(courier.batch)) \in Nat
  <2>1. courier.batch \in Seq(Event)
    BY <1>0 DEF CourierInv, Couriers
  <2>. QED
    BY <2>1, EntriesAreFew
<1>3. Cardinality(ToSet(courier.batch) \ kept) <= n
  <2>1. /\ Cardinality(ToSet(courier.batch) \ kept) <= Cardinality(ToSet(courier.batch))
        /\ Cardinality(ToSet(courier.batch) \ kept) \in Nat
    BY <1>2, FS_Subset, FS_CardinalityType
  <2>. QED
    BY <1>2, <2>1
<1>4. eventBudget' \in EventTables /\ eventBudget'.ids = eventBudget.ids
  BY <1>0, <1>1, BudgetGoesDown
<1>5. counters \in Ledger /\ d \in Nat /\ s \in Nat /\ f \in Nat
  BY <1>0 DEF LedgerInv, Ledger
<1>6. /\ counters' \in Ledger /\ counters'.evicted = counters.evicted /\ counters'.dropped = d + n
      /\ counters'.sent = s /\ counters'.refused = f
      /\ counters'.inserted = counters.inserted /\ counters'.duplicates = counters.duplicates
  <2> HIDE DEF n
  <2>. QED
    BY <1>1, <1>2, <1>5 DEF Ledger
<1>7. /\ counters'.dropped + counters'.sent = counters.dropped + counters.sent + n
      /\ counters'.dropped + counters'.refused = counters.dropped + counters.refused + n
  <2>1. (d + n) + s = d + s + n /\ (d + n) + f = d + f + n
    <3> HIDE DEF d, n, s, f
    <3>. QED
      BY <1>2, <1>5
  <2>. QED
    BY <1>6, <2>1
<1>8. counters'.sent = counters'.inserted + counters'.duplicates + counters'.refused
  BY <1>0, <1>6 DEF LedgerInv
<1>. QED
  BY <1>1, <1>2, <1>3, <1>4, <1>6, <1>7, <1>8, LetsGo

\* The handler of an abandoned request records its rows, or those still missing.
LEMMA EndsAbandoned == ASSUME EventInv, NEW rows \in abandoned, RecordAbandoned(rows) PROVE EventInv'
<1>0. DecidedInv /\ StoredInv /\ walk.pc \in {"closed", "open", "read"}
  BY DEF EventInv
<1>1. /\ abandoned' = abandoned \ {rows} /\ stored' = (IF Storable(rows) THEN AddRows(rows) ELSE stored)
      /\ kept' = kept \cup {r.event : r \in stored'}
      /\ UNCHANGED <<today, registry, outbox, courier, counters, walk, eventBudget, happened>>
  BY DEF RecordAbandoned
<1>2. OutboxInv' /\ CourierInv' /\ HandlingInv' /\ LedgerInv'
  BY <1>1, WayKept
<1>3. DecidedInv'
  BY <1>0, <1>1, DecidedKept DEF DecidedInv
<1>4. rows \in SUBSET StoredRow /\ FitRows(rows, ToSet(happened))
  BY <1>0 DEF StoredInv
<1>5. stored' \subseteq StoredRow /\ FitRows(stored', ToSet(happened))
  <2>1. CASE Storable(rows)
    BY <1>0, <1>1, <1>4, <2>1, RowsAdded
  <2>2. CASE ~Storable(rows)
    BY <1>0, <1>1, <2>2 DEF StoredInv
  <2>. QED
    BY <2>1, <2>2
<1>6. StoredInv'
  BY <1>0, <1>1, <1>5 DEF StoredInv
<1>. QED
  BY <1>0, <1>1, <1>2, <1>3, <1>6 DEF EventInv

-----------------------------------------------------------------------------
\* Every step of the events keeps their invariant.
LEMMA EventSteps == ASSUME EventInv, EventNext PROVE EventInv'
<1>1. CASE \E c \in Reporters : Decide(c)
  BY <1>1, Decides
<1>2. CASE (\E c \in Reporters : Withdraw(c) \/ Reconfigure(c)) \/ PassDay \/ PurgeExpired \/ ReadPage
  BY <1>2, TheRest
<1>3. CASE TakeBatch \/ Reach \/ Record \/ Delivered
  BY <1>3, BatchTaken, Reaches, Records, Delivers
<1>4. CASE Fail \/ Refuse
  BY <1>4, SendFails, Refuses
<1>5. CASE \E rows \in abandoned : RecordAbandoned(rows)
  BY <1>5, EndsAbandoned
<1>. QED
  BY <1>1, <1>2, <1>3, <1>4, <1>5 DEF EventNext
-----------------------------------------------------------------------------
\* What is on its way lies in order, and what is gone lies before it.
LEMMA WayInOrder ==
  ASSUME DecidedInv, OutboxInv, CourierInv, NEW b \in 0 .. Len(happened), BatchFrom(b)
  PROVE  \A j, k \in DOMAIN (courier.batch \o outbox) : j < k =>
           PlaceOf((courier.batch \o outbox)[j]) < PlaceOf((courier.batch \o outbox)[k])
<1> DEFINE H == Len(happened)
           L == Len(outbox)
           n == Len(courier.batch)
           q == courier.batch \o outbox
           at(k) == IF k <= n THEN b + k ELSE H - L + (k - n)
<1>1. /\ courier.batch \in Seq(Event) /\ outbox \in Seq(Event) /\ H \in Nat /\ L \in Nat /\ n \in Nat /\ b \in Nat
      /\ b + n <= H - L
  BY DEF DecidedInv, OutboxInv, CourierInv, Couriers, BatchFrom
<1>2. /\ Len(q) = n + L /\ DOMAIN q = 1 .. n + L
      /\ \A k \in 1 .. n + L : q[k] = IF k <= n THEN courier.batch[k] ELSE outbox[k - n]
  BY <1>1, ConcatProperties, LenProperties
<1>3. ASSUME NEW k \in 1 .. n + L PROVE at(k) \in 1 .. H /\ PlaceOf(q[k]) = at(k)
  <2>1. CASE k <= n
    <3>1. k \in 1 .. n /\ b + k \in 1 .. H
      <4> HIDE DEF H, L, n
      <4>. QED
        BY <1>1, <2>1
    <3>2. q[k] = happened[b + k]
      BY <1>2, <2>1, <3>1 DEF BatchFrom
    <3>. QED
      BY <2>1, <3>1, <3>2, PlaceIs
  <2>2. CASE ~(k <= n)
    <3>1. k - n \in 1 .. L /\ H - L + (k - n) \in 1 .. H
      <4>1. k \in 1 .. n + L
        OBVIOUS
      <4> HIDE DEF H, L, n
      <4>. QED
        BY <1>1, <2>2, <4>1
    <3>2. q[k] = happened[H - L + (k - n)]
      BY <1>2, <2>2, <3>1 DEF OutboxInv
    <3>. QED
      BY <2>2, <3>1, <3>2, PlaceIs
  <2>. QED
    BY <2>1, <2>2
<1>4. ASSUME NEW j \in 1 .. n + L, NEW k \in 1 .. n + L, j < k PROVE at(j) < at(k)
  <2>1. j \in Nat /\ k \in Nat /\ j < k
    BY <1>1, <1>4
  <2> HIDE DEF H, L, n
  <2>2. CASE k <= n
    BY <1>1, <2>1, <2>2
  <2>3. CASE ~(k <= n) /\ j <= n
    BY <1>1, <2>1, <2>3
  <2>4. CASE ~(k <= n) /\ ~(j <= n)
    BY <1>1, <2>1, <2>4
  <2>. QED
    BY <2>2, <2>3, <2>4
<1>5. ASSUME NEW j \in DOMAIN q, NEW k \in DOMAIN q, j < k PROVE PlaceOf(q[j]) < PlaceOf(q[k])
  <2>1. j \in 1 .. n + L /\ k \in 1 .. n + L
    BY <1>2
  <2> HIDE DEF at, q, n, L, H
  <2>. QED
    BY <1>3, <1>4, <1>5, <2>1
<1>. QED
  BY <1>5

\* What was lost is older than all that still waits.
LEMMA GoneIsOlder ==
  ASSUME DecidedInv, OutboxInv, CourierInv, NEW b \in 0 .. Len(happened), BatchFrom(b), NEW e \in Gone
  PROVE  /\ \A f \in ToSet(outbox) : PlaceOf(e) < PlaceOf(f)
         /\ Room > 0 => \A f \in ToSet(courier.batch) : PlaceOf(e) < PlaceOf(f)
<1> DEFINE H == Len(happened)
           L == Len(outbox)
           n == Len(courier.batch)
<1>1. /\ courier.batch \in Seq(Event) /\ outbox \in Seq(Event) /\ happened \in Seq(Event)
      /\ H \in Nat /\ L \in Nat /\ n \in Nat /\ b \in Nat /\ b + n <= H - L
  BY DEF DecidedInv, OutboxInv, CourierInv, Couriers, BatchFrom
<1>2. PICK k \in 1 .. H : e = happened[k]
  BY <1>1, EntriesOf DEF Gone
<1>3. e \notin ToSet(outbox) /\ e \notin ToSet(courier.batch)
  BY DEF Gone, OnItsWay
<1>4. k <= H - L
  <2>. SUFFICES ASSUME k > H - L PROVE FALSE
    BY <1>1
  <2>1. k - (H - L) \in 1 .. L /\ H - L + (k - (H - L)) = k
    <3>1. k \in 1 .. H
      OBVIOUS
    <3> HIDE DEF H, L
    <3>. QED
      BY <1>1, <3>1
  <2>2. outbox[k - (H - L)] = e
    BY <1>2, <2>1 DEF OutboxInv
  <2>. QED
    BY <1>1, <1>3, <2>1, <2>2, EntriesOf
<1>5. ASSUME NEW f \in ToSet(outbox) PROVE PlaceOf(e) < PlaceOf(f)
  <2>1. PICK i \in 1 .. L : f = outbox[i]
    BY <1>1, EntriesOf
  <2>2. f = happened[H - L + i]
    BY <2>1 DEF OutboxInv
  <2>3. H - L + i \in 1 .. H /\ k < H - L + i
    <3>1. L <= H
      BY DEF OutboxInv
    <3> HIDE DEF H, L
    <3>. QED
      BY <1>1, <1>4, <3>1
  <2>. QED
    BY <1>2, <2>2, <2>3, PlaceIs
<1>6. ASSUME Room > 0, NEW f \in ToSet(courier.batch) PROVE PlaceOf(e) < PlaceOf(f)
  <2>1. b + n = H - L
    BY <1>1, <1>6, EventAssumption DEF BatchFrom, Room
  <2>2. k <= b
    <3>. SUFFICES ASSUME k > b PROVE FALSE
      BY <1>1
    <3>1. k - b \in 1 .. n /\ b + (k - b) = k
      <4>1. k \in Nat /\ k > b
        OBVIOUS
      <4> HIDE DEF H, L, n
      <4>. QED
        BY <1>1, <1>4, <2>1, <4>1
    <3>2. courier.batch[k - b] = e
      BY <1>2, <3>1 DEF BatchFrom
    <3>. QED
      BY <1>1, <1>3, <3>1, <3>2, EntriesOf
  <2>3. PICK i \in 1 .. n : f = courier.batch[i]
    BY <1>1, EntriesOf
  <2>4. f = happened[b + i]
    BY <2>3 DEF BatchFrom
  <2>5. b + i \in 1 .. H /\ k < b + i
    <3>1. k \in Nat
      OBVIOUS
    <3> HIDE DEF H, L, n
    <3>. QED
      BY <1>1, <2>2, <3>1
  <2>. QED
    BY <1>2, <2>4, <2>5, PlaceIs
<1>. QED
  BY <1>5, <1>6

\* Every event that was decided is stored, on its way, or counted as lost.
LEMMA AccountedFor == ASSUME EventInv PROVE EventsAccounted
<1>0. DecidedInv /\ OutboxInv /\ CourierInv /\ LedgerInv
  BY DEF EventInv
<1>1. PICK b \in 0 .. Len(happened) : BatchFrom(b)
  BY <1>0 DEF CourierInv
<1>2. \A j, k \in DOMAIN (courier.batch \o outbox) : j < k =>
        PlaceOf((courier.batch \o outbox)[j]) < PlaceOf((courier.batch \o outbox)[k])
  BY <1>0, <1>1, WayInOrder
<1>3. ASSUME NEW e \in Gone
      PROVE  /\ \A f \in ToSet(outbox) : PlaceOf(e) < PlaceOf(f)
             /\ Room > 0 => \A f \in ToSet(courier.batch) : PlaceOf(e) < PlaceOf(f)
  BY <1>0, <1>1, GoneIsOlder
<1>. QED
  BY <1>0, <1>2, <1>3, Zenon DEF EventsAccounted, LedgerInv

\* The events' type follows from their invariant.
LEMMA EventsFit == ASSUME EventInv PROVE EventTypeOK
<1>0. OutboxInv /\ CourierInv /\ StoredInv /\ walk.pc \in {"closed", "open", "read"}
  BY DEF EventInv
<1> DEFINE f == [r \in stored |-> r.event.id]
<1>1. IsFiniteSet(stored) /\ \A r, q \in stored : r.event.id = q.event.id => r = q
  BY <1>0 DEF StoredInv, FitRows
<1>2. f \in Bijection(stored, IdsOf(stored))
  <2>1. f \in Surjection(stored, IdsOf(stored))
    BY DEF Surjection, IdsOf
  <2>2. f \in Injection(stored, IdsOf(stored))
    <3>1. f \in [stored -> IdsOf(stored)] /\ \A r, q \in stored : f[r] = f[q] => r = q
      BY <1>1 DEF IdsOf
    <3> HIDE DEF f
    <3>. QED
      BY <3>1, Fun_IsInj
  <2>. QED
    BY <2>1, <2>2 DEF Bijection
<1>3. Cardinality(IdsOf(stored)) = Cardinality(stored)
  <2> HIDE DEF f
  <2>. QED
    BY <1>1, <1>2, FS_Bijection DEF ExistsBijection
<1>. QED
  BY <1>0, <1>3 DEF EventTypeOK, OutboxInv, CourierInv, Couriers, StoredInv, FitRows

\* A step of another part leaves the events as they were.
LEMMA EventsStay == ASSUME EventInv, UNCHANGED reportVars PROVE EventInv'
<1>1. UNCHANGED <<today, registry, outbox, courier, abandoned, counters, stored, kept, walk, eventBudget, happened>>
  BY DEF reportVars, pathOfEvents, storeOfEvents
<1>2. OutboxInv' /\ CourierInv' /\ HandlingInv' /\ LedgerInv'
  BY <1>1, WayKept
<1>3. DecidedInv' /\ StoredInv'
  BY <1>1 DEF EventInv, DecidedInv, StoredInv
<1>. QED
  BY <1>1, <1>2, <1>3 DEF EventInv

-----------------------------------------------------------------------------
(* The pages and the graph.                                                   *)

Ranked(R, e) == Cardinality({f \in R : Newer(f, e)})
\* The newer an event the fewer are ahead of it, down to none.
LEMMA RanksDiffer ==
  ASSUME NEW R \in SUBSET Event, IsFiniteSet(R), \A e, f \in R : e.id = f.id => e = f
  PROVE  /\ \A e, f \in R : e # f => Newer(e, f) \/ Newer(f, e)
         /\ \A e, f \in R : Newer(e, f) => Ranked(R, e) < Ranked(R, f)
         /\ \A e \in R : Ranked(R, e) \in 0 .. Cardinality(R) - 1
         /\ \A m \in 0 .. Cardinality(R) - 1 : \E e \in R : Ranked(R, e) = m
         /\ Cardinality(R) \in Nat
<1> DEFINE n == Cardinality(R)
           A(e) == {f \in R : Newer(f, e)}
<1>1. n \in Nat
  BY FS_CardinalityType
<1>2. ASSUME NEW e \in R, NEW f \in R, e # f PROVE Newer(e, f) \/ Newer(f, e)
  <2>1. e \in Event /\ f \in Event /\ e.id # f.id
    BY <1>2
  <2>. QED
    BY <2>1 DEF Event, Newer
<1>3. ASSUME NEW e \in R, NEW f \in R, Newer(e, f) PROVE Ranked(R, e) < Ranked(R, f)
  <2>0. e \in Event /\ f \in Event
    OBVIOUS
  <2>1. A(e) \subseteq A(f)
    <3>. SUFFICES ASSUME NEW g \in R, Newer(g, e) PROVE Newer(g, f)
      OBVIOUS
    <3>1. g \in Event
      OBVIOUS
    <3>. QED
      BY <1>3, <2>0, <3>1 DEF Newer, Event
  <2>2. e \in A(f) /\ e \notin A(e)
    BY <1>3, <2>0 DEF Newer, Event
  <2>3. IsFiniteSet(A(e)) /\ IsFiniteSet(A(f))
    BY FS_Subset
  <2> DEFINE P == A(e)
             Q == A(f)
  <2>4. P \subseteq Q /\ P # Q /\ IsFiniteSet(Q) /\ IsFiniteSet(P)
    BY <2>1, <2>2, <2>3
  <2>. HIDE DEF P, Q
  <2>5. Cardinality(P) < Cardinality(Q)
    BY <2>4, FS_Subset, FS_CardinalityType
  <2>. QED
    BY <2>5 DEF P, Q, Ranked
<1>4. ASSUME NEW e \in R PROVE Ranked(R, e) \in 0 .. n - 1
  <2>0. e \in Event
    OBVIOUS
  <2> DEFINE P == A(e)
  <2>1. P \subseteq R /\ P # R
    <3>1. e \notin P
      BY <2>0 DEF Newer, Event
    <3>. QED
      BY <3>1
  <2>2. Ranked(R, e) = Cardinality(P)
    BY DEF Ranked
  <2>. HIDE DEF P
  <2>3. IsFiniteSet(P) /\ Cardinality(P) < n /\ Cardinality(P) \in Nat
    BY <1>1, <2>1, FS_Subset, FS_CardinalityType
  <2>. QED
    BY <1>1, <2>2, <2>3
<1> DEFINE g == [e \in R |-> Ranked(R, e)]
           N == 0 .. n - 1
<1>5. g \in Injection(R, N)
  <2>1. g \in [R -> N]
    BY <1>4
  <2>2. ASSUME NEW e \in R, NEW f \in R, g[e] = g[f] PROVE e = f
    <3>1. Ranked(R, e) = Ranked(R, f) /\ Ranked(R, e) \in Nat
      BY <1>4, <2>2
    <3>. QED
      BY <1>2, <1>3, <3>1
  <2>. HIDE DEF g, N
  <2>. QED
    BY <2>1, <2>2, Fun_IsInj
<1>6. IsFiniteSet(N) /\ Cardinality(N) = n
  <2>1. 0 \in Int /\ n - 1 \in Int
    BY <1>1
  <2>2. IsFiniteSet(0 .. n - 1) /\ Cardinality(0 .. n - 1) = IF 0 > n - 1 THEN 0 ELSE n - 1 - 0 + 1
    BY <2>1, FS_Interval
  <2>. HIDE DEF n
  <2>. QED
    BY <1>1, <2>2
<1>7. g \in Surjection(R, N)
  <2>. HIDE DEF g, N
  <2>. QED
    BY <1>5, <1>6, FS_Injection DEF n
<1>8. \A m \in N : \E e \in R : Ranked(R, e) = m
  BY <1>7 DEF Surjection
<1>. QED
  BY <1>1, <1>2, <1>3, <1>4, <1>8

\* A page lists the newest of what is past the cursor, newest first.
PageOf(R, size) == [i \in 1 .. size |-> CHOOSE e \in R : Ranked(R, e) = i - 1]

\* A page lists the first of the rows in order, all different, and the rest comes after it.
LEMMA PageLists ==
  ASSUME NEW R \in SUBSET Event, IsFiniteSet(R), \A e, f \in R : e.id = f.id => e = f,
         NEW size \in Nat, size <= Cardinality(R)
  PROVE  /\ PageOf(R, size) \in Seq(R) /\ Len(PageOf(R, size)) = size
         /\ \A j, k \in 1 .. size : j < k => Newer(PageOf(R, size)[j], PageOf(R, size)[k])
         /\ \A e \in R : \/ \E j \in 1 .. size : PageOf(R, size)[j] = e
                         \/ size < Cardinality(R) /\ (size > 0 => Newer(PageOf(R, size)[size], e))
<1> DEFINE n == Cardinality(R)
           r(e) == Ranked(R, e)
           page == PageOf(R, size)
<1>1. /\ \A e, f \in R : e # f => Newer(e, f) \/ Newer(f, e)
      /\ \A e, f \in R : Newer(e, f) => r(e) < r(f)
      /\ \A e \in R : r(e) \in 0 .. n - 1
      /\ \A m \in 0 .. n - 1 : \E e \in R : r(e) = m
      /\ n \in Nat
  BY RanksDiffer
<1>2. ASSUME NEW i \in 1 .. size PROVE page[i] \in R /\ r(page[i]) = i - 1
  <2>1. page[i] = CHOOSE e \in R : r(e) = i - 1
    BY DEF PageOf
  <2>2. i - 1 \in 0 .. n - 1
    BY <1>1
  <2>3. \E e \in R : r(e) = i - 1
    BY <1>1, <2>2
  <2>. HIDE DEF r, page
  <2>. QED
    BY <2>1, <2>3
<1>3. DOMAIN page = 1 .. size /\ page = [i \in 1 .. size |-> page[i]]
  BY DEF PageOf
<1>4. size <= n
  OBVIOUS
<1>. HIDE DEF page, n, r
<1>5. page \in Seq(R) /\ Len(page) = size
  BY <1>2, <1>3
<1>6. ASSUME NEW j \in 1 .. size, NEW k \in 1 .. size, j < k PROVE Newer(page[j], page[k])
  <2>1. page[j] \in R /\ page[k] \in R /\ r(page[j]) = j - 1 /\ r(page[k]) = k - 1
    BY <1>2
  <2>2. page[j] # page[k] /\ ~Newer(page[k], page[j])
    BY <1>1, <1>6, <2>1
  <2>. QED
    BY <1>1, <2>1, <2>2
<1>7. ASSUME NEW e \in R
      PROVE  \/ \E j \in 1 .. size : page[j] = e
             \/ size < n /\ (size > 0 => Newer(page[size], e))
  <2>1. r(e) \in 0 .. n - 1
    BY <1>1
  <2>2. CASE r(e) < size
    <3> DEFINE j == r(e) + 1
    <3>1. j \in 1 .. size /\ j - 1 = r(e)
      BY <2>1, <2>2
    <3>. HIDE DEF j
    <3>2. page[j] \in R /\ r(page[j]) = r(e)
      BY <1>2, <3>1
    <3>3. page[j] = e
      BY <1>1, <2>1, <3>2
    <3>. QED
      BY <3>1, <3>3
  <2>3. CASE ~(r(e) < size)
    <3>1. size < n
      BY <1>1, <2>1, <2>3
    <3>2. ASSUME size > 0 PROVE Newer(page[size], e)
      <4>1. size \in 1 .. size
        BY <3>2
      <4>2. page[size] \in R /\ r(page[size]) = size - 1
        BY <1>2, <4>1
      <4>3. r(page[size]) < r(e)
        BY <2>1, <2>3, <4>2
      <4>4. page[size] # e /\ ~Newer(e, page[size])
        BY <1>1, <2>1, <4>2, <4>3
      <4>. QED
        BY <1>1, <4>2, <4>4
    <3>. QED
      BY <3>1, <3>2
  <2>. QED
    BY <2>2, <2>3
<1>. QED
  BY <1>5, <1>6, <1>7 DEF page, n

\* A reader's list is sorted and ends where its cursor is; what it owes it has, or
\* has still to come to.
WalkInv ==
  /\ walk \in [pc : {"closed", "open", "read"}, listed : Seq(Event), owed : SUBSET Event, after : Seq(Event)]
  /\ \A j, k \in 1 .. Len(walk.listed) : j < k => Newer(walk.listed[j], walk.listed[k])
  /\ walk.pc = "closed" => walk.listed = << >> /\ walk.after = << >>
  /\ walk.pc = "open" => /\ Len(walk.listed) > 0 /\ walk.after = <<walk.listed[Len(walk.listed)]>>
                         /\ \A e \in walk.owed : e \in ToSet(walk.listed) \/ Past(e, walk.after)
  /\ walk.pc = "read" => walk.owed \subseteq ToSet(walk.listed)
TimesPast == \A k \in 1 .. Len(happened) : happened[k].at <= today

\* The rows a reader may see are events, finitely many, one for an id.
LEMMA VisibleFits ==
  ASSUME EventInv
  PROVE  /\ Visible \in SUBSET Event /\ IsFiniteSet(Visible) /\ Visible \subseteq ToSet(happened)
         /\ \A e, f \in Visible : e.id = f.id => e = f
<1>0. DecidedInv /\ StoredInv
  BY DEF EventInv
<1> DEFINE live == {q \in stored : q.expires > today}
           g == [r \in live |-> r.event]
<1>1. IsFiniteSet(live)
  BY <1>0, FS_Subset DEF StoredInv, FitRows
<1>2. g \in Surjection(live, Visible)
  BY DEF Surjection, Visible
<1>3. IsFiniteSet(Visible)
  <2>. HIDE DEF live, g
  <2>. QED
    BY <1>1, <1>2, FS_Surjection
<1>4. Visible \subseteq ToSet(happened)
  BY <1>0 DEF Visible, StoredInv, FitRows
<1>5. Visible \in SUBSET Event
  BY <1>0 DEF Visible, StoredInv, StoredRow
<1>6. \A e, f \in Visible : e.id = f.id => e = f
  BY <1>0, <1>4, OneAnId
<1>. QED
  BY <1>3, <1>4, <1>5, <1>6

\* A walk that has not begun owes nothing.
LEMMA WalkStarts == ASSUME EventInit PROVE WalkInv /\ TimesPast
<1>1. walk = [pc |-> "closed", listed |-> << >>, owed |-> {}, after |-> << >>] /\ happened = << >>
  BY DEF EventInit, NotReading
<1>2. << >> \in Seq(Event) /\ Len(<< >>) = 0
  OBVIOUS
<1>3. WalkInv
  BY <1>1, <1>2 DEF WalkInv
<1>. QED
  BY <1>1, <1>3 DEF TimesPast

\* A page appended keeps the list in order and owes the rest past the cursor (ai_events.py, events_query).
LEMMA PageRead == ASSUME EventInv, WalkInv, ReadPage PROVE WalkInv'
<1> DEFINE R == Rest(walk.after)
           size == IF More(walk.after) THEN PageSize ELSE Cardinality(R)
           page == PageOf(R, size)
           owed == IF walk.pc = "closed" THEN Visible ELSE walk.owed \cap Visible
           sofar == walk.listed
           all == sofar \o page
<1>1. /\ R \in SUBSET Event /\ IsFiniteSet(R) /\ R \subseteq Visible
      /\ \A e, f \in R : e.id = f.id => e = f
      /\ Visible \in SUBSET Event
  BY VisibleFits, FS_Subset DEF Rest
<1>2. \A e \in Visible : e \in R <=> Past(e, walk.after)
  BY DEF Rest
<1>3. Page(walk.after) = page
  BY DEF Page, PageOf, Ranked
<1>4. /\ walk.pc \in {"closed", "open"}
      /\ walk' = IF More(walk.after)
                 THEN [pc |-> "open", listed |-> all, owed |-> owed, after |-> <<page[Len(page)]>>]
                 ELSE [pc |-> "read", listed |-> all, owed |-> owed, after |-> << >>]
  BY <1>3 DEF ReadPage
<1>5. More(walk.after) <=> Cardinality(R) > PageSize
  BY DEF More
<1>. HIDE DEF R
<1>6. /\ Cardinality(R) \in Nat /\ size \in Nat /\ size <= Cardinality(R)
      /\ More(walk.after) => size > 0
      /\ ~More(walk.after) => size = Cardinality(R)
  BY <1>1, <1>5, FS_CardinalityType, EventAssumption
<1>. HIDE DEF size
<1>7. /\ page \in Seq(R) /\ Len(page) = size
      /\ \A j, k \in 1 .. size : j < k => Newer(page[j], page[k])
      /\ \A e \in R : \/ \E j \in 1 .. size : page[j] = e
                      \/ size < Cardinality(R) /\ (size > 0 => Newer(page[size], e))
  BY <1>1, <1>6, PageLists
<1>. HIDE DEF page
<1>8. /\ sofar \in Seq(Event) /\ walk.owed \in SUBSET Event
      /\ \A j, k \in 1 .. Len(sofar) : j < k => Newer(sofar[j], sofar[k])
      /\ walk.pc = "closed" => sofar = << >> /\ walk.after = << >>
      /\ walk.pc = "open" => /\ Len(sofar) > 0 /\ walk.after = <<sofar[Len(sofar)]>>
                             /\ \A e \in walk.owed : e \in ToSet(sofar) \/ Past(e, walk.after)
  BY DEF WalkInv
<1>9. owed \in SUBSET Event
  BY <1>1, <1>8
<1>10. ASSUME NEW e \in owed PROVE e \in ToSet(sofar) \/ e \in R
  <2>1. CASE walk.pc = "closed"
    <3>1. Past(e, walk.after) /\ e \in Visible
      BY <1>8, <2>1 DEF Past
    <3>. QED
      BY <1>2, <3>1
  <2>2. CASE walk.pc = "open"
    <3>1. e \in Visible /\ (e \in ToSet(sofar) \/ Past(e, walk.after))
      BY <1>8, <2>2
    <3>. QED
      BY <1>2, <3>1
  <2>. QED
    BY <1>4, <2>1, <2>2
<1>. HIDE DEF owed
<1>11. /\ page \in Seq(Event) /\ \A j \in 1 .. size : page[j] \in R /\ page[j] \in Event
  BY <1>1, <1>7
<1>. HIDE DEF sofar
<1>12. /\ all \in Seq(Event) /\ Len(all) = Len(sofar) + size
       /\ \A j \in 1 .. Len(sofar) : all[j] = sofar[j]
       /\ \A j \in 1 .. size : all[Len(sofar) + j] = page[j]
       /\ Len(sofar) \in Nat /\ \A j \in 1 .. Len(sofar) : sofar[j] \in Event
       /\ DOMAIN all = 1 .. Len(sofar) + size /\ DOMAIN sofar = 1 .. Len(sofar)
  <2>1. sofar \in Seq(Event) /\ page \in Seq(Event) /\ Len(page) = size /\ size \in Nat
    BY <1>6, <1>7, <1>8, <1>11
  <2>2. /\ Len(sofar) \in Nat /\ DOMAIN sofar = 1 .. Len(sofar)
        /\ \A j \in 1 .. Len(sofar) : sofar[j] \in Event
    BY <2>1
  <2>3. all \in Seq(Event) /\ Len(all) = Len(sofar) + size
    BY <2>1
  <2>4. DOMAIN all = 1 .. Len(sofar) + size
    BY <2>3
  <2>5. \A j \in 1 .. Len(sofar) : all[j] = sofar[j]
    BY <2>1
  <2>6. \A j \in 1 .. size : all[Len(sofar) + j] = page[j]
    BY <2>1
  <2>. QED
    BY <2>2, <2>3, <2>4, <2>5, <2>6
<1>. HIDE DEF all
<1>13. ASSUME NEW e \in owed
       PROVE  \/ e \in ToSet(all)
              \/ size < Cardinality(R) /\ (size > 0 => Newer(page[size], e))
  <2>1. CASE e \in ToSet(sofar)
    <3>1. PICK j \in 1 .. Len(sofar) : sofar[j] = e
      BY <1>12, <2>1 DEF ToSet
    <3>2. j \in DOMAIN all /\ all[j] = e
      BY <1>6, <1>12, <3>1
    <3>. QED
      BY <3>2 DEF ToSet
  <2>2. CASE e \in R /\ \E j \in 1 .. size : page[j] = e
    <3>1. PICK j \in 1 .. size : page[j] = e
      BY <2>2
    <3>2. Len(sofar) + j \in DOMAIN all /\ all[Len(sofar) + j] = e
      BY <1>6, <1>12, <3>1
    <3>. QED
      BY <3>2 DEF ToSet
  <2>. QED
    BY <1>7, <1>10, <2>1, <2>2
<1>14. ASSUME NEW j \in 1 .. Len(sofar), NEW k \in 1 .. size PROVE Newer(sofar[j], page[k])
  <2>1. CASE walk.pc = "closed"
    BY <1>8, <1>12, <2>1
  <2>2. CASE walk.pc = "open"
    <3> DEFINE last == sofar[Len(sofar)]
               e == page[k]
               f == sofar[j]
    <3>1. walk.after = <<last>> /\ Len(sofar) > 0
      BY <1>8, <2>2
    <3>2. page[k] \in R /\ page[k] \in Visible
      BY <1>1, <1>11
    <3>3. Past(page[k], walk.after)
      BY <1>2, <3>2
    <3>4. Newer(last, page[k])
      <4>1. walk.after # << >> /\ walk.after[1] = last
        BY <3>1
      <4>. QED
        BY <3>3, <4>1 DEF Past
    <3>5. j = Len(sofar) \/ Newer(f, last)
      <4> DEFINE l == Len(sofar)
      <4>0. l \in Nat /\ l > 0 /\ j \in 1 .. l
        BY <1>12, <3>1
      <4>. HIDE DEF l
      <4>3. l \in 1 .. l /\ (j = l \/ j < l)
        BY <4>0
      <4>1. Len(sofar) \in 1 .. Len(sofar) /\ j \in 1 .. Len(sofar) /\ (j = Len(sofar) \/ j < Len(sofar))
        BY <4>0, <4>3 DEF l
      <4>2. \A i, m \in 1 .. Len(sofar) : i < m => Newer(sofar[i], sofar[m])
        BY <1>8
      <4>. QED
        BY <4>1, <4>2
    <3>6. last \in Event /\ f \in Event /\ e \in Event
      BY <1>11, <1>12, <3>1
    <3>. HIDE DEF last
    <3>7. CASE j = Len(sofar)
      BY <3>4, <3>7 DEF last
    <3>8. CASE Newer(f, last)
      <4>1. Newer(last, e)
        BY <3>4
      <4>. HIDE DEF e, f
      <4>2. Newer(f, e)
        BY <3>6, <3>8, <4>1 DEF Newer, Event
      <4>. QED
        BY <4>2 DEF e, f
    <3>. QED
      BY <3>5, <3>7, <3>8
  <2>. QED
    BY <1>4, <2>1, <2>2
<1>15. ASSUME NEW j \in 1 .. Len(all), NEW k \in 1 .. Len(all), j < k PROVE Newer(all[j], all[k])
  <2> DEFINE l == Len(sofar)
  <2>0. l \in Nat /\ size \in Nat /\ Len(all) = l + size
    BY <1>6, <1>12
  <2>1. CASE k <= l
    <3>1. j \in 1 .. l /\ k \in 1 .. l
      BY <1>15, <2>0, <2>1
    <3>. QED
      BY <1>8, <1>12, <1>15, <3>1
  <2>2. CASE j <= l /\ k > l
    <3>1. j \in 1 .. l /\ k - l \in 1 .. size /\ l + (k - l) = k
      BY <1>15, <2>0, <2>2
    <3>2. all[j] = sofar[j] /\ all[k] = page[k - l]
      BY <1>12, <3>1
    <3>. QED
      BY <1>14, <3>1, <3>2
  <2>3. CASE j > l
    <3>1. j - l \in 1 .. size /\ k - l \in 1 .. size /\ l + (k - l) = k /\ l + (j - l) = j /\ j - l < k - l
      BY <1>15, <2>0, <2>3
    <3>2. all[j] = page[j - l] /\ all[k] = page[k - l]
      BY <1>12, <3>1
    <3>. QED
      BY <1>7, <3>1, <3>2
  <2>. QED
    BY <1>15, <2>0, <2>1, <2>2, <2>3
<1>16. CASE More(walk.after)
  <2> DEFINE last == page[size]
  <2>1. size > 0 /\ size \in 1 .. size
    BY <1>6, <1>16
  <2>2. walk' = [pc |-> "open", listed |-> all, owed |-> owed, after |-> <<last>>]
    BY <1>4, <1>7, <1>16
  <2>3. last \in Event /\ Len(all) > 0 /\ all[Len(all)] = last
    BY <1>11, <1>12, <2>1
  <2>4. \A e \in owed : e \in ToSet(all) \/ Past(e, <<last>>)
    BY <1>13, <2>1 DEF Past
  <2>. HIDE DEF last
  <2>5. <<last>> \in Seq(Event)
    BY <2>3
  <2>. QED
    BY <1>9, <1>12, <1>15, <2>2, <2>3, <2>4, <2>5 DEF WalkInv
<1>17. CASE ~More(walk.after)
  <2>1. walk' = [pc |-> "read", listed |-> all, owed |-> owed, after |-> << >>]
    BY <1>4, <1>17
  <2>2. owed \subseteq ToSet(all)
    BY <1>6, <1>13, <1>17
  <2>3. << >> \in Seq(Event)
    OBVIOUS
  <2>. QED
    BY <1>9, <1>12, <1>15, <2>1, <2>2, <2>3 DEF WalkInv
<1>. QED
  BY <1>16, <1>17

\* A step that is not the reader's leaves the walk as it was.
LEMMA WalkRests == ASSUME WalkInv, walk' = walk PROVE WalkInv'
BY DEF WalkInv

\* Every step of the events keeps the walk's invariant.
LEMMA WalkSteps == ASSUME EventInv, WalkInv, TimesPast, EventNext PROVE WalkInv' /\ TimesPast'
<1>1. WalkInv'
  <2>1. CASE ReadPage
    BY <2>1, PageRead
  <2>2. ASSUME walk' = walk PROVE WalkInv'
    BY <2>2, WalkRests
  <2>. QED
    BY <2>1, <2>2 DEF EventNext, Decide, Withdraw, Reconfigure, TakeBatch, Reach, Record, Delivered, Fail, Refuse,
         RecordAbandoned, PassDay, PurgeExpired, pathOfEvents, storeOfEvents
<1>2. TimesPast'
  <2>0. happened \in Seq(Event) /\ today \in Nat
    BY DEF EventInv, DecidedInv
  <2>1. ASSUME NEW c \in Reporters, Decide(c) PROVE TimesPast'
    <3> DEFINE event == [id |-> eventBudget.ids[Len(happened) + 1], of |-> c, at |-> today]
    <3>1. happened' = Append(happened, event) /\ today' = today /\ event.at = today
      BY <2>1 DEF Decide
    <3>. HIDE DEF event
    <3>2. /\ Len(happened') = Len(happened) + 1 /\ happened'[Len(happened) + 1] = event
          /\ \A k \in 1 .. Len(happened) : happened'[k] = happened[k]
      BY <2>0, <3>1
    <3>. QED
      BY <2>0, <3>1, <3>2 DEF TimesPast
  <2>2. CASE PassDay
    <3>1. today' = today + 1 /\ happened' = happened
      BY <2>2 DEF PassDay
    <3>2. ASSUME NEW k \in 1 .. Len(happened) PROVE happened[k].at \in Nat
      <4>1. happened[k] \in Event
        BY <2>0
      <4>. QED
        BY <4>1 DEF Event
    <3>. QED
      BY <2>0, <3>1, <3>2 DEF TimesPast
  <2>3. ASSUME happened' = happened, today' = today PROVE TimesPast'
    BY <2>3 DEF TimesPast
  <2>. QED
    BY <2>1, <2>2, <2>3 DEF EventNext, Withdraw, Reconfigure, TakeBatch, Reach, Record, Delivered, Fail, Refuse,
         RecordAbandoned, PurgeExpired, ReadPage, TryLater
<1>. QED
  BY <1>1, <1>2

\* A product with a number grows with its factor.
LEMMA Steadily ==
  ASSUME NEW x \in Int, NEW y \in Int, NEW b \in Nat, x <= y
  PROVE  x * b <= y * b /\ x * b \in Int /\ y * b \in Int
<1>1. (y - x) * b \in Nat
  OBVIOUS
<1>2. (y - x) * b = y * b - x * b
  OBVIOUS
<1>. QED
  BY <1>1, <1>2

\* A bucket further is a bucket later.
LEMMA OneFurther ==
  ASSUME NEW x \in Int, NEW b \in Nat
  PROVE  (x + 1) * b = x * b + b /\ x * b \in Int
OBVIOUS

\* Of two bucket edges the earlier has the lower number.
LEMMA Earlier ==
  ASSUME NEW x \in Int, NEW y \in Int, NEW b \in Nat, x * b < y * b
  PROVE  x < y
<1>. SUFFICES ASSUME y <= x PROVE FALSE
  OBVIOUS
<1>1. y * b <= x * b /\ x * b \in Int /\ y * b \in Int
  BY Steadily
<1>. QED
  BY <1>1

\* The quotient is the last bucket edge at or before a time.
LEMMA Divided ==
  ASSUME NEW a \in Int, NEW b \in Nat \ {0}
  PROVE  /\ a \div b \in Int /\ (a \div b) * b \in Int
         /\ (a \div b) * b <= a /\ a < (a \div b) * b + b
OBVIOUS

\* A bucket edge divides to its own number.
LEMMA Exactly ==
  ASSUME NEW q \in Int, NEW b \in Nat \ {0}
  PROVE  (q * b) \div b = q
OBVIOUS

\* The window ends at a bucket's end, not before now, and a bucket lies in it or not.
InWindow(e) == e.at >= WindowStart /\ e.at < WindowEnd

\* The window of the counts: its edges, and each time in it in one of its slots.
LEMMA WindowIs ==
  ASSUME today \in Nat
  PROVE  /\ WindowStart \in Int /\ WindowEnd \in Int /\ FirstSlot \in Int /\ today <= WindowEnd
         /\ \A t \in Nat : /\ SlotOf(t) \in Int
                           /\ t >= WindowStart /\ t < WindowEnd => SlotOf(t) - FirstSlot \in 0 .. Buckets - 1
<1> DEFINE T == today + ClockOffset
           d == (-T) \div Bucket
           q == -d
           f == q - Buckets
           qb == q * Bucket
           fb == f * Bucket
<1>0. Bucket \in Nat \ {0} /\ Bucket \in Nat /\ Buckets \in Nat \ {0} /\ ClockOffset \in Int
  BY EventAssumption
<1>1. T \in Int /\ -T \in Int
  BY <1>0
<1>2. d \in Int /\ d * Bucket \in Int /\ d * Bucket <= -T /\ -T < d * Bucket + Bucket
  <2>. HIDE DEF T
  <2>. QED
    BY <1>0, <1>1, Divided
<1>3. WindowEnd = qb - ClockOffset
  BY DEF WindowEnd
<1>4. WindowStart = qb - ClockOffset - Buckets * Bucket
  BY <1>3 DEF WindowStart
<1>. HIDE DEF d
<1>5. q \in Int /\ f \in Int /\ qb \in Int /\ fb \in Int
  BY <1>0, <1>2
<1>6. qb = -(d * Bucket)
  BY <1>0, <1>2
<1>7. fb = qb - Buckets * Bucket /\ Buckets * Bucket \in Nat
  BY <1>0, <1>2
<1>8. T <= qb
  <2> DEFINE p == d * Bucket
  <2>1. p \in Int /\ p <= -T /\ qb = -p
    BY <1>2, <1>6
  <2>. HIDE DEF p, T, qb
  <2>. QED
    BY <1>1, <1>5, <2>1
<1>. HIDE DEF q, f, qb, fb
<1>9. WindowStart = fb - ClockOffset
  <2> DEFINE m == Buckets * Bucket
  <2>1. m \in Nat /\ fb = qb - m /\ WindowStart = qb - ClockOffset - m
    BY <1>4, <1>7
  <2>. HIDE DEF m
  <2>. QED
    BY <1>0, <1>5, <2>1
<1>10. WindowStart \in Int /\ WindowEnd \in Int
  BY <1>0, <1>3, <1>5, <1>9
<1>11. today <= WindowEnd
  BY <1>0, <1>3, <1>5, <1>8
<1>12. FirstSlot = f
  <2>1. WindowStart + ClockOffset = f * Bucket
    <3>1. WindowStart + ClockOffset = fb
      BY <1>0, <1>5, <1>9
    <3>. QED
      BY <3>1 DEF fb
  <2>2. (f * Bucket) \div Bucket = f
    BY <1>0, <1>5, Exactly
  <2>. QED
    BY <2>1, <2>2 DEF FirstSlot, SlotOf
<1>13. ASSUME NEW t \in Nat
       PROVE  /\ SlotOf(t) \in Int
              /\ t >= WindowStart /\ t < WindowEnd => SlotOf(t) - FirstSlot \in 0 .. Buckets - 1
  <2> DEFINE a == t + ClockOffset
             s == a \div Bucket
             sb == s * Bucket
  <2>1. a \in Int
    BY <1>0
  <2>2. s \in Int /\ sb \in Int /\ sb <= a /\ a < sb + Bucket
    <3>. HIDE DEF a
    <3>. QED
      BY <1>0, <2>1, Divided
  <2>3. SlotOf(t) = s
    BY DEF SlotOf
  <2>. HIDE DEF s
  <2>4. ASSUME t >= WindowStart, t < WindowEnd PROVE s < q /\ f <= s
    <3>1. fb <= a /\ a < qb
      BY <1>0, <1>3, <1>5, <1>9, <2>4
    <3>. HIDE DEF a
    <3>2. sb < qb
      <4>. HIDE DEF sb
      <4>. QED
        BY <1>5, <2>1, <2>2, <3>1
    <3>3. s < q
      BY <1>0, <1>5, <2>2, <3>2, Earlier DEF qb
    <3>4. (s + 1) * Bucket = sb + Bucket
      BY <1>0, <2>2, OneFurther
    <3> DEFINE nb == (s + 1) * Bucket
    <3>5. fb < nb
      <4>1. nb = sb + Bucket
        BY <3>4
      <4>. HIDE DEF nb, sb
      <4>. QED
        BY <1>0, <1>5, <2>1, <2>2, <3>1, <4>1
    <3>6. f < s + 1
      BY <1>0, <1>5, <2>2, <3>5, Earlier DEF fb
    <3>. QED
      BY <1>5, <2>2, <3>3, <3>6
  <2>5. t >= WindowStart /\ t < WindowEnd => s - f \in 0 .. Buckets - 1
    <3>. HIDE DEF a, sb
    <3>. QED
      BY <1>0, <1>5, <2>2, <2>4 DEF f
  <2>. QED
    BY <1>12, <2>2, <2>3, <2>5
<1>. QED
  BY <1>5, <1>10, <1>11, <1>12, <1>13

\* The buckets add up to what is counted in the window.
UpTo(c, k) == {e \in Counted(c) : SlotOf(e.at) - FirstSlot \in 0 .. k - 1}

\* The buckets of a camera add up to its events in the window (ai_events.py, activity counts).
LEMMA BucketsAddUp ==
  ASSUME EventInv, NEW c
  PROVE  Total(c) = Cardinality(Counted(c))
<1> DEFINE n == Buckets
           V == Nat
           s(k) == Series(c)[k]
           E(f) == f = [k \in 0 .. n |-> IF k = 0 THEN 0 ELSE f[k - 1] + Series(c)[k - 1]]
           F == CHOOSE f : E(f)
           step == [x \in (1 .. n) \X V |-> x[2] + Series(c)[x[1] - 1]]
           zero == 0
           Here(i) == {e \in Counted(c) : SlotOf(e.at) - FirstSlot = i}
<1>0. n \in Nat
  BY EventAssumption
<1>1. Counted(c) \in SUBSET Visible /\ IsFiniteSet(Counted(c)) /\ Visible \in SUBSET Event /\ today \in Nat
  BY VisibleFits, FS_Subset DEF Counted, EventInv, DecidedInv
<1>2. \A k \in 1 .. n : Series(c)[k - 1] = Cardinality(Here(k - 1)) /\ IsFiniteSet(Here(k - 1)) /\ Cardinality(Here(k - 1)) \in Nat
  <2>. SUFFICES ASSUME NEW k \in 1 .. n
                PROVE Series(c)[k - 1] = Cardinality(Here(k - 1)) /\ IsFiniteSet(Here(k - 1)) /\ Cardinality(Here(k - 1)) \in Nat
    OBVIOUS
  <2>1. k - 1 \in 0 .. Buckets - 1
    BY <1>0
  <2>2. Series(c)[k - 1] = Cardinality(Here(k - 1))
    BY <2>1 DEF Series
  <2> DEFINE H == Here(k - 1)
  <2>3. H \subseteq Counted(c)
    OBVIOUS
  <2>. HIDE DEF H
  <2>4. IsFiniteSet(H) /\ Cardinality(H) \in Nat
    BY <1>1, <2>3, FS_Subset, FS_CardinalityType
  <2>. QED
    BY <2>2, <2>4 DEF H
<1>3. Total(c) = F[n]
  BY DEF Total
<1>. HIDE DEF n
<1>4. \A k \in 1 .. n : Series(c)[k - 1] \in Nat
  BY <1>2
<1>5. step \in [(1 .. n) \X V -> V] /\ zero \in V
  BY <1>4
<1>6. \A k \in 1 .. n, v \in V : step[<<k, v>>] = v + Series(c)[k - 1]
  OBVIOUS
<1>. HIDE DEF step, zero
<1>7. PICK g \in [0 .. n -> V] : g[0] = zero /\ \A k \in 1 .. n : g[k] = step[<<k, g[k - 1]>>]
  <2>. HIDE DEF V, E, F
  <2>1. Unrolls(V, zero, n, step)
    BY <1>0, <1>5, Unrolled
  <2>. QED
    BY <2>1 DEF Unrolls
<1>8. E(F)
  <2>0. g[0] = 0
    BY <1>7 DEF zero
  <2>1. E(g)
    <3>1. ASSUME NEW k \in 1 .. n PROVE g[k] = g[k - 1] + Series(c)[k - 1]
      <4>1. k - 1 \in 0 .. n
        BY <1>0
      <4>2. g[k - 1] \in V
        BY <4>1, <1>7
      <4>. QED
        BY <1>6, <1>7, <4>2
    <3>2. g = [k \in 0 .. n |-> g[k]] /\ \A k \in 0 .. n : k = 0 \/ k \in 1 .. n
      BY <1>0, <1>7
    <3>. QED
      BY <1>7, <2>0, <3>1, <3>2
  <2>. HIDE DEF E
  <2>. QED
    BY <2>1, Zenon
<1>. HIDE DEF F
<1>9. /\ F[0] = 0
      /\ \A k \in 1 .. n : F[k] = F[k - 1] + Series(c)[k - 1]
  <2>1. n \in Nat /\ 0 \in 0 .. n /\ \A k \in 1 .. n : k \in 0 .. n /\ k # 0
    BY <1>0
  <2>. QED
    BY <1>8, <2>1
<1>. HIDE DEF E
<1>10. \A e \in Counted(c) : SlotOf(e.at) \in Int /\ FirstSlot \in Int /\ SlotOf(e.at) - FirstSlot \in 0 .. n - 1
  <2>. SUFFICES ASSUME NEW e \in Counted(c)
                PROVE SlotOf(e.at) \in Int /\ FirstSlot \in Int /\ SlotOf(e.at) - FirstSlot \in 0 .. n - 1
    OBVIOUS
  <2>1. e \in Event /\ e.at >= WindowStart /\ e.at < WindowEnd
    BY <1>1 DEF Counted
  <2>2. e.at \in Nat
    BY <2>1 DEF Event
  <2>. QED
    BY <1>1, <2>1, <2>2, WindowIs DEF n
<1> DEFINE I == {k \in 0 .. n : F[k] = Cardinality(UpTo(c, k))}
<1>11. \A k \in 0 .. n : k \in I
  <2>1. 0 \in I
    <3>1. UpTo(c, 0) = {}
      BY DEF UpTo
    <3>2. Cardinality({}) = 0
      BY FS_EmptySet
    <3>3. F[0] = 0
      BY <1>9
    <3>4. F[0] = Cardinality(UpTo(c, 0))
      BY <3>1, <3>2, <3>3, Zenon
    <3>5. 0 \in 0 .. n
      BY <1>0
    <3>. QED
      BY <3>4, <3>5
  <2>2. ASSUME NEW k \in 1 .. n, k - 1 \in I PROVE k \in I
    <3> DEFINE P == UpTo(c, k - 1)
               H == Here(k - 1)
               Q == UpTo(c, k)
    <3>1. \A e \in Counted(c) : SlotOf(e.at) - FirstSlot \in 0 .. k - 1
                                <=> SlotOf(e.at) - FirstSlot \in 0 .. (k - 1) - 1 \/ SlotOf(e.at) - FirstSlot = k - 1
      <4>. SUFFICES ASSUME NEW e \in Counted(c)
                    PROVE SlotOf(e.at) - FirstSlot \in 0 .. k - 1
                          <=> SlotOf(e.at) - FirstSlot \in 0 .. (k - 1) - 1 \/ SlotOf(e.at) - FirstSlot = k - 1
        OBVIOUS
      <4> DEFINE z == SlotOf(e.at) - FirstSlot
      <4>1. z \in Int
        BY <1>10
      <4>. HIDE DEF z
      <4>2. z \in 0 .. k - 1 <=> z \in 0 .. (k - 1) - 1 \/ z = k - 1
        BY <1>0, <4>1
      <4>. QED
        BY <4>2 DEF z
    <3>2. Q = P \cup H
      BY <3>1 DEF UpTo
    <3>3. P \cap H = {}
      <4>. SUFFICES ASSUME NEW e \in P, e \in H PROVE FALSE
        OBVIOUS
      <4>1. SlotOf(e.at) - FirstSlot \in 0 .. (k - 1) - 1 /\ SlotOf(e.at) - FirstSlot = k - 1
        BY DEF UpTo
      <4>. QED
        BY <4>1
    <3>4. IsFiniteSet(P)
      BY <1>1, FS_Subset DEF UpTo
    <3>5. IsFiniteSet(H) /\ Cardinality(H) \in Nat /\ Series(c)[k - 1] = Cardinality(H)
      BY <1>2
    <3>6. F[k - 1] = Cardinality(P)
      BY <2>2
    <3>. HIDE DEF P, H, Q
    <3>7. Cardinality(Q) = Cardinality(P) + Cardinality(H) - Cardinality({})
      BY <3>2, <3>3, <3>4, <3>5, FS_Union
    <3>8. Cardinality({}) = 0 /\ Cardinality(P) \in Nat
      BY <3>4, FS_EmptySet, FS_CardinalityType
    <3>9. F[k] = Cardinality(Q) /\ k \in 0 .. n
      BY <1>0, <1>9, <3>5, <3>6, <3>7, <3>8
    <3>. QED
      BY <3>9 DEF Q
  <2>3. I \in SUBSET (0 .. n)
    OBVIOUS
  <2>. HIDE DEF I
  <2>. QED
    BY <1>0, <2>1, <2>2, <2>3, StepByStep
<1>12. UpTo(c, n) = Counted(c)
  BY <1>10 DEF UpTo
<1>13. n \in 0 .. n
  BY <1>0
<1>. QED
  BY <1>3, <1>11, <1>12, <1>13

\* What a walk lists at its end is in order, without a gap and without a repeat.
LEMMA PagesAreComplete == ASSUME EventInv, WalkInv, TimesPast PROVE PagesComplete
<1>1. DOMAIN walk.listed = 1 .. Len(walk.listed)
  BY DEF WalkInv
<1>2. /\ \A j, k \in DOMAIN walk.listed : j < k => Newer(walk.listed[j], walk.listed[k])
      /\ walk.pc = "read" => walk.owed \subseteq ToSet(walk.listed)
  BY <1>1 DEF WalkInv
<1>3. ASSUME NEW c \in Reporters
      PROVE  Total(c) = Cardinality({e \in Visible : e.of = c /\ e.at \in WindowStart .. today /\ e.at # WindowEnd})
  <2>1. today \in Nat /\ happened \in Seq(Event)
    BY DEF EventInv, DecidedInv
  <2>2. WindowStart \in Int /\ WindowEnd \in Int /\ today <= WindowEnd
    BY <2>1, WindowIs
  <2>3. ASSUME NEW e \in Visible PROVE e.at \in Nat /\ e.at <= today
    <3>1. e \in ToSet(happened) /\ e \in Event
      BY VisibleFits
    <3>2. PICK k \in 1 .. Len(happened) : happened[k] = e
      BY <2>1, <3>1 DEF ToSet
    <3>. QED
      BY <3>1, <3>2 DEF TimesPast, Event
  <2>4. \A e \in Visible : e.at >= WindowStart /\ e.at < WindowEnd
                           <=> e.at \in WindowStart .. today /\ e.at # WindowEnd
    <3>. SUFFICES ASSUME NEW e \in Visible
                  PROVE e.at >= WindowStart /\ e.at < WindowEnd <=> e.at \in WindowStart .. today /\ e.at # WindowEnd
      OBVIOUS
    <3>. QED
      BY <2>1, <2>2, <2>3
  <2>5. Counted(c) = {e \in Visible : e.of = c /\ e.at \in WindowStart .. today /\ e.at # WindowEnd}
    BY <2>4 DEF Counted
  <2>. QED
    BY <2>5, BucketsAddUp
<1>. QED
  BY <1>2, <1>3 DEF PagesComplete

-----------------------------------------------------------------------------
(* Boxes of cells and of pixels.                                              *)

LEMMA GreatestOf ==
  ASSUME NEW m \in Nat, NEW T, T \subseteq 0 .. m, T # {}
  PROVE  \E x \in T : \A y \in T : x >= y
<1> DEFINE U == {m - y : y \in T}
<1>1. U \subseteq Nat /\ U # {}
  OBVIOUS
<1>2. PICK u \in U : \A w \in U : u <= w
  <2>. HIDE DEF U
  <2>. QED
    BY <1>1, LeastOf
<1>3. PICK x \in T : u = m - x
  OBVIOUS
<1>4. ASSUME NEW y \in T PROVE x >= y
  <2>1. m - y \in U
    OBVIOUS
  <2>2. m - x <= m - y
    BY <1>2, <1>3, <2>1
  <2>3. x \in 0 .. m /\ y \in 0 .. m
    OBVIOUS
  <2>. QED
    BY <2>2, <2>3
<1>. QED
  BY <1>4

Boxes == {b \in Nat \X Nat \X Nat \X Nat : b[1] <= b[3] /\ b[2] <= b[4] /\ b[3] <= Wide /\ b[4] <= Tall}
CellBox(c) == <<c[1], c[2], c[1] + 1, c[2] + 1>>
Holds(b, c) == LiesIn(CellBox(c), b)

\* The least and the greatest of a set of numbers that has one.
LEMMA Extremes ==
  ASSUME NEW m \in Nat, NEW N, N \subseteq 0 .. m, NEW x \in N
  PROVE  /\ (CHOOSE n \in N : \A o \in N : n <= o) \in 0 .. x
         /\ (CHOOSE n \in N : \A o \in N : n >= o) \in x .. m
<1>1. \E n \in N : \A o \in N : n <= o
  <2>1. N \subseteq Nat /\ N # {}
    OBVIOUS
  <2>. QED
    BY <2>1, LeastOf
<1>2. \E n \in N : \A o \in N : n >= o
  BY GreatestOf
<1> DEFINE l == CHOOSE n \in N : \A o \in N : n <= o
           h == CHOOSE n \in N : \A o \in N : n >= o
<1>3. l \in N /\ \A o \in N : l <= o
  BY <1>1
<1>4. h \in N /\ \A o \in N : h >= o
  BY <1>2
<1>. HIDE DEF l, h
<1>5. l \in 0 .. x
  BY <1>3
<1>6. h \in x .. m
  BY <1>4
<1>. QED
  BY <1>5, <1>6 DEF l, h

\* The box of a set of cells holds each of them.
LEMMA BoxHolds ==
  ASSUME NEW B \in SUBSET Cells, NEW c \in B
  PROVE  BoxOf(B) \in Boxes /\ Holds(BoxOf(B), c)
<1> DEFINE xs == {d[1] : d \in B}
           ys == {d[2] : d \in B}
           l == CHOOSE n \in xs : \A o \in xs : n <= o
           r == CHOOSE n \in xs : \A o \in xs : n >= o
           t == CHOOSE n \in ys : \A o \in ys : n <= o
           b == CHOOSE n \in ys : \A o \in ys : n >= o
<1>1. /\ xs \subseteq 0 .. Wide - 1 /\ ys \subseteq 0 .. Tall - 1 /\ c[1] \in xs /\ c[2] \in ys
      /\ Wide - 1 \in Nat /\ Tall - 1 \in Nat
  BY GatingAssumption DEF Cells
<1>2. BoxOf(B) = <<l, t, r + 1, b + 1>>
  BY DEF BoxOf
<1>3. l \in 0 .. c[1] /\ r \in c[1] .. Wide - 1 /\ t \in 0 .. c[2] /\ b \in c[2] .. Tall - 1
  <2>. HIDE DEF xs, ys
  <2>1. l \in 0 .. c[1] /\ r \in c[1] .. Wide - 1
    BY <1>1, Extremes, ZenonT(30)
  <2>2. t \in 0 .. c[2] /\ b \in c[2] .. Tall - 1
    BY <1>1, Extremes, ZenonT(30)
  <2>. QED
    BY <2>1, <2>2
<1>. HIDE DEF l, r, t, b
<1>4. c[1] \in Nat /\ c[2] \in Nat
  BY GatingAssumption DEF Cells
<1>5. /\ l \in Nat /\ t \in Nat /\ r + 1 \in Nat /\ b + 1 \in Nat
      /\ l <= r + 1 /\ t <= b + 1 /\ r + 1 <= Wide /\ b + 1 <= Tall
  BY <1>3, <1>4, GatingAssumption
<1>6. <<l, t, r + 1, b + 1>> \in Boxes
  BY <1>5 DEF Boxes
<1>7. Holds(<<l, t, r + 1, b + 1>>, c)
  BY <1>3, <1>4, GatingAssumption DEF Holds, LiesIn, CellBox
<1>. QED
  BY <1>2, <1>6, <1>7

\* The box around two boxes is a box.
LEMMA AroundFits ==
  ASSUME NEW a \in Boxes, NEW b \in Boxes
  PROVE  Around(a, b) \in Boxes
<1> DEFINE x == Lower(a[1], b[1])
           y == Lower(a[2], b[2])
           z == Upper(a[3], b[3])
           w == Upper(a[4], b[4])
<1>1. /\ x \in Nat /\ y \in Nat /\ z \in Nat /\ w \in Nat
      /\ x <= z /\ y <= w /\ z <= Wide /\ w <= Tall
  BY GatingAssumption DEF Boxes, Lower, Upper
<1>2. Around(a, b) = <<x, y, z, w>>
  BY DEF Around
<1>. HIDE DEF x, y, z, w
<1>. QED
  BY <1>1, <1>2 DEF Boxes

\* The box around two boxes holds what either holds.
LEMMA AroundHolds ==
  ASSUME NEW a \in Boxes, NEW b \in Boxes, NEW c \in Cells
  PROVE  Holds(a, c) \/ Holds(b, c) => Holds(Around(a, b), c)
<1>1. c[1] \in Nat /\ c[2] \in Nat
  BY GatingAssumption DEF Cells
<1>. QED
  BY <1>1 DEF Boxes, Around, Holds, LiesIn, CellBox, Lower, Upper

\* A box joined to a list loses no cell.
LEMMA JoinedHolds ==
  ASSUME NEW boxes \in Seq(Boxes), NEW b \in Boxes
  PROVE  /\ Joined(boxes, b) \in Seq(Boxes)
         /\ \A c \in Cells : Holds(b, c) \/ (\E j \in DOMAIN boxes : Holds(boxes[j], c))
                           => \E j \in DOMAIN Joined(boxes, b) : Holds(Joined(boxes, b)[j], c)
<1> DEFINE hits == {i \in DOMAIN boxes : Touches(b, boxes[i])}
           h == CHOOSE i \in hits : \A j \in hits : i <= j
<1>1. CASE hits = {}
  <2>1. Joined(boxes, b) = Append(boxes, b)
    BY <1>1 DEF Joined
  <2>2. /\ Append(boxes, b) \in Seq(Boxes) /\ DOMAIN boxes \subseteq DOMAIN Append(boxes, b)
        /\ \A j \in DOMAIN boxes : Append(boxes, b)[j] = boxes[j]
        /\ Len(boxes) + 1 \in DOMAIN Append(boxes, b) /\ Append(boxes, b)[Len(boxes) + 1] = b
    OBVIOUS
  <2>. QED
    BY <2>1, <2>2
<1>2. CASE hits # {}
  <2>1. h \in DOMAIN boxes
    <3>1. hits \subseteq Nat
      OBVIOUS
    <3>2. \E i \in hits : \A j \in hits : i <= j
      <4>. HIDE DEF hits
      <4>. QED
        BY <1>2, <3>1, LeastOf
    <3>3. h \in hits
      <4>. HIDE DEF hits
      <4>. QED
        BY <3>2
    <3>. QED
      BY <3>3
  <2>2. Joined(boxes, b) = [boxes EXCEPT ![h] = Around(boxes[h], b)]
    BY <1>2 DEF Joined
  <2>. HIDE DEF h, hits
  <2> DEFINE a == Around(boxes[h], b)
             J == [boxes EXCEPT ![h] = a]
  <2>3. boxes[h] \in Boxes
    BY <2>1
  <2>4. a \in Boxes
    BY <2>3, AroundFits
  <2>5. ASSUME NEW c \in Cells PROVE Holds(b, c) \/ Holds(boxes[h], c) => Holds(a, c)
    BY <2>3, AroundHolds
  <2>. HIDE DEF a
  <2>6. /\ J \in Seq(Boxes) /\ DOMAIN J = DOMAIN boxes /\ J[h] = a
        /\ \A j \in DOMAIN boxes : j # h => J[j] = boxes[j]
    BY <2>1, <2>4
  <2>7. Joined(boxes, b) = J
    BY <2>2 DEF a
  <2>. HIDE DEF J
  <2>. QED
    BY <2>1, <2>5, <2>6, <2>7
<1>. QED
  BY <1>1, <1>2

\* Scaling by the grain keeps the order.
LEMMA Scaled ==
  ASSUME NEW a \in Nat, NEW b \in Nat, NEW g \in Nat, a <= b
  PROVE  a * g \in Nat /\ b * g \in Nat /\ a * g <= b * g
<1>1. b - a \in Nat /\ (b - a) * g \in Nat /\ b * g = a * g + (b - a) * g
  OBVIOUS
<1>2. a * g \in Nat /\ b * g \in Nat
  OBVIOUS
<1>. QED
  BY <1>1, <1>2

\* The far edge of a cell, in pixels.
LEMMA OneMore ==
  ASSUME NEW a \in Nat, NEW g \in Nat
  PROVE  (a + 1) * g = a * g + g
OBVIOUS

\* Every cell has a number, and the number finds it.
LEMMA CellNumbered ==
  ASSUME NEW c \in Cells
  PROVE  c[2] * Wide + c[1] + 1 \in 1 .. Wide * Tall /\ CellAt(c[2] * Wide + c[1] + 1) = c
<1>1. /\ Wide \in Nat /\ Tall \in Nat /\ Wide * Tall \in Nat
      /\ \A d \in Cells : d[1] \in Nat /\ d[2] \in Nat /\ d[1] < Wide /\ d[2] + 1 <= Tall /\ d = <<d[1], d[2]>>
  BY GatingAssumption DEF Cells
<1>2. ASSUME NEW d \in Cells
      PROVE  /\ d[2] * Wide \in Nat /\ (d[2] + 1) * Wide <= Wide * Tall /\ d[2] * Wide + d[1] + 1 <= (d[2] + 1) * Wide
             /\ (d[2] + 1) * Wide = d[2] * Wide + Wide
  <2>1. d[2] \in Nat /\ d[2] + 1 \in Nat /\ d[2] + 1 <= Tall /\ d[1] < Wide /\ d[1] \in Nat
    BY <1>1
  <2>2. (d[2] + 1) * Wide <= Tall * Wide /\ d[2] * Wide \in Nat
    BY <1>1, <2>1, Scaled
  <2>3. (d[2] + 1) * Wide = d[2] * Wide + Wide
    BY <1>1, <2>1, OneMore
  <2>4. Tall * Wide = Wide * Tall
    BY <1>1
  <2>5. d[2] * Wide + d[1] + 1 <= (d[2] + 1) * Wide
    <3> DEFINE q == d[2] * Wide
    <3>1. q \in Nat /\ d[1] \in Nat /\ Wide \in Nat /\ d[1] < Wide
      BY <1>1, <2>1, <2>2
    <3>2. q + d[1] + 1 <= q + Wide
      <4>. HIDE DEF q
      <4>. QED
        BY <3>1
    <3>. QED
      BY <2>3, <3>2
  <2>. QED
    BY <2>2, <2>3, <2>4, <2>5
<1>3. ASSUME NEW d \in Cells, NEW e \in Cells, d[2] < e[2]
      PROVE  d[2] * Wide + d[1] + 1 # e[2] * Wide + e[1] + 1
  <2>1. (d[2] + 1) * Wide <= e[2] * Wide
    <3>1. d[2] + 1 \in Nat /\ e[2] \in Nat /\ d[2] + 1 <= e[2]
      BY <1>1, <1>3
    <3>. QED
      BY <1>1, <3>1, Scaled
  <2> DEFINE p == (d[2] + 1) * Wide
             q == e[2] * Wide
             r == d[2] * Wide
  <2>2. p <= q /\ r \in Nat /\ q \in Nat /\ r + d[1] + 1 <= p /\ p = r + Wide /\ d[1] \in Nat /\ e[1] \in Nat /\ Wide \in Nat
    BY <1>1, <1>2, <2>1
  <2>3. r + d[1] + 1 # q + e[1] + 1
    <3>. HIDE DEF p, q, r
    <3>. QED
      BY <2>2
  <2>. QED
    BY <2>3
<1>4. ASSUME NEW d \in Cells, d[2] * Wide + d[1] + 1 = c[2] * Wide + c[1] + 1
      PROVE  d = c
  <2>1. d[2] = c[2]
    BY <1>1, <1>3, <1>4
  <2>2. d[1] = c[1]
    BY <1>1, <1>2, <1>4, <2>1
  <2>. QED
    BY <1>1, <2>1, <2>2
<1>5. CellAt(c[2] * Wide + c[1] + 1) = c
  BY <1>4 DEF CellAt
<1> DEFINE q == c[2] * Wide
           p == (c[2] + 1) * Wide
           m == Wide * Tall
<1>6. q \in Nat /\ q + c[1] + 1 <= p /\ p <= m /\ m \in Nat /\ c[1] \in Nat /\ p = q + Wide /\ Wide \in Nat
  BY <1>1, <1>2
<1>7. q + c[1] + 1 \in 1 .. m
  <2>. HIDE DEF q, p, m
  <2>. QED
    BY <1>6
<1>. QED
  BY <1>5, <1>7

BlobSets(S) == SUBSET ((SUBSET S) \ {{}})
Covers(blobs, x) == \E B \in blobs : x \in B

\* A cell hung to its blobs is covered, and no cell is lost.
LEMMA HungHolds ==
  ASSUME NEW S, NEW c \in S, NEW blobs \in BlobSets(S)
  PROVE  /\ Hung(c, blobs) \in BlobSets(S)
         /\ Covers(Hung(c, blobs), c)
         /\ \A x : Covers(blobs, x) => Covers(Hung(c, blobs), x)
<1> DEFINE near == {B \in blobs : \E e \in B : Beside(c, e)}
           M == (UNION near) \cup {c}
<1>1. Hung(c, blobs) = (blobs \ near) \cup {M}
  BY DEF Hung
<1>2. near \subseteq blobs
  OBVIOUS
<1>. HIDE DEF near
<1>3. \A x : x \in M <=> x = c \/ \E B \in near : x \in B
  <2>. SUFFICES ASSUME NEW x PROVE x \in M <=> x = c \/ \E B \in near : x \in B
    OBVIOUS
  <2>1. x \in M <=> x \in UNION near \/ x \in {c}
    BY Zenon
  <2>2. x \in UNION near <=> \E B \in near : x \in B
    BY Zenon
  <2>3. x \in {c} <=> x = c
    BY Zenon
  <2>. HIDE DEF M
  <2>. QED
    BY <2>1, <2>2, <2>3, Zenon
<1>. HIDE DEF M
<1>5. M \subseteq S /\ M # {}
  BY <1>2, <1>3 DEF BlobSets
<1>. QED
  BY <1>1, <1>2, <1>3, <1>5 DEF Covers, BlobSets

\* The blobs of a set of cells cover it.
LEMMA BlobsHold ==
  ASSUME NEW S \in SUBSET Cells
  PROVE  Blobs(S) \in BlobSets(S) /\ \A c \in S : Covers(Blobs(S), c)
<1> DEFINE n == Wide * Tall
           V == BlobSets(S)
           E(f) == f = [k \in 0 .. n |-> IF k = 0 THEN {}
                                         ELSE IF CellAt(k) \in S THEN Hung(CellAt(k), f[k - 1]) ELSE f[k - 1]]
           F == CHOOSE f : E(f)
           step == [x \in (1 .. n) \X V |-> IF CellAt(x[1]) \in S THEN Hung(CellAt(x[1]), x[2]) ELSE x[2]]
<1>1. n \in Nat
  BY GatingAssumption
<1>2. Blobs(S) = F[n]
  BY DEF Blobs
<1>. HIDE DEF n
<1>3. step \in [(1 .. n) \X V -> V] /\ {} \in V
  <2>1. \A k \in 1 .. n, v \in V : CellAt(k) \in S => Hung(CellAt(k), v) \in V
    BY HungHolds
  <2>2. {} \in V
    BY DEF BlobSets
  <2>. HIDE DEF V
  <2>. QED
    BY <2>1, <2>2
<1>4. \A k \in 1 .. n, v \in V : step[<<k, v>>] = IF CellAt(k) \in S THEN Hung(CellAt(k), v) ELSE v
  OBVIOUS
<1>. HIDE DEF step
<1> DEFINE none == {}
<1>. HIDE DEF none
<1>5. PICK g \in [0 .. n -> V] : g[0] = none /\ \A k \in 1 .. n : g[k] = step[<<k, g[k - 1]>>]
  <2>1. none \in V
    BY <1>3 DEF none
  <2>. HIDE DEF V, E, F
  <2>2. Unrolls(V, none, n, step)
    BY <1>1, <1>3, <2>1, Unrolled
  <2>. QED
    BY <2>2 DEF Unrolls
<1>6. E(F)
  <2>0. g[0] = {}
    BY <1>5 DEF none
  <2>1. E(g)
    <3>. HIDE DEF V
    <3>1. ASSUME NEW k \in 1 .. n PROVE g[k] = IF CellAt(k) \in S THEN Hung(CellAt(k), g[k - 1]) ELSE g[k - 1]
      <4>1. k - 1 \in 0 .. n
        BY <1>1
      <4>2. g[k - 1] \in V
        BY <4>1, <1>5
      <4>. QED
        BY <1>4, <1>5, <4>2
    <3>2. g = [k \in 0 .. n |-> g[k]] /\ \A k \in 0 .. n : k = 0 \/ k \in 1 .. n
      BY <1>1, <1>5
    <3>. QED
      BY <1>5, <2>0, <3>1, <3>2
  <2>. HIDE DEF E
  <2>. QED
    BY <2>1, Zenon
<1>. HIDE DEF F
<1>7. /\ F[0] = {}
      /\ \A k \in 1 .. n : F[k] = IF CellAt(k) \in S THEN Hung(CellAt(k), F[k - 1]) ELSE F[k - 1]
  <2>1. n \in Nat /\ 0 \in 0 .. n /\ \A k \in 1 .. n : k \in 0 .. n /\ k # 0
    BY <1>1
  <2>. QED
    BY <1>6, <2>1
<1>. HIDE DEF E
<1> DEFINE I == {k \in 0 .. n : F[k] \in V /\ \A i \in 1 .. k : CellAt(i) \in S => Covers(F[k], CellAt(i))}
<1>8. \A k \in 0 .. n : k \in I
  <2>1. 0 \in I
    <3>. HIDE DEF V
    <3>1. F[0] \in V
      BY <1>3, <1>7
    <3>. QED
      BY <1>1, <3>1
  <2>2. ASSUME NEW k \in 1 .. n, k - 1 \in I PROVE k \in I
    <3>1. F[k - 1] \in V /\ \A i \in 1 .. k - 1 : CellAt(i) \in S => Covers(F[k - 1], CellAt(i))
      BY <2>2
    <3>2. F[k] \in V /\ (\A x : Covers(F[k - 1], x) => Covers(F[k], x)) /\ (CellAt(k) \in S => Covers(F[k], CellAt(k)))
      <4>1. CASE CellAt(k) \in S
        <5>1. F[k] = Hung(CellAt(k), F[k - 1])
          BY <1>7, <4>1
        <5>2. /\ Hung(CellAt(k), F[k - 1]) \in V /\ Covers(Hung(CellAt(k), F[k - 1]), CellAt(k))
             /\ \A x : Covers(F[k - 1], x) => Covers(Hung(CellAt(k), F[k - 1]), x)
          <6>1. F[k - 1] \in BlobSets(S) /\ CellAt(k) \in S
            BY <3>1, <4>1
          <6>. HIDE DEF V
          <6>2. Hung(CellAt(k), F[k - 1]) \in BlobSets(S)
            BY <6>1, HungHolds
          <6>3. /\ Covers(Hung(CellAt(k), F[k - 1]), CellAt(k))
                /\ \A x : Covers(F[k - 1], x) => Covers(Hung(CellAt(k), F[k - 1]), x)
            BY <6>1, HungHolds
          <6>. QED
            BY <6>2, <6>3 DEF V
        <5>. HIDE DEF V
        <5>. QED
          BY <4>1, <5>1, <5>2
      <4>2. CASE CellAt(k) \notin S
        BY <1>7, <3>1, <4>2
      <4>. QED
        BY <4>1, <4>2
    <3>3. \A i \in 1 .. k : i = k \/ i \in 1 .. k - 1
      BY <1>1
    <3>4. k \in 0 .. n
      BY <1>1
    <3>. QED
      BY <3>1, <3>2, <3>3, <3>4
  <2>3. I \in SUBSET (0 .. n)
    OBVIOUS
  <2>. HIDE DEF I
  <2>. QED
    BY <1>1, <2>1, <2>2, <2>3, StepByStep
<1>9. F[n] \in V /\ \A i \in 1 .. n : CellAt(i) \in S => Covers(F[n], CellAt(i))
  <2>1. n \in 0 .. n
    BY <1>1
  <2>. QED
    BY <1>8, <2>1
<1>10. ASSUME NEW c \in S PROVE Covers(F[n], c)
  <2>1. c[2] * Wide + c[1] + 1 \in 1 .. n /\ CellAt(c[2] * Wide + c[1] + 1) = c
    BY CellNumbered DEF n
  <2> DEFINE i == c[2] * Wide + c[1] + 1
  <2>2. i \in 1 .. n /\ CellAt(i) = c
    BY <2>1
  <2>. HIDE DEF i
  <2>. QED
    BY <2>2, <1>9
<1>. QED
  BY <1>2, <1>9, <1>10

InsideOne(boxes, c) == \E j \in DOMAIN boxes : Holds(boxes[j], c)

\* One round of merging loses no cell.
LEMMA MergedHolds ==
  ASSUME NEW boxes \in Seq(Boxes)
  PROVE  /\ Merged(boxes) \in Seq(Boxes)
         /\ \A c \in Cells : InsideOne(boxes, c) => InsideOne(Merged(boxes), c)
<1> DEFINE n == Len(boxes)
           V == Seq(Boxes)
           E(f) == f = [k \in 0 .. n |-> IF k = 0 THEN <<>> ELSE Joined(f[k - 1], boxes[k])]
           F == CHOOSE f : E(f)
           step == [x \in (1 .. n) \X V |-> Joined(x[2], boxes[x[1]])]
           none == <<>>
<1>1. n \in Nat
  OBVIOUS
<1>2. Merged(boxes) = F[n]
  BY DEF Merged
<1>3. \A k \in 1 .. n : boxes[k] \in Boxes
  OBVIOUS
<1>. HIDE DEF n
<1>4. \A k \in 1 .. n, v \in V : Joined(v, boxes[k]) \in V
  BY <1>3, JoinedHolds
<1>5. none \in V
  OBVIOUS
<1>. HIDE DEF none, V
<1>6. step \in [(1 .. n) \X V -> V]
  BY <1>4
<1>7. \A k \in 1 .. n, v \in V : step[<<k, v>>] = Joined(v, boxes[k])
  OBVIOUS
<1>. HIDE DEF step
<1>8. PICK g \in [0 .. n -> V] : g[0] = none /\ \A k \in 1 .. n : g[k] = step[<<k, g[k - 1]>>]
  <2>. HIDE DEF E, F
  <2>1. Unrolls(V, none, n, step)
    BY <1>1, <1>5, <1>6, Unrolled
  <2>. QED
    BY <2>1 DEF Unrolls
<1>9. E(F)
  <2>0. g[0] = <<>>
    BY <1>8 DEF none
  <2>1. E(g)
    <3>1. ASSUME NEW k \in 1 .. n PROVE g[k] = Joined(g[k - 1], boxes[k])
      <4>1. k - 1 \in 0 .. n
        BY <1>1
      <4>2. g[k - 1] \in V
        BY <4>1, <1>8
      <4>. QED
        BY <1>7, <1>8, <4>2
    <3>2. g = [k \in 0 .. n |-> g[k]] /\ \A k \in 0 .. n : k = 0 \/ k \in 1 .. n
      BY <1>1, <1>8
    <3>. QED
      BY <1>8, <2>0, <3>1, <3>2
  <2>. HIDE DEF E
  <2>. QED
    BY <2>1, Zenon
<1>. HIDE DEF F
<1>10. /\ F[0] = <<>>
       /\ \A k \in 1 .. n : F[k] = Joined(F[k - 1], boxes[k])
  <2>1. n \in Nat /\ 0 \in 0 .. n /\ \A k \in 1 .. n : k \in 0 .. n /\ k # 0
    BY <1>1
  <2>. QED
    BY <1>9, <2>1
<1>. HIDE DEF E
<1> DEFINE I == {k \in 0 .. n : /\ F[k] \in V
                                /\ \A i \in 1 .. k, c \in Cells : Holds(boxes[i], c) => InsideOne(F[k], c)}
<1>11. \A k \in 0 .. n : k \in I
  <2>1. 0 \in I
    <3>1. F[0] \in V
      BY <1>5, <1>10 DEF none
    <3>. QED
      BY <1>1, <3>1
  <2>2. ASSUME NEW k \in 1 .. n, k - 1 \in I PROVE k \in I
    <3>1. F[k - 1] \in V /\ \A i \in 1 .. k - 1, c \in Cells : Holds(boxes[i], c) => InsideOne(F[k - 1], c)
      BY <2>2
    <3>2. /\ F[k] \in V
          /\ \A c \in Cells : Holds(boxes[k], c) \/ InsideOne(F[k - 1], c) => InsideOne(F[k], c)
      <4>1. F[k] = Joined(F[k - 1], boxes[k]) /\ F[k - 1] \in Seq(Boxes) /\ boxes[k] \in Boxes
        BY <1>3, <1>10, <3>1 DEF V
      <4>2. /\ Joined(F[k - 1], boxes[k]) \in Seq(Boxes)
            /\ \A c \in Cells : Holds(boxes[k], c) \/ InsideOne(F[k - 1], c) => InsideOne(Joined(F[k - 1], boxes[k]), c)
        BY <4>1, JoinedHolds DEF InsideOne
      <4>. QED
        BY <4>1, <4>2 DEF V
    <3>3. \A i \in 1 .. k : i = k \/ i \in 1 .. k - 1
      BY <1>1
    <3>4. k \in 0 .. n
      BY <1>1
    <3>. QED
      BY <3>1, <3>2, <3>3, <3>4
  <2>3. I \in SUBSET (0 .. n)
    OBVIOUS
  <2>. HIDE DEF I
  <2>. QED
    BY <1>1, <2>1, <2>2, <2>3, StepByStep
<1>12. F[n] \in V /\ \A i \in 1 .. n, c \in Cells : Holds(boxes[i], c) => InsideOne(F[n], c)
  <2>1. n \in 0 .. n
    BY <1>1
  <2>. QED
    BY <1>11, <2>1
<1>13. DOMAIN boxes = 1 .. n
  BY DEF n
<1>. QED
  BY <1>2, <1>12, <1>13 DEF InsideOne, V

\* Merging until nothing changes loses no cell (motion.py, merge_boxes).
LEMMA MergeHolds ==
  ASSUME NEW boxes \in Seq(Boxes)
  PROVE  /\ MergeBoxes(boxes) \in Seq(Boxes)
         /\ \A c \in Cells : InsideOne(boxes, c) => InsideOne(MergeBoxes(boxes), c)
<1>1. /\ Merged(boxes) \in Seq(Boxes)
      /\ \A c \in Cells : InsideOne(boxes, c) => InsideOne(Merged(boxes), c)
  BY MergedHolds
<1>2. /\ Merged(Merged(boxes)) \in Seq(Boxes)
      /\ \A c \in Cells : InsideOne(Merged(boxes), c) => InsideOne(Merged(Merged(boxes)), c)
  BY <1>1, MergedHolds
<1>3. /\ Merged(Merged(Merged(boxes))) \in Seq(Boxes)
      /\ \A c \in Cells : InsideOne(Merged(Merged(boxes)), c) => InsideOne(Merged(Merged(Merged(boxes))), c)
  BY <1>2, MergedHolds
<1>. QED
  BY <1>1, <1>2, <1>3 DEF MergeBoxes

\* SetToSeq lists every element of a finite set.
LEMMA ListsAll ==
  ASSUME NEW T, IsFiniteSet(T)
  PROVE  /\ SetToSeq(T) \in Seq(T)
         /\ \A x \in T : \E i \in DOMAIN SetToSeq(T) : SetToSeq(T)[i] = x
<1> DEFINE n == Cardinality(T)
           s == SetToSeq(T)
<1>1. n \in Nat /\ ExistsBijection(1 .. n, T)
  BY FS_CardinalityType
<1>2. IsFiniteSet(1 .. n) /\ Cardinality(1 .. n) = n
  <2>1. 1 \in Int /\ n \in Int /\ Cardinality(1 .. n) = IF 1 > n THEN 0 ELSE n - 1 + 1
    BY <1>1, FS_Interval
  <2>2. IsFiniteSet(1 .. n)
    BY <1>1, FS_Interval
  <2>. HIDE DEF n
  <2>. QED
    BY <1>1, <2>1, <2>2
<1>3. \E f \in [1 .. n -> T] : IsInjective(f)
  <2>. HIDE DEF n
  <2>1. PICK f : f \in Bijection(1 .. n, T)
    BY <1>1 DEF ExistsBijection
  <2>. QED
    BY <2>1 DEF Bijection, Injection
<1>4. s \in [1 .. n -> T] /\ IsInjective(s)
  BY <1>3, Zenon DEF SetToSeq
<1>. HIDE DEF s, n
<1>5. s \in Seq(T) /\ DOMAIN s = 1 .. n
  BY <1>1, <1>4
<1>6. s \in Injection(1 .. n, T)
  BY <1>4, <1>5 DEF IsInjective, Injection
<1>7. s \in Surjection(1 .. n, T)
  BY <1>2, <1>6, FS_Injection DEF n
<1>. QED
  BY <1>5, <1>7 DEF Surjection, s

Crops == {p \in Nat \X Nat \X Nat \X Nat : p[1] <= p[3] /\ p[2] <= p[4]}

\* A box in pixels is a crop within the picture.
LEMMA PixelsFit ==
  ASSUME NEW b \in Boxes
  PROVE  /\ InPixels(b) \in Crops /\ InPixels(b)[3] <= Whole[3] /\ InPixels(b)[4] <= Whole[4]
         /\ InPixels(b) = [i \in 1 .. 4 |-> b[i] * Grain]
<1>1. /\ b[1] \in Nat /\ b[2] \in Nat /\ b[3] \in Nat /\ b[4] \in Nat /\ Grain \in Nat /\ Wide \in Nat /\ Tall \in Nat
      /\ b[1] <= b[3] /\ b[2] <= b[4] /\ b[3] <= Wide /\ b[4] <= Tall
  BY GatingAssumption DEF Boxes
<1> DEFINE x == b[1] * Grain
           y == b[2] * Grain
           z == b[3] * Grain
           w == b[4] * Grain
<1>2. x \in Nat /\ y \in Nat /\ z \in Nat /\ w \in Nat /\ x <= z /\ y <= w /\ z <= Wide * Grain /\ w <= Tall * Grain
  BY <1>1, Scaled
<1>3. InPixels(b)[1] = x /\ InPixels(b)[2] = y /\ InPixels(b)[3] = z /\ InPixels(b)[4] = w /\ InPixels(b) \in [1 .. 4 -> Nat]
  BY <1>1, <1>2 DEF InPixels
<1>4. Whole[3] = Wide * Grain /\ Whole[4] = Tall * Grain
  BY DEF Whole, InPixels
<1>5. InPixels(b) = [i \in 1 .. 4 |-> b[i] * Grain]
  BY DEF InPixels
<1>. HIDE DEF x, y, z, w
<1>6. InPixels(b) \in Crops
  BY <1>2, <1>3 DEF Crops
<1>. QED
  BY <1>2, <1>3, <1>4, <1>5, <1>6

\* The whole picture is a crop.
LEMMA WholeFits == Whole \in Crops /\ <<0, 0, Wide, Tall>> \in Boxes
<1>1. <<0, 0, Wide, Tall>> \in Boxes
  BY GatingAssumption DEF Boxes
<1>. QED
  BY <1>1, PixelsFit DEF Whole

\* A cell within a box has its pixels within the box's; the margin only adds to it.
LEMMA PaddedFits ==
  ASSUME NEW b \in Boxes
  PROVE  Padded(b) \in Crops /\ \A c \in Cells : Holds(b, c) => Meets(InPixels(CellBox(c)), Padded(b))
<1> DEFINE p == InPixels(b)
           dx == ((p[3] - p[1]) * Padding) \div 100
           dy == ((p[4] - p[2]) * Padding) \div 100
           q == <<Upper(dx, p[1]) - dx, Upper(dy, p[2]) - dy, Lower(Whole[3], p[3] + dx), Lower(Whole[4], p[4] + dy)>>
<1>1. /\ p[1] \in Nat /\ p[2] \in Nat /\ p[3] \in Nat /\ p[4] \in Nat /\ Whole[3] \in Nat /\ Whole[4] \in Nat
      /\ p[1] <= p[3] /\ p[2] <= p[4] /\ p[3] <= Whole[3] /\ p[4] <= Whole[4]
      /\ p = [i \in 1 .. 4 |-> b[i] * Grain]
  BY PixelsFit, WholeFits DEF Crops
<1>2. Padded(b) = q
  BY DEF Padded
<1>3. dx \in Nat /\ dy \in Nat
  <2>1. p[3] - p[1] \in Nat /\ p[4] - p[2] \in Nat /\ Padding \in Nat
    BY <1>1, GatingAssumption
  <2>. HIDE DEF p
  <2>2. (p[3] - p[1]) * Padding \in Nat /\ (p[4] - p[2]) * Padding \in Nat
    BY <2>1
  <2>. QED
    BY <2>2
<1>. HIDE DEF dx, dy
<1>4. /\ q[1] \in Nat /\ q[2] \in Nat /\ q[3] \in Nat /\ q[4] \in Nat
      /\ q[1] <= p[1] /\ q[2] <= p[2] /\ p[3] <= q[3] /\ p[4] <= q[4]
  <2>. HIDE DEF p
  <2>. QED
    BY <1>1, <1>3 DEF Upper, Lower
<1>5. q \in Crops
  <2>1. q = <<q[1], q[2], q[3], q[4]>>
    OBVIOUS
  <2>2. q[1] <= q[3] /\ q[2] <= q[4]
    <3>. HIDE DEF p, q
    <3>. QED
      BY <1>1, <1>4
  <2>. HIDE DEF q
  <2>. QED
    BY <1>4, <2>1, <2>2 DEF Crops
<1>6. ASSUME NEW c \in Cells, Holds(b, c) PROVE Meets(InPixels(CellBox(c)), q)
  <2>1. /\ c[1] \in Nat /\ c[2] \in Nat /\ b[1] \in Nat /\ b[2] \in Nat /\ b[3] \in Nat /\ b[4] \in Nat /\ Grain \in Nat \ {0}
        /\ b[1] <= c[1] /\ b[2] <= c[2] /\ c[1] + 1 <= b[3] /\ c[2] + 1 <= b[4]
    BY <1>6, GatingAssumption DEF Cells, Boxes, Holds, LiesIn, CellBox
  <2>2. /\ b[1] * Grain <= c[1] * Grain /\ b[2] * Grain <= c[2] * Grain
        /\ (c[1] + 1) * Grain <= b[3] * Grain /\ (c[2] + 1) * Grain <= b[4] * Grain
        /\ c[1] * Grain \in Nat /\ c[2] * Grain \in Nat
    BY <2>1, Scaled
  <2>3. (c[1] + 1) * Grain = c[1] * Grain + Grain /\ (c[2] + 1) * Grain = c[2] * Grain + Grain
    BY <2>1, OneMore
  <2> DEFINE a == InPixels(CellBox(c))
             x == c[1] * Grain
             y == c[2] * Grain
  <2>4. a[1] = x /\ a[2] = y /\ a[3] = x + Grain /\ a[4] = y + Grain
    BY <2>3 DEF InPixels, CellBox
  <2>5. p[1] = b[1] * Grain /\ p[2] = b[2] * Grain /\ p[3] = b[3] * Grain /\ p[4] = b[4] * Grain
    <3>. HIDE DEF p
    <3>. QED
      BY <1>1
  <2>6. /\ p[1] <= x /\ p[2] <= y /\ x + Grain <= p[3] /\ y + Grain <= p[4]
        /\ x \in Nat /\ y \in Nat /\ Grain \in Nat \ {0}
    BY <2>1, <2>2, <2>3, <2>5
  <2>. HIDE DEF p, q, a, x, y
  <2>7. Meets(a, q)
    BY <1>1, <1>4, <2>4, <2>6 DEF Meets
  <2>. QED
    BY <2>7 DEF a
<1>. QED
  BY <1>2, <1>5, <1>6

\* The whole picture has every cell.
LEMMA WholeMeets == \A c \in Cells : Meets(InPixels(CellBox(c)), Whole)
<1>. SUFFICES ASSUME NEW c \in Cells PROVE Meets(InPixels(CellBox(c)), Whole)
  OBVIOUS
<1>1. /\ c[1] \in Nat /\ c[2] \in Nat /\ c[1] + 1 <= Wide /\ c[2] + 1 <= Tall /\ Grain \in Nat \ {0}
      /\ Wide \in Nat /\ Tall \in Nat
  BY GatingAssumption DEF Cells
<1>2. (c[1] + 1) * Grain <= Wide * Grain /\ (c[2] + 1) * Grain <= Tall * Grain /\ c[1] * Grain \in Nat /\ c[2] * Grain \in Nat
  BY <1>1, Scaled
<1>3. (c[1] + 1) * Grain = c[1] * Grain + Grain /\ (c[2] + 1) * Grain = c[2] * Grain + Grain
  BY <1>1, OneMore
<1> DEFINE a == InPixels(CellBox(c))
           x == c[1] * Grain
           y == c[2] * Grain
           z == Wide * Grain
           w == Tall * Grain
<1>4. a[1] = x /\ a[2] = y /\ a[3] = x + Grain /\ a[4] = y + Grain
  BY <1>3 DEF InPixels, CellBox
<1>5. Whole[1] = 0 /\ Whole[2] = 0 /\ Whole[3] = z /\ Whole[4] = w
  BY <1>1 DEF Whole, InPixels
<1>6. x \in Nat /\ y \in Nat /\ x + Grain <= z /\ y + Grain <= w /\ Grain \in Nat \ {0} /\ z \in Nat /\ w \in Nat
  BY <1>1, <1>2, <1>3
<1>. HIDE DEF a, x, y, z, w
<1>7. Meets(a, Whole)
  BY <1>4, <1>5, <1>6 DEF Meets
<1>. QED
  BY <1>7 DEF a

\* There are finitely many cells.
LEMMA CellsFinite == IsFiniteSet(Cells)
<1>1. Wide - 1 \in Int /\ Tall - 1 \in Int /\ 0 \in Int
  BY GatingAssumption
<1>2. IsFiniteSet(0 .. (Wide - 1)) /\ IsFiniteSet(0 .. (Tall - 1))
  BY <1>1, FS_Interval
<1>. QED
  BY <1>2, FS_Product DEF Cells

\* The boxes of the blobs have among them every cell that changed.
LEMMA BlobBoxes ==
  ASSUME NEW S \in SUBSET Cells
  PROVE  LET boxes == SetToSeq({BoxOf(B) : B \in Blobs(S)}) IN
         boxes \in Seq(Boxes) /\ \A c \in S : InsideOne(boxes, c)
<1> DEFINE T == {BoxOf(B) : B \in Blobs(S)}
           boxes == SetToSeq(T)
<1>1. Blobs(S) \subseteq SUBSET S /\ {} \notin Blobs(S) /\ \A c \in S : Covers(Blobs(S), c)
  BY BlobsHold DEF BlobSets
<1>2. T \subseteq Boxes
  <2>. SUFFICES ASSUME NEW B \in Blobs(S) PROVE BoxOf(B) \in Boxes
    OBVIOUS
  <2>1. B \in SUBSET Cells /\ B # {}
    BY <1>1
  <2>2. PICK c \in B : TRUE
    BY <2>1
  <2>. QED
    BY <2>1, <2>2, BoxHolds
<1>3. IsFiniteSet(T)
  <2>1. IsFiniteSet(SUBSET S)
    BY CellsFinite, FS_Subset, FS_SUBSET
  <2>2. IsFiniteSet(Blobs(S))
    BY <1>1, <2>1, FS_Subset
  <2> DEFINE f == [B \in Blobs(S) |-> BoxOf(B)]
  <2>3. f \in Surjection(Blobs(S), T)
    BY DEF Surjection
  <2>. QED
    BY <2>2, <2>3, FS_Surjection
<1>4. ASSUME NEW c \in S PROVE \E b \in T : Holds(b, c)
  <2>1. PICK B \in Blobs(S) : c \in B
    BY <1>1 DEF Covers
  <2>2. B \in SUBSET Cells
    BY <1>1, <2>1
  <2>. QED
    BY <2>1, <2>2, BoxHolds
<1>. HIDE DEF T
<1>5. boxes \in Seq(T) /\ \A b \in T : \E i \in DOMAIN boxes : boxes[i] = b
  BY <1>3, ListsAll
<1>. HIDE DEF boxes
<1>6. boxes \in Seq(Boxes)
  BY <1>2, <1>5
<1>7. ASSUME NEW c \in S PROVE InsideOne(boxes, c)
  <2>1. PICK b \in T : Holds(b, c)
    BY <1>4
  <2>2. PICK i \in DOMAIN boxes : boxes[i] = b
    BY <1>5
  <2>. QED
    BY <2>1, <2>2 DEF InsideOne
<1>. QED
  BY <1>6, <1>7 DEF boxes, T

Met(crops, c) == \E i \in DOMAIN crops : Meets(InPixels(CellBox(c)), crops[i])

\* Every changed cell is met by one of the regions (motion.py, analyse).
LEMMA RegionsHold ==
  ASSUME NEW S \in SUBSET Cells
  PROVE  Regions(S) \in Seq(Crops) /\ \A c \in S : Met(Regions(S), c)
<1> DEFINE boxes == SetToSeq({BoxOf(B) : B \in Blobs(S)})
           merged == MergeBoxes(boxes)
<1>1. boxes \in Seq(Boxes) /\ \A c \in S : InsideOne(boxes, c)
  BY BlobBoxes
<1>2. Regions(S) = [i \in DOMAIN merged |-> Padded(merged[i])]
  BY DEF Regions
<1>. HIDE DEF boxes
<1>3. merged \in Seq(Boxes) /\ \A c \in Cells : InsideOne(boxes, c) => InsideOne(merged, c)
  BY <1>1, MergeHolds
<1>. HIDE DEF merged
<1>4. \A i \in DOMAIN merged : merged[i] \in Boxes
  BY <1>3
<1>5. \A i \in DOMAIN merged : Padded(merged[i]) \in Crops
  BY <1>4, PaddedFits
<1>6. Regions(S) \in Seq(Crops)
  BY <1>2, <1>3, <1>5
<1>7. ASSUME NEW c \in S PROVE Met(Regions(S), c)
  <2>1. PICK i \in DOMAIN merged : Holds(merged[i], c)
    BY <1>1, <1>3 DEF InsideOne
  <2>2. Meets(InPixels(CellBox(c)), Padded(merged[i]))
    BY <1>4, <2>1, PaddedFits
  <2>. QED
    BY <1>2, <2>1, <2>2 DEF Met
<1>. QED
  BY <1>6, <1>7

\* What comparing two pictures shows the detector has in it every cell in which they differ.
LEMMA CropsCover ==
  ASSUME NEW v, NEW w
  PROVE  /\ Compared(v, w).crops \in Seq(Crops)
         /\ \A c \in Cells : Shows(v, c) # Shows(w, c) => Met(Compared(v, w).crops, c)
         /\ (\E c \in Cells : Shows(v, c) # Shows(w, c)) => Compared(v, w).kind # "none"
         /\ Full.crops \in Seq(Crops) /\ \A c \in Cells : Met(Full.crops, c)
<1> DEFINE S == Stirred(v, w)
<1>1. S \in SUBSET Cells /\ \A c \in Cells : c \in S <=> Shows(v, c) # Shows(w, c)
  BY DEF Stirred
<1>2. /\ Compared(v, w) \in {Skip, Full, [kind |-> "regions", crops |-> Regions(S)]}
      /\ Compared(v, w) = Skip => S = {}
  <2>1. CASE S = {}
    BY <2>1 DEF Compared
  <2>2. CASE S # {}
    BY <2>2 DEF Compared, Skip, Full
  <2>. QED
    BY <2>1, <2>2
<1>. HIDE DEF S
<1>3. Regions(S) \in Seq(Crops) /\ \A c \in S : Met(Regions(S), c)
  BY <1>1, RegionsHold
<1>4. Full.crops \in Seq(Crops) /\ \A c \in Cells : Met(Full.crops, c)
  <2>1. Full.crops = <<Whole>> /\ 1 \in DOMAIN Full.crops
    BY DEF Full
  <2>. QED
    BY <2>1, WholeFits, WholeMeets DEF Met
<1>5. Skip.crops \in Seq(Crops) /\ Skip.kind = "none" /\ Full.kind = "full"
  BY DEF Skip, Full
<1>. QED
  BY <1>1, <1>2, <1>3, <1>4, <1>5

-----------------------------------------------------------------------------
(* What the detector gets to look at.  Frames are numbered as they are        *)
(* decoded, wait in that order, and none is looked at twice.                  *)
Pictures == Views \cup {<<>>}
Verdicts == {Full, Skip} \cup {Compared(v, w) : v \in Pictures, w \in Pictures}
Frames == [n : Nat, shape : {1, 2}, of : Pictures, verdict : Verdicts]
Steps == {"idle", "first", "compare", "look", "found"}
Busy == looker.pc \in {"first", "compare", "look"}

SceneFits == view \in [of : Pictures, shape : {1, 2}, last : Pictures]
BaseFits == base \in [known : BOOLEAN, shape : 0 .. 2, of : Pictures]
LineFits == waiting \in Seq(Frames) /\ Len(waiting) <= Waiting
LookerFits == /\ looker = [pc |-> looker.pc, frame |-> looker.frame, found |-> looker.found]
              /\ looker.pc \in Steps /\ looker.frame \in Frames
InOrder ==
  /\ taken \in Nat /\ judged \in Nat /\ judged <= taken
  /\ \A i \in DOMAIN waiting : judged < waiting[i].n /\ waiting[i].n <= taken
  /\ \A i, j \in DOMAIN waiting : i < j => waiting[i].n < waiting[j].n
  /\ Busy => /\ judged < looker.frame.n /\ looker.frame.n <= taken
             /\ \A i \in DOMAIN waiting : looker.frame.n < waiting[i].n
GateInv == SceneFits /\ BaseFits /\ LineFits /\ LookerFits /\ InOrder

\* A verdict on a picture is a verdict.
LEMMA VerdictFits ==
  ASSUME BaseFits, NEW f, f.of \in Pictures
  PROVE  Verdict(base, f) \in Verdicts /\ Full \in Verdicts
BY DEF BaseFits, Verdict, Verdicts

\* The baseline after a frame is a baseline.
LEMMA BaseFollows ==
  ASSUME NEW f \in Frames, NEW b
  PROVE  Based(b, f) \in [known : BOOLEAN, shape : 0 .. 2, of : Pictures]
<1>1. f.shape \in 0 .. 2 /\ f.of \in Pictures
  BY DEF Frames
<1>. QED
  BY <1>1 DEF Based

\* The picture of now is a frame, with the next number.
LEMMA NowFits ==
  ASSUME GateInv
  PROVE  Now \in Frames /\ Now.n = taken + 1 /\ Now.of = view.of
<1>1. Full \in Verdicts
  BY DEF Verdicts
<1>2. view.of \in Pictures /\ view.shape \in {1, 2} /\ taken + 1 \in Nat
  BY DEF GateInv, SceneFits, InOrder
<1>. QED
  BY <1>1, <1>2 DEF Now, Frames

\* A frame put into the line keeps its order; what no longer fits goes at the front.
LEMMA LineKept ==
  ASSUME GateInv, NEW f \in Frames, f.n = taken + 1
  PROVE  /\ Queued(f) \in Seq(Frames) /\ Len(Queued(f)) <= Waiting
         /\ \A i \in DOMAIN Queued(f) :
              \/ Queued(f)[i] = f /\ i = Len(Queued(f))
              \/ i < Len(Queued(f)) /\ \E k \in DOMAIN waiting : Queued(f)[i] = waiting[k]
         /\ \A i, j \in DOMAIN Queued(f) : i < j => Queued(f)[i].n < Queued(f)[j].n
<1> DEFINE Q == Queued(f)
           l == IF Len(waiting) = Waiting THEN Tail(waiting) ELSE waiting
           d == IF Len(waiting) = Waiting THEN 1 ELSE 0
<1>1. waiting \in Seq(Frames) /\ Len(waiting) <= Waiting /\ Waiting \in Nat \ {0} /\ Len(waiting) \in Nat
  BY GatingAssumption DEF GateInv, LineFits
<1>2. /\ l \in Seq(Frames) /\ Len(l) = Len(waiting) - d /\ Len(l) < Waiting
      /\ \A i \in 1 .. Len(l) : i + d \in DOMAIN waiting /\ l[i] = waiting[i + d]
  <2>1. CASE Len(waiting) = Waiting
    BY <1>1, <2>1
  <2>2. CASE Len(waiting) # Waiting
    BY <1>1, <2>2
  <2>. QED
    BY <2>1, <2>2
<1>3. Q = Append(l, f)
  BY DEF Queued
<1>. HIDE DEF Q, l
<1>4. /\ Q \in Seq(Frames) /\ Len(Q) = Len(l) + 1 /\ Q[Len(l) + 1] = f /\ Len(l) \in Nat
      /\ DOMAIN Q = 1 .. Len(l) + 1 /\ \A i \in 1 .. Len(l) : Q[i] = l[i]
  BY <1>2, <1>3
<1>5. /\ d \in {0, 1} /\ DOMAIN waiting = 1 .. Len(waiting)
      /\ \A i \in DOMAIN waiting : waiting[i] \in Frames
  BY <1>1
<1>. HIDE DEF d
<1>6. ASSUME NEW i \in DOMAIN Q
      PROVE  \/ Q[i] = f /\ i = Len(Q)
             \/ i < Len(Q) /\ \E k \in DOMAIN waiting : Q[i] = waiting[k]
  <2>1. CASE i = Len(l) + 1
    BY <2>1, <1>4
  <2>2. CASE i \in 1 .. Len(l)
    <3>1. Q[i] = l[i] /\ i + d \in DOMAIN waiting /\ l[i] = waiting[i + d] /\ i < Len(Q)
      BY <2>2, <1>2, <1>4
    <3>. QED
      BY <3>1
  <2>. QED
    BY <1>4, <2>1, <2>2
<1>7. ASSUME NEW i \in DOMAIN Q, NEW j \in DOMAIN Q, i < j PROVE Q[i].n < Q[j].n
  <2>1. i \in 1 .. Len(l) /\ Q[i] = waiting[i + d] /\ i + d \in DOMAIN waiting
    BY <1>2, <1>4, <1>7
  <2>2. CASE j = Len(l) + 1
    <3>1. waiting[i + d].n <= taken /\ taken \in Nat /\ waiting[i + d].n \in Nat
      BY <2>1, <1>5 DEF GateInv, InOrder, Frames
    <3>. QED
      BY <3>1, <2>1, <2>2, <1>4
  <2>3. CASE j \in 1 .. Len(l)
    <3>1. Q[j] = waiting[j + d] /\ j + d \in DOMAIN waiting
      BY <1>2, <1>4, <2>3
    <3>2. i + d < j + d
      BY <1>4, <1>5, <1>7, <2>3, <2>1
    <3>. QED
      BY <3>1, <3>2, <2>1 DEF GateInv, InOrder
  <2>. QED
    BY <1>4, <2>2, <2>3
<1>8. Len(Q) <= Waiting
  BY <1>1, <1>2, <1>4
<1>. QED
  BY <1>4, <1>6, <1>7, <1>8 DEF Q

\* The gate's types hold at the start.
LEMMA GateStarts == GatingInit => GateInv
<1>. SUFFICES ASSUME GatingInit PROVE GateInv
  OBVIOUS
<1>1. Full \in Verdicts /\ <<>> \in Pictures
  BY DEF Verdicts, Pictures
<1>2. Now \in Frames
  BY <1>1 DEF Now, Frames, GatingInit
<1>. QED
  BY <1>1, <1>2, GatingAssumption DEF GatingInit, GateInv, SceneFits, BaseFits, LineFits, LookerFits, InOrder, Busy,
     Unoccupied, NoBase, Steps

\* What a step leaves of the scene and the line, where it moves neither.
LEMMA Arriving ==
  ASSUME GateInv, NEW f \in Frames, f.n = taken + 1, Arrives(f)
  PROVE  SceneFits' /\ taken' = taken + 1
<1>1. view \in [of : Pictures, shape : {1, 2}, last : Pictures] /\ f.of \in Pictures
  BY DEF GateInv, SceneFits, Frames
<1>2. view' = [view EXCEPT !.last = f.of]
  BY DEF Arrives
<1>3. view' \in [of : Pictures, shape : {1, 2}, last : Pictures]
  BY <1>1, <1>2
<1>. QED
  BY <1>3 DEF Arrives, SceneFits

\* What is known of the frames in the line and of the one in hand, in numbers.
LEMMA Numbered ==
  ASSUME GateInv
  PROVE  /\ taken \in Nat /\ judged \in Nat /\ judged <= taken /\ looker.frame.n \in Nat
         /\ \A k \in DOMAIN waiting : waiting[k].n \in Nat /\ judged < waiting[k].n /\ waiting[k].n <= taken
         /\ Busy => /\ judged < looker.frame.n /\ looker.frame.n <= taken
                    /\ \A k \in DOMAIN waiting : looker.frame.n < waiting[k].n
<1>1. looker.frame.n \in Nat
  <2>1. looker.frame \in Frames
    BY DEF GateInv, LookerFits
  <2>. QED
    BY <2>1 DEF Frames
<1>2. \A k \in DOMAIN waiting : waiting[k].n \in Nat
  <2>1. \A k \in DOMAIN waiting : waiting[k] \in Frames
    BY DEF GateInv, LineFits
  <2>. QED
    BY <2>1 DEF Frames
<1>. QED
  BY <1>1, <1>2 DEF GateInv, InOrder

\* A frame joins the line behind all that wait and behind the one in hand.
LEMMA Joining ==
  ASSUME GateInv, NEW f \in Frames, f.n = taken + 1, taken' = taken + 1, waiting' = Queued(f),
         UNCHANGED <<looker, judged>>
  PROVE  LineFits' /\ LookerFits' /\ InOrder'
<1>1. LineFits'
  BY LineKept DEF LineFits
<1>2. LookerFits'
  BY DEF GateInv, LookerFits
<1>3. /\ taken \in Nat /\ judged \in Nat /\ judged <= taken
      /\ \A k \in DOMAIN waiting : judged < waiting[k].n /\ waiting[k].n <= taken
      /\ Busy => /\ judged < looker.frame.n /\ looker.frame.n <= taken
                 /\ \A k \in DOMAIN waiting : looker.frame.n < waiting[k].n
      /\ looker.frame.n \in Nat /\ \A k \in DOMAIN waiting : waiting[k].n \in Nat
  BY Numbered
<1>4. ASSUME NEW i \in DOMAIN waiting'
      PROVE  /\ judged < waiting'[i].n /\ waiting'[i].n <= taken + 1
             /\ Busy => looker.frame.n < waiting'[i].n
  <2>1. waiting'[i] = f \/ \E k \in DOMAIN waiting : waiting'[i] = waiting[k]
    BY LineKept
  <2>2. CASE waiting'[i] = f
    BY <1>3, <2>2
  <2>3. ASSUME NEW k \in DOMAIN waiting, waiting'[i] = waiting[k]
        PROVE  /\ judged < waiting'[i].n /\ waiting'[i].n <= taken + 1
               /\ Busy => looker.frame.n < waiting'[i].n
    BY <1>3, <2>3
  <2>. QED
    BY <2>1, <2>2, <2>3
<1>5. \A i, j \in DOMAIN waiting' : i < j => waiting'[i].n < waiting'[j].n
  BY LineKept
<1>6. Busy' <=> Busy
  BY DEF Busy
<1>7. /\ taken' \in Nat /\ judged' \in Nat /\ judged' <= taken'
      /\ Busy' => judged' < looker'.frame.n /\ looker'.frame.n <= taken'
  BY <1>3, <1>6
<1>. QED
  BY <1>1, <1>2, <1>4, <1>5, <1>6, <1>7 DEF InOrder

\* A frame is decoded and does not join the line.
LEMMA Passing ==
  ASSUME GateInv, taken' = taken + 1, UNCHANGED <<waiting, looker, judged>>
  PROVE  LineFits' /\ LookerFits' /\ InOrder'
<1>1. LineFits' /\ LookerFits'
  BY DEF GateInv, LineFits, LookerFits
<1>2. /\ taken \in Nat /\ judged \in Nat /\ judged <= taken
      /\ \A k \in DOMAIN waiting : judged < waiting[k].n /\ waiting[k].n <= taken /\ waiting[k].n \in Nat
      /\ looker.frame.n \in Nat
      /\ Busy => judged < looker.frame.n /\ looker.frame.n <= taken
  BY Numbered
<1>3. Busy' <=> Busy
  BY DEF Busy
<1>4. /\ taken' \in Nat /\ judged' \in Nat /\ judged' <= taken'
      /\ \A k \in DOMAIN waiting' : judged' < waiting'[k].n /\ waiting'[k].n <= taken'
      /\ Busy' => judged' < looker'.frame.n /\ looker'.frame.n <= taken'
  BY <1>2, <1>3
<1>5. /\ \A i, j \in DOMAIN waiting' : i < j => waiting'[i].n < waiting'[j].n
      /\ Busy' => \A i \in DOMAIN waiting' : looker'.frame.n < waiting'[i].n
  BY <1>3 DEF GateInv, InOrder
<1>. QED
  BY <1>1, <1>4, <1>5 DEF InOrder

\* The scene changes, or the connection: no frame is touched.
LEMMA FramesRest ==
  ASSUME GateInv, UNCHANGED <<taken, waiting, looker, judged>>
  PROVE  LineFits' /\ LookerFits' /\ InOrder'
BY DEF GateInv, LineFits, LookerFits, InOrder, Busy

\* Something moves in front of the camera.
LEMMA GateMoves ==
  ASSUME GateInv, NEW v \in Views, Moves(v)
  PROVE  GateInv'
<1>1. view' \in [of : Pictures, shape : {1, 2}, last : Pictures]
  BY DEF GateInv, SceneFits, Moves, Pictures
<1>2. UNCHANGED <<taken, base, waiting, looker, judged>>
  BY DEF Moves
<1>. QED
  BY <1>1, <1>2, FramesRest DEF GateInv, SceneFits, BaseFits

\* The picture's size changes.
LEMMA GateReshapes ==
  ASSUME GateInv, Reshapes
  PROVE  GateInv'
<1>1. view' \in [of : Pictures, shape : {1, 2}, last : Pictures]
  BY DEF GateInv, SceneFits, Reshapes
<1>2. UNCHANGED <<taken, base, waiting, looker, judged>>
  BY DEF Reshapes
<1>. QED
  BY <1>1, <1>2, FramesRest DEF GateInv, SceneFits, BaseFits

\* The camera is connected anew.
LEMMA GateReconnects ==
  ASSUME GateInv, Reconnect
  PROVE  GateInv'
<1>1. BaseFits'
  BY DEF Reconnect, BaseFits, NoBase, Pictures
<1>2. UNCHANGED <<view, taken, waiting, looker, judged>>
  BY DEF Reconnect
<1>. QED
  BY <1>1, <1>2, FramesRest DEF GateInv, SceneFits

\* The broker publishes a frame with its verdict.
LEMMA GatePublishes ==
  ASSUME GateInv, Published
  PROVE  GateInv'
<1> DEFINE V == Verdict(base, Now)
           f == [Now EXCEPT !.verdict = V]
<1>1. Now \in Frames /\ Now.n = taken + 1 /\ Now.of \in Pictures
  BY NowFits DEF Frames
<1>2. V \in Verdicts
  BY <1>1, VerdictFits DEF GateInv
<1>3. /\ UNCHANGED <<looker, judged>>
      /\ \/ taken' = f.n /\ UNCHANGED <<view, base, waiting>>
         \/ Arrives(f) /\ base' = Based(base, f) /\ UNCHANGED waiting
         \/ Arrives(f) /\ base' = Based(base, f) /\ waiting' = Queued(f)
  BY DEF Published
<1>. HIDE DEF V
<1>4. f \in Frames /\ f.n = taken + 1
  BY <1>1, <1>2 DEF Frames
<1>. HIDE DEF f
<1>5. CASE taken' = f.n /\ UNCHANGED <<view, base, waiting>>
  BY <1>3, <1>4, <1>5, Passing DEF GateInv, SceneFits, BaseFits
<1>6. CASE Arrives(f) /\ base' = Based(base, f)
  <2>1. SceneFits' /\ taken' = taken + 1 /\ BaseFits'
    BY <1>4, <1>6, Arriving, BaseFollows DEF BaseFits
  <2>2. CASE UNCHANGED waiting
    BY <1>3, <2>1, <2>2, Passing DEF GateInv
  <2>3. CASE waiting' = Queued(f)
    BY <1>3, <1>4, <2>1, <2>3, Joining DEF GateInv
  <2>. QED
    BY <1>3, <1>6, <2>2, <2>3
<1>. QED
  BY <1>3, <1>5, <1>6

\* A frame falls between two samples of the broker.
LEMMA GateMisses ==
  ASSUME GateInv, Missed
  PROVE  GateInv'
<1>1. Now \in Frames /\ Now.n = taken + 1
  BY NowFits
<1>2. Arrives(Now) /\ base' = Based(base, Now) /\ UNCHANGED <<waiting, looker, judged>>
  BY DEF Missed
<1>3. SceneFits' /\ taken' = taken + 1
  BY <1>1, <1>2, Arriving
<1>4. BaseFits'
  BY <1>1, <1>2, BaseFollows DEF BaseFits
<1>. QED
  BY <1>2, <1>3, <1>4, Passing DEF GateInv

\* The consumer's own sampler takes a frame.
LEMMA GateSamples ==
  ASSUME GateInv, Sampled
  PROVE  GateInv'
<1>1. Now \in Frames /\ Now.n = taken + 1
  BY NowFits
<1>2. Arrives(Now) /\ waiting' = Queued(Now) /\ UNCHANGED <<base, looker, judged>>
  BY DEF Sampled
<1>3. SceneFits' /\ taken' = taken + 1
  BY <1>1, <1>2, Arriving
<1>. QED
  BY <1>1, <1>2, <1>3, Joining DEF GateInv, BaseFits

\* The worker goes on with the frame it has.
LEMMA GateLooks ==
  ASSUME GateInv, NEW p \in Steps, NEW g \in Frames, g.n = looker.frame.n, p \in {"first", "compare", "look"} => Busy,
         looker'.pc = p, looker'.frame = g, looker' = [pc |-> looker'.pc, frame |-> looker'.frame, found |-> looker'.found],
         UNCHANGED <<view, taken, waiting, judged>>
  PROVE  SceneFits' /\ LineFits' /\ LookerFits' /\ InOrder'
<1>1. SceneFits' /\ LineFits'
  BY DEF GateInv, SceneFits, LineFits
<1>2. LookerFits'
  BY DEF LookerFits
<1>3. Busy' => Busy
  BY DEF Busy
<1>4. InOrder'
  BY <1>3 DEF GateInv, InOrder
<1>. QED
  BY <1>1, <1>2, <1>4

\* The worker has done with a frame in hand.
LEMMA GateJudges ==
  ASSUME GateInv, Busy, NEW p \in {"idle", "found"}, judged' = looker.frame.n,
         looker'.pc = p, looker'.frame = looker.frame,
         looker' = [pc |-> looker'.pc, frame |-> looker'.frame, found |-> looker'.found],
         UNCHANGED <<view, taken, waiting>>
  PROVE  SceneFits' /\ LineFits' /\ LookerFits' /\ InOrder'
<1>1. SceneFits' /\ LineFits'
  BY DEF GateInv, SceneFits, LineFits
<1>2. LookerFits'
  BY DEF GateInv, LookerFits, Steps
<1>3. ~Busy'
  BY DEF Busy
<1>4. /\ taken' \in Nat /\ judged' \in Nat /\ judged' <= taken'
      /\ \A i \in DOMAIN waiting' : judged' < waiting'[i].n /\ waiting'[i].n <= taken'
  BY Numbered
<1>5. \A i, j \in DOMAIN waiting' : i < j => waiting'[i].n < waiting'[j].n
  BY DEF GateInv, InOrder
<1>. QED
  BY <1>1, <1>2, <1>3, <1>4, <1>5 DEF InOrder

\* The front of the line, and what is left of it.
LEMMA FrontOfLine ==
  ASSUME GateInv, waiting # <<>>
  PROVE  /\ Head(waiting) \in Frames /\ Head(waiting) = waiting[1] /\ 1 \in DOMAIN waiting
         /\ Tail(waiting) \in Seq(Frames) /\ Len(Tail(waiting)) <= Waiting
         /\ \A i \in DOMAIN Tail(waiting) : i \in Nat \ {0} /\ i + 1 \in DOMAIN waiting /\ Tail(waiting)[i] = waiting[i + 1]
<1>1. waiting \in Seq(Frames) /\ Len(waiting) <= Waiting /\ Waiting \in Nat /\ Len(waiting) \in Nat
  BY GatingAssumption DEF GateInv, LineFits
<1>2. /\ Head(waiting) \in Frames /\ Head(waiting) = waiting[1] /\ 1 \in DOMAIN waiting
      /\ Tail(waiting) \in Seq(Frames) /\ Len(Tail(waiting)) = Len(waiting) - 1
  BY <1>1
<1>3. /\ DOMAIN Tail(waiting) = 1 .. Len(waiting) - 1
      /\ \A i \in 1 .. Len(waiting) - 1 : Tail(waiting)[i] = waiting[i + 1]
  BY <1>1
<1>. QED
  BY <1>1, <1>2, <1>3

\* The pipeline takes a frame from its queue.
LEMMA GateTakes ==
  ASSUME GateInv, TakesFrame
  PROVE  GateInv'
<1> DEFINE h == Head(waiting)
           g == IF Judges THEN h ELSE [h EXCEPT !.verdict = Full]
           p == FirstStep
<1>1. /\ waiting # <<>> /\ waiting' = Tail(waiting) /\ UNCHANGED <<view, taken, base, judged>>
      /\ looker' = [pc |-> p, frame |-> g, found |-> <<>>]
  BY DEF TakesFrame
<1>2. h \in Frames /\ h = waiting[1] /\ 1 \in DOMAIN waiting
  BY <1>1, FrontOfLine
<1>3. g \in Frames /\ g.n = h.n
  <2>1. Full \in Verdicts
    BY DEF Verdicts
  <2>. HIDE DEF h
  <2>2. [h EXCEPT !.verdict = Full] \in Frames /\ [h EXCEPT !.verdict = Full].n = h.n
    BY <1>2, <2>1 DEF Frames
  <2>. QED
    BY <1>2, <2>2
<1>4. p \in Steps
  BY DEF FirstStep, Steps
<1>. HIDE DEF g, p, h
<1>5. SceneFits' /\ BaseFits' /\ LookerFits'
  BY <1>1, <1>3, <1>4 DEF GateInv, SceneFits, BaseFits, LookerFits
<1>6. LineFits'
  BY <1>1, FrontOfLine DEF LineFits
<1>7. /\ taken \in Nat /\ judged \in Nat /\ judged <= taken /\ g.n = waiting[1].n
      /\ \A k \in DOMAIN waiting : waiting[k].n \in Nat /\ judged < waiting[k].n /\ waiting[k].n <= taken
      /\ \A j, k \in DOMAIN waiting : j < k => waiting[j].n < waiting[k].n
  BY <1>2, <1>3, Numbered DEF GateInv, InOrder
<1>8. ASSUME NEW i \in DOMAIN waiting'
      PROVE  i \in Nat \ {0} /\ i + 1 \in DOMAIN waiting /\ waiting'[i] = waiting[i + 1]
  BY <1>1, FrontOfLine
<1>9. ASSUME NEW i \in DOMAIN waiting'
      PROVE  judged' < waiting'[i].n /\ waiting'[i].n <= taken' /\ g.n < waiting'[i].n
  BY <1>1, <1>2, <1>7, <1>8
<1>10. ASSUME NEW i \in DOMAIN waiting', NEW j \in DOMAIN waiting', i < j
       PROVE  waiting'[i].n < waiting'[j].n
  BY <1>7, <1>8, <1>10
<1>11. looker'.frame = g /\ judged' < g.n /\ g.n <= taken' /\ taken' \in Nat /\ judged' \in Nat /\ judged' <= taken'
  BY <1>1, <1>2, <1>7
<1>12. InOrder'
  BY <1>9, <1>10, <1>11 DEF InOrder
<1>. QED
  BY <1>5, <1>6, <1>12 DEF GateInv

\* A frame in hand, with another verdict.
LEMMA VerdictGiven ==
  ASSUME GateInv, NEW V \in Verdicts
  PROVE  LET g == [looker.frame EXCEPT !.verdict = V] IN g \in Frames /\ g.n = looker.frame.n
<1>1. looker.frame \in Frames
  BY DEF GateInv, LookerFits
<1>. QED
  BY <1>1 DEF Frames

\* The first frame of a baseline is looked at whole.
LEMMA GateFirst ==
  ASSUME GateInv, GatesFirst
  PROVE  GateInv'
<1> DEFINE g == [looker.frame EXCEPT !.verdict = Full]
<1>1. /\ looker.pc = "first" /\ base' = Based(base, looker.frame) /\ UNCHANGED <<view, taken, waiting, judged>>
      /\ looker' = [looker EXCEPT !.pc = "look", !.frame = g]
  BY DEF GatesFirst
<1>2. Full \in Verdicts
  BY DEF Verdicts
<1>3. g \in Frames /\ g.n = looker.frame.n
  BY <1>2, VerdictGiven
<1>4. looker.frame \in Frames /\ looker = [pc |-> looker.pc, frame |-> looker.frame, found |-> looker.found]
  BY DEF GateInv, LookerFits
<1>. HIDE DEF g
<1>5. looker'.pc = "look" /\ looker'.frame = g /\ looker' = [pc |-> looker'.pc, frame |-> looker'.frame, found |-> looker'.found]
  BY <1>1, <1>4
<1>6. BaseFits'
  BY <1>1, <1>4, BaseFollows DEF BaseFits
<1>7. Busy /\ "look" \in Steps
  BY <1>1 DEF Busy, Steps
<1>. QED
  BY <1>1, <1>3, <1>5, <1>6, <1>7, GateLooks DEF GateInv

\* A frame is compared with the baseline.
LEMMA GateCompares ==
  ASSUME GateInv, Gates
  PROVE  GateInv'
<1> DEFINE V == Verdict(base, looker.frame)
           g == [looker.frame EXCEPT !.verdict = V]
<1>1. looker.frame \in Frames /\ looker = [pc |-> looker.pc, frame |-> looker.frame, found |-> looker.found]
  BY DEF GateInv, LookerFits
<1>2. Busy /\ "look" \in Steps /\ UNCHANGED <<view, taken, waiting>>
  BY DEF Gates, Busy, Steps
<1>3. CASE ~base.known \/ ~Comparable(base, looker.frame)
  <2>1. judged' = looker.frame.n /\ looker' = [looker EXCEPT !.pc = "idle"] /\ UNCHANGED base
    BY <1>3 DEF Gates, Fails
  <2>2. looker'.pc = "idle" /\ looker'.frame = looker.frame /\ looker' = [pc |-> looker'.pc, frame |-> looker'.frame, found |-> looker'.found]
    BY <1>1, <2>1
  <2>3. BaseFits'
    BY <2>1 DEF GateInv, BaseFits
  <2>. QED
    BY <1>2, <2>1, <2>2, <2>3, GateJudges DEF GateInv
<1>4. CASE base.known /\ Comparable(base, looker.frame)
  <2>1. /\ base' = Based(base, looker.frame) /\ UNCHANGED judged
        /\ looker' = [looker EXCEPT !.pc = "look", !.frame = g]
    BY <1>4 DEF Gates
  <2>2. looker.frame.of \in Pictures
    BY <1>1 DEF Frames
  <2>3. V \in Verdicts
    BY <2>2, VerdictFits DEF GateInv
  <2>. HIDE DEF V
  <2>4. g \in Frames /\ g.n = looker.frame.n
    BY <2>3, VerdictGiven
  <2>. HIDE DEF g
  <2>5. looker'.pc = "look" /\ looker'.frame = g /\ looker' = [pc |-> looker'.pc, frame |-> looker'.frame, found |-> looker'.found]
    BY <1>1, <2>1
  <2>6. BaseFits'
    BY <1>1, <2>1, BaseFollows DEF BaseFits
  <2>. QED
    BY <1>2, <2>1, <2>4, <2>5, <2>6, GateLooks DEF GateInv
<1>. QED
  BY <1>3, <1>4

\* The detector is given the crops.
LEMMA GateDetects ==
  ASSUME GateInv, Detects
  PROVE  GateInv'
<1> DEFINE d == SuppressNested(DetectRaw(looker.frame))
<1>1. /\ looker.pc = "look" /\ looker' = [looker EXCEPT !.pc = "found", !.found = d]
      /\ judged' = looker.frame.n /\ UNCHANGED <<view, taken, base, waiting>>
  BY DEF Detects
<1>. HIDE DEF d
<1>2. looker = [pc |-> looker.pc, frame |-> looker.frame, found |-> looker.found]
  BY DEF GateInv, LookerFits
<1>3. looker'.pc = "found" /\ looker'.frame = looker.frame /\ looker' = [pc |-> looker'.pc, frame |-> looker'.frame, found |-> looker'.found]
  BY <1>1, <1>2
<1>4. Busy /\ BaseFits'
  BY <1>1 DEF Busy, GateInv, BaseFits
<1>. QED
  BY <1>1, <1>3, <1>4, GateJudges DEF GateInv

\* The pipeline is done with a frame.
LEMMA GateEnds ==
  ASSUME GateInv, EndsFrame
  PROVE  GateInv'
<1>1. looker' = [looker EXCEPT !.pc = "idle", !.found = <<>>] /\ UNCHANGED <<view, taken, base, waiting, judged>>
  BY DEF EndsFrame
<1>2. /\ looker = [pc |-> looker.pc, frame |-> looker.frame, found |-> looker.found]
      /\ looker.frame \in Frames /\ "idle" \in Steps
  BY DEF GateInv, LookerFits, Steps
<1>3. looker'.pc = "idle" /\ looker'.frame = looker.frame /\ looker' = [pc |-> looker'.pc, frame |-> looker'.frame, found |-> looker'.found]
  BY <1>1, <1>2
<1>4. BaseFits'
  BY <1>1 DEF GateInv, BaseFits
<1>. QED
  BY <1>1, <1>2, <1>3, <1>4, GateLooks DEF GateInv

\* Every step of the gate keeps its types.
LEMMA GateSteps ==
  ASSUME GateInv, GatingNext
  PROVE  GateInv'
BY GateMoves, GateReshapes, GatePublishes, GateMisses, GateSamples, GateReconnects, GateTakes, GateFirst, GateCompares,
   GateDetects, GateEnds DEF GatingNext

\* A step of another part leaves the gate as it was.
LEMMA GateRests ==
  ASSUME GateInv, UNCHANGED gateVars
  PROVE  GateInv'
BY DEF GateInv, gateVars, SceneFits, BaseFits, LineFits, LookerFits, InOrder, Busy

\* The gate's type follows from its invariant.
LEMMA GateTyped == GateInv => GatingTypeOK
BY DEF GateInv, GatingTypeOK, SceneFits, LineFits, LookerFits, InOrder, Pictures, Steps

-----------------------------------------------------------------------------
(* Whatever changes before the camera is looked at.  A frame that still waits *)
(* agrees with the present in every cell that has not changed since; what the *)
(* detector has not had of a change waits with the frame that brought it, or  *)
(* that frame is lost.                                                        *)
Agrees(g, s, last) == \A c \in Cells : s[c] <= g.n => Shows(g.of, c) = Shows(last, c)
LinePromises(line, j, s, c) == \E i \in DOMAIN line : line[i].n = s[c] /\ (j => Cropped(line[i], c))
HandPromises(mine, s, c) == mine.pc \in {"first", "compare", "look"} /\ mine.frame.n = s[c] /\ Cropped(mine.frame, c)
Seen(c) == since[c] <= judged /\ Shows(view.last, c) = had[c]

BudgetTyped ==
  gateBudget \in [by : {"broker", "sampler"}, enabled : BOOLEAN, move : Nat, frame : Nat, shape : Nat, connect : Nat, lost : Nat]
CellsTyped == since \in [Cells -> Nat] /\ had = [c \in Cells |-> had[c]]
AllAgree ==
  /\ \A i \in DOMAIN waiting : Agrees(waiting[i], since, view.last)
  /\ Busy => Agrees(looker.frame, since, view.last)
BrokerOwes ==
  ByBroker => /\ looker.pc \notin {"first", "compare"}
              /\ base.known => base.of = view.last
              /\ \A c \in Cells : \/ Seen(c) \/ since[c] \in spoilt
                                  \/ LinePromises(waiting, Judges, since, c) \/ HandPromises(looker, since, c)
SamplerOwes ==
  ~ByBroker => /\ \A c \in Cells : since[c] <= judged => Seen(c) \/ since[c] \in spoilt
               /\ looker.pc \in {"first", "compare"} => Judges
               /\ base.known => Judges
               /\ base.known /\ looker.pc = "look" => base.of = looker.frame.of
               /\ base.known /\ looker.pc # "look" => \A c \in Cells : Shows(base.of, c) = had[c]
               /\ looker.pc = "look" => \A c \in Cells : Cropped(looker.frame, c) \/ Shows(looker.frame.of, c) = had[c]
LookInv == BudgetTyped /\ CellsTyped /\ AllAgree /\ BrokerOwes /\ SamplerOwes

\* A cell is cropped when one of the crops meets it.
LEMMA BeforeMeets == ASSUME NEW g, NEW c PROVE Cropped(g, c) <=> Met(g.verdict.crops, c)
BY DEF Cropped, Met, CellBox

\* A full look has every cell in it.
LEMMA FullBefore == ASSUME NEW g, g.verdict = Full, NEW c \in Cells PROVE Cropped(g, c)
BY BeforeMeets, CropsCover

\* A step of the gate that is counted leaves its budget typed.
LEMMA Spends ==
  ASSUME BudgetTyped, NEW k \in {"move", "frame", "shape", "connect"}, SpendGate(k)
  PROVE  BudgetTyped' /\ gateBudget'.by = gateBudget.by /\ gateBudget'.enabled = gateBudget.enabled
<1>1. CASE k = "move"
  BY <1>1 DEF BudgetTyped, SpendGate
<1>2. CASE k = "frame"
  BY <1>2 DEF BudgetTyped, SpendGate
<1>3. CASE k = "shape"
  BY <1>3 DEF BudgetTyped, SpendGate
<1>4. CASE k = "connect"
  BY <1>4 DEF BudgetTyped, SpendGate
<1>. QED
  BY <1>1, <1>2, <1>3, <1>4

\* Nothing has changed at the start, so nothing is owed.
LEMMA LookStarts == GatingInit => LookInv
<1>. SUFFICES ASSUME GatingInit PROVE LookInv
  OBVIOUS
<1>1. BudgetTyped
  BY GatingAssumption DEF GatingInit, BudgetTyped
<1>2. CellsTyped
  BY DEF GatingInit, CellsTyped
<1>3. \A c \in Cells : Shows(view.last, c) = 0 /\ since[c] = 0 /\ had[c] = 0 /\ judged = 0
  BY DEF GatingInit, Shows
<1>4. looker.pc = "idle" /\ waiting = <<>> /\ ~base.known
  BY DEF GatingInit, Unoccupied, NoBase
<1>5. DOMAIN waiting = {}
  BY <1>4
<1>6. AllAgree
  BY <1>4, <1>5 DEF AllAgree, Busy
<1>7. BrokerOwes
  BY <1>3, <1>4 DEF BrokerOwes, Seen
<1>8. SamplerOwes
  BY <1>3, <1>4 DEF SamplerOwes, Seen
<1>. QED
  BY <1>1, <1>2, <1>6, <1>7, <1>8 DEF LookInv

\* Nothing the invariant speaks of moves but the scene, the budget and the base.
LEMMA LookIdles ==
  ASSUME LookInv, BudgetTyped', gateBudget'.by = gateBudget.by, gateBudget'.enabled = gateBudget.enabled,
         view'.last = view.last, UNCHANGED <<waiting, had, since, judged, spoilt>>,
         looker'.pc = looker.pc \/ (looker.pc = "found" /\ looker'.pc = "idle"), looker'.frame = looker.frame,
         base' = base \/ ~base'.known
  PROVE  LookInv'
<1>1. (ByBroker' <=> ByBroker) /\ (Judges' <=> Judges)
  BY DEF ByBroker, Judges
<1>2. CellsTyped'
  BY DEF LookInv, CellsTyped
<1>3. AllAgree'
  BY DEF LookInv, AllAgree, Busy
<1>4. BrokerOwes'
  <2>. SUFFICES ASSUME ByBroker'
                PROVE  /\ looker'.pc \notin {"first", "compare"}
                       /\ base'.known => base'.of = view'.last
                       /\ \A c \in Cells : \/ Seen(c)' \/ since'[c] \in spoilt'
                                           \/ LinePromises(waiting', Judges', since', c) \/ HandPromises(looker', since', c)
    BY DEF BrokerOwes
  <2>1. looker.pc \notin {"first", "compare"} /\ (base.known => base.of = view.last)
    BY <1>1 DEF LookInv, BrokerOwes
  <2>2. ASSUME NEW c \in Cells
        PROVE  \/ Seen(c)' \/ since'[c] \in spoilt'
               \/ LinePromises(waiting', Judges', since', c) \/ HandPromises(looker', since', c)
    <3>1. \/ Seen(c) \/ since[c] \in spoilt
          \/ LinePromises(waiting, Judges, since, c) \/ HandPromises(looker, since, c)
      BY <1>1 DEF LookInv, BrokerOwes
    <3>2. Seen(c) => Seen(c)'
      BY DEF Seen
    <3>3. LinePromises(waiting, Judges, since, c) => LinePromises(waiting', Judges', since', c)
      BY <1>1 DEF LinePromises
    <3>4. HandPromises(looker, since, c) => HandPromises(looker', since', c)
      BY DEF HandPromises
    <3>. QED
      BY <3>1, <3>2, <3>3, <3>4
  <2>. QED
    BY <2>1, <2>2
<1>5. SamplerOwes'
  BY <1>1 DEF LookInv, SamplerOwes, Seen
<1>. QED
  BY <1>2, <1>3, <1>4, <1>5 DEF LookInv

\* What moves is not yet in any frame.
LEMMA LookMoves == ASSUME LookInv, GateInv, NEW v \in Views, Moves(v) PROVE LookInv'
<1>1. view'.last = view.last
  BY DEF Moves, GateInv, SceneFits
<1>. QED
  BY <1>1, Spends, LookIdles DEF Moves, LookInv

\* A new size is not yet in any frame.
LEMMA LookReshapes == ASSUME LookInv, GateInv, Reshapes PROVE LookInv'
<1>1. view'.last = view.last
  BY DEF Reshapes, GateInv, SceneFits
<1>. QED
  BY <1>1, Spends, LookIdles DEF Reshapes, LookInv

\* A connection made anew is not yet in any frame.
LEMMA LookReconnects == ASSUME LookInv, GateInv, Reconnect PROVE LookInv'
<1>1. ~base'.known
  BY DEF Reconnect, NoBase
<1>. QED
  BY <1>1, Spends, LookIdles DEF Reconnect, LookInv

\* A frame that is done with owes nothing.
LEMMA LookEnds == ASSUME LookInv, GateInv, EndsFrame PROVE LookInv'
<1>1. looker.pc = "found" /\ looker'.pc = "idle" /\ looker'.frame = looker.frame
  BY DEF EndsFrame, GateInv, LookerFits
<1>2. UNCHANGED <<view, base, waiting, had, since, judged, spoilt, gateBudget>>
  BY DEF EndsFrame
<1>3. BudgetTyped'
  BY <1>2 DEF LookInv, BudgetTyped
<1>. QED
  BY <1>1, <1>2, <1>3, LookIdles

\* A queued frame waits at the end; those it pushed out are named as such.
LEMMA PromisesWait ==
  ASSUME GateInv, NEW f \in Frames
  PROVE  /\ Len(Queued(f)) \in DOMAIN Queued(f) /\ Queued(f)[Len(Queued(f))] = f
         /\ \A k \in DOMAIN waiting :
              (\E i \in DOMAIN Queued(f) : Queued(f)[i] = waiting[k]) \/ waiting[k].n \in PushedOut
<1>1. waiting \in Seq(Frames) /\ Waiting \in Nat \ {0} /\ Len(waiting) \in Nat
  BY GatingAssumption DEF GateInv, LineFits
<1>2. CASE Len(waiting) = Waiting
  <2> DEFINE l == Tail(waiting)
  <2>1. /\ l \in Seq(Frames) /\ Len(l) = Len(waiting) - 1 /\ Head(waiting) = waiting[1]
        /\ \A i \in 1 .. Len(waiting) - 1 : l[i] = waiting[i + 1]
    BY <1>1, <1>2
  <2>2. Queued(f) = Append(l, f) /\ PushedOut = {Head(waiting).n}
    BY <1>2 DEF Queued, PushedOut
  <2>. HIDE DEF l
  <2>3. /\ Len(Append(l, f)) = Len(waiting) /\ DOMAIN Append(l, f) = 1 .. Len(waiting) /\ Append(l, f)[Len(waiting)] = f
        /\ \A i \in 1 .. Len(waiting) - 1 : Append(l, f)[i] = waiting[i + 1]
    BY <1>1, <1>2, <2>1
  <2>4. ASSUME NEW k \in DOMAIN waiting
        PROVE  (\E i \in DOMAIN Append(l, f) : Append(l, f)[i] = waiting[k]) \/ waiting[k].n \in PushedOut
    <3>1. CASE k = 1
      BY <2>1, <2>2, <3>1
    <3>2. CASE k # 1
      <4>1. k - 1 \in 1 .. Len(waiting) - 1 /\ k = (k - 1) + 1
        BY <1>1, <3>2
      <4>2. Append(l, f)[k - 1] = waiting[k] /\ k - 1 \in DOMAIN Append(l, f)
        BY <1>1, <2>3, <4>1
      <4>. QED
        BY <4>2
    <3>. QED
      BY <3>1, <3>2
  <2>. QED
    BY <1>1, <1>2, <2>2, <2>3, <2>4
<1>3. CASE Len(waiting) # Waiting
  <2>1. Queued(f) = Append(waiting, f)
    BY <1>3 DEF Queued
  <2>2. /\ Len(Append(waiting, f)) = Len(waiting) + 1 /\ DOMAIN Append(waiting, f) = 1 .. Len(waiting) + 1
        /\ Append(waiting, f)[Len(waiting) + 1] = f
        /\ \A k \in DOMAIN waiting : k \in DOMAIN Append(waiting, f) /\ Append(waiting, f)[k] = waiting[k]
    BY <1>1
  <2>. QED
    BY <1>1, <2>1, <2>2
<1>. QED
  BY <1>2, <1>3

\* A frame arrives: the cells in which it differs have changed since, the others agree with the present.
LEMMA LookArrives ==
  ASSUME LookInv, GateInv, NEW f \in Frames, f.n = taken + 1, Arrives(f), had' = had
  PROVE  /\ CellsTyped' /\ view'.last = f.of
         /\ \A g \in Frames : g.n <= taken /\ Agrees(g, since, view.last) => Agrees(g, since', view'.last)
         /\ Agrees(f, since', view'.last)
         /\ \A c \in Cells : \/ Shows(view.last, c) # Shows(f.of, c) /\ since'[c] = f.n
                             \/ since'[c] = since[c] /\ Shows(view'.last, c) = Shows(view.last, c)
<1>1. view'.last = f.of /\ taken \in Nat /\ f.n \in Nat
  BY DEF Arrives, GateInv, SceneFits, InOrder, Frames
<1>2. since \in [Cells -> Nat] /\ had = [c \in Cells |-> had[c]]
  BY DEF LookInv, CellsTyped
<1>3. since' = [c \in Cells |-> IF c \in Stirred(view.last, f.of) THEN f.n ELSE since[c]]
  BY DEF Arrives
<1>4. \A c \in Cells : c \in Stirred(view.last, f.of) <=> Shows(view.last, c) # Shows(f.of, c)
  BY DEF Stirred
<1>5. CellsTyped'
  BY <1>1, <1>2, <1>3 DEF CellsTyped
<1>6. \A c \in Cells : \/ Shows(view.last, c) # Shows(f.of, c) /\ since'[c] = f.n
                       \/ since'[c] = since[c] /\ Shows(view'.last, c) = Shows(view.last, c)
  BY <1>1, <1>3, <1>4
<1>7. ASSUME NEW g \in Frames, g.n <= taken, Agrees(g, since, view.last) PROVE Agrees(g, since', view'.last)
  <2>1. g.n \in Nat
    BY DEF Frames
  <2>. SUFFICES ASSUME NEW c \in Cells, since'[c] <= g.n PROVE Shows(g.of, c) = Shows(view'.last, c)
    BY DEF Agrees
  <2>2. since'[c] # f.n
    BY <1>1, <1>7, <2>1
  <2>3. since'[c] = since[c] /\ Shows(view'.last, c) = Shows(view.last, c)
    BY <1>6, <2>2
  <2>. QED
    BY <1>7, <2>3 DEF Agrees
<1>8. Agrees(f, since', view'.last)
  BY <1>1 DEF Agrees
<1>. QED
  BY <1>1, <1>5, <1>6, <1>7, <1>8

\* Those that wait and the one in mine go on agreeing when another joins the line or none does.
LEMMA AgreeOn ==
  ASSUME LookInv, GateInv, NEW f \in Frames, f.n = taken + 1, Arrives(f), had' = had, looker' = looker,
         waiting' = waiting \/ waiting' = Queued(f)
  PROVE  AllAgree'
<1>1. /\ \A k \in DOMAIN waiting : waiting[k] \in Frames /\ waiting[k].n <= taken /\ Agrees(waiting[k], since, view.last)
      /\ Busy => looker.frame \in Frames /\ looker.frame.n <= taken /\ Agrees(looker.frame, since, view.last)
  BY DEF LookInv, AllAgree, GateInv, LineFits, LookerFits, InOrder
<1>2. ASSUME NEW i \in DOMAIN waiting' PROVE Agrees(waiting'[i], since', view'.last)
  <2>1. waiting'[i] = f \/ \E k \in DOMAIN waiting : waiting'[i] = waiting[k]
    BY LineKept
  <2>2. CASE waiting'[i] = f
    BY <2>2, LookArrives
  <2>3. ASSUME NEW k \in DOMAIN waiting, waiting'[i] = waiting[k] PROVE Agrees(waiting'[i], since', view'.last)
    BY <1>1, <2>3, LookArrives
  <2>. QED
    BY <2>1, <2>2, <2>3
<1>3. Busy => Agrees(looker.frame, since', view'.last)
  BY <1>1, LookArrives
<1>4. (Busy' <=> Busy) /\ looker'.frame = looker.frame
  BY DEF Busy
<1>. QED
  BY <1>2, <1>3, <1>4 DEF AllAgree

\* In broker mode, a picture that is compared with the one before: what it changes
\* waits with it, unless it gets lost.
LEMMA BrokerArrives ==
  ASSUME LookInv, GateInv, ByBroker, ByBroker', Judges' <=> Judges,
         NEW f \in Frames, f.n = taken + 1, Arrives(f), had' = had, looker' = looker, judged' = judged,
         base' = Based(base, f),
         \/ waiting' = waiting /\ f.n \in spoilt' /\ spoilt \subseteq spoilt'
         \/ waiting' = waiting /\ spoilt' = spoilt /\ f.verdict = Verdict(base, f) /\ GatedOut(f)
         \/ waiting' = Queued(f) /\ spoilt' = spoilt \cup PushedOut /\ f.verdict = Verdict(base, f)
  PROVE  BrokerOwes'
<1>1. /\ looker.pc \notin {"first", "compare"} /\ (base.known => base.of = view.last)
      /\ \A c \in Cells : \/ Seen(c) \/ since[c] \in spoilt
                          \/ LinePromises(waiting, Judges, since, c) \/ HandPromises(looker, since, c)
  BY DEF LookInv, BrokerOwes
<1>2. base'.of = view'.last
  BY LookArrives DEF Based
<1>3. ASSUME NEW c \in Cells
      PROVE  \/ Seen(c)' \/ since'[c] \in spoilt'
             \/ LinePromises(waiting', Judges', since', c) \/ HandPromises(looker', since', c)
  <2>1. \/ Shows(view.last, c) # Shows(f.of, c) /\ since'[c] = f.n
        \/ since'[c] = since[c] /\ Shows(view'.last, c) = Shows(view.last, c)
    BY LookArrives
  <2>2. CASE since'[c] = since[c] /\ Shows(view'.last, c) = Shows(view.last, c)
    <3>1. Seen(c) => Seen(c)'
      BY <2>2 DEF Seen
    <3>2. since[c] \in spoilt => since'[c] \in spoilt'
      BY <2>2
    <3>3. HandPromises(looker, since, c) => HandPromises(looker', since', c)
      BY <2>2 DEF HandPromises
    <3>4. ASSUME LinePromises(waiting, Judges, since, c)
          PROVE  LinePromises(waiting', Judges', since', c) \/ since'[c] \in spoilt'
      <4>1. PICK k \in DOMAIN waiting : waiting[k].n = since[c] /\ (Judges => Cropped(waiting[k], c))
        BY <3>4 DEF LinePromises
      <4>2. CASE waiting' = waiting
        BY <2>2, <4>1, <4>2 DEF LinePromises
      <4>3. CASE waiting' = Queued(f) /\ spoilt' = spoilt \cup PushedOut
        <5>1. (\E i \in DOMAIN waiting' : waiting'[i] = waiting[k]) \/ waiting[k].n \in PushedOut
          BY <4>3, PromisesWait
        <5>. QED
          BY <2>2, <4>1, <4>3, <5>1 DEF LinePromises
      <4>. QED
        BY <4>2, <4>3
    <3>. QED
      BY <1>1, <3>1, <3>2, <3>3, <3>4
  <2>3. CASE Shows(view.last, c) # Shows(f.of, c) /\ since'[c] = f.n
    <3>1. CASE f.n \in spoilt'
      BY <2>3, <3>1
    <3>2. CASE f.verdict = Verdict(base, f)
      <4>1. ~GatedOut(f) /\ Cropped(f, c)
        <5>1. CASE base.known
          <6>1. f.verdict = Compared(view.last, f.of)
            BY <1>1, <3>2, <5>1 DEF Verdict
          <6>2. Compared(view.last, f.of).kind # "none" /\ Met(Compared(view.last, f.of).crops, c)
            BY <2>3, CropsCover
          <6>. QED
            BY <6>1, <6>2, BeforeMeets DEF GatedOut
        <5>2. CASE ~base.known
          <6>1. f.verdict = Full
            BY <3>2, <5>2 DEF Verdict
          <6>2. Full.kind # "none"
            BY DEF Full
          <6>. QED
            BY <6>1, <6>2, FullBefore DEF GatedOut
        <5>. QED
          BY <5>1, <5>2
      <4>2. CASE waiting' = Queued(f)
        <5>1. Len(waiting') \in DOMAIN waiting' /\ waiting'[Len(waiting')] = f
          BY <4>2, PromisesWait
        <5>. QED
          BY <2>3, <4>1, <5>1 DEF LinePromises
      <4>. QED
        BY <3>1, <4>1, <4>2
    <3>. QED
      BY <3>1, <3>2
  <2>. QED
    BY <2>1, <2>2, <2>3
<1>. QED
  BY <1>1, <1>2, <1>3 DEF BrokerOwes

\* A published frame has its changes in its crops, and waits.
LEMMA LookPublishes == ASSUME LookInv, GateInv, Published PROVE LookInv'
<1> DEFINE V == Verdict(base, Now)
           f == [Now EXCEPT !.verdict = V]
<1>1. Now \in Frames /\ Now.n = taken + 1 /\ Now.of \in Pictures
  BY NowFits DEF Frames
<1>2. V \in Verdicts
  BY <1>1, VerdictFits DEF GateInv
<1>3. /\ ByBroker /\ SpendGate("frame") /\ UNCHANGED <<looker, had, judged>>
      /\ \/ taken' = f.n /\ UNCHANGED <<view, since, base, waiting, spoilt>>
         \/ /\ Arrives(f) /\ base' = Based(base, f)
            /\ (GatedOut(f) /\ UNCHANGED <<waiting, spoilt>>) \/ (waiting' = Queued(f) /\ spoilt' = spoilt \cup PushedOut)
  BY DEF Published
<1>4. f.verdict = V /\ f.of = Now.of /\ f.n = Now.n
  BY <1>1 DEF Frames
<1>5. Verdict(base, f) = V
  BY <1>4 DEF Verdict
<1>. HIDE DEF V
<1>6. f \in Frames /\ f.n = taken + 1
  BY <1>1, <1>2 DEF Frames
<1>. HIDE DEF f
<1>7. BudgetTyped' /\ gateBudget'.by = gateBudget.by /\ gateBudget'.enabled = gateBudget.enabled
  BY <1>3, Spends DEF LookInv
<1>8. ByBroker' /\ (Judges' <=> Judges)
  BY <1>3, <1>7 DEF ByBroker, Judges
<1>9. CASE taken' = f.n /\ UNCHANGED <<view, since, base, waiting, spoilt>>
  BY <1>3, <1>7, <1>9, LookIdles
<1>10. CASE /\ Arrives(f) /\ base' = Based(base, f)
            /\ (GatedOut(f) /\ UNCHANGED <<waiting, spoilt>>) \/ (waiting' = Queued(f) /\ spoilt' = spoilt \cup PushedOut)
  <2>1. BrokerOwes'
    BY <1>3, <1>4, <1>5, <1>6, <1>8, <1>10, BrokerArrives
  <2>2. AllAgree' /\ CellsTyped'
    BY <1>3, <1>6, <1>10, AgreeOn, LookArrives
  <2>3. SamplerOwes'
    BY <1>8 DEF SamplerOwes
  <2>. QED
    BY <1>7, <2>1, <2>2, <2>3 DEF LookInv
<1>. QED
  BY <1>3, <1>9, <1>10

\* A frame nobody sampled leaves the baseline, and so the change, for the next.
LEMMA LookMisses == ASSUME LookInv, GateInv, Missed PROVE LookInv'
<1>1. Now \in Frames /\ Now.n = taken + 1
  BY NowFits
<1>2. /\ ByBroker /\ Arrives(Now) /\ base' = Based(base, Now) /\ spoilt' = spoilt \cup {Now.n}
      /\ UNCHANGED <<waiting, looker, had, judged>>
      /\ gateBudget.frame > 0 /\ gateBudget.lost > 0 /\ gateBudget' = [gateBudget EXCEPT !.frame = @ - 1, !.lost = @ - 1]
  BY DEF Missed
<1>3. BudgetTyped' /\ gateBudget'.by = gateBudget.by /\ gateBudget'.enabled = gateBudget.enabled
  <2> DEFINE x == gateBudget.frame - 1
             y == gateBudget.lost - 1
  <2>1. BudgetTyped /\ gateBudget' = [gateBudget EXCEPT !.frame = x, !.lost = y]
    BY <1>2 DEF LookInv
  <2>2. x \in Nat /\ y \in Nat
    BY <1>2, <2>1 DEF BudgetTyped
  <2>. HIDE DEF x, y
  <2>. QED
    BY <2>1, <2>2 DEF BudgetTyped
<1>4. ByBroker' /\ (Judges' <=> Judges)
  BY <1>2, <1>3 DEF ByBroker, Judges
<1>5. BrokerOwes'
  BY <1>1, <1>2, <1>4, BrokerArrives
<1>6. AllAgree' /\ CellsTyped'
  BY <1>1, <1>2, AgreeOn, LookArrives
<1>7. SamplerOwes'
  BY <1>4 DEF SamplerOwes
<1>. QED
  BY <1>3, <1>5, <1>6, <1>7 DEF LookInv

\* A sampled frame waits to be compared.
LEMMA LookSamples == ASSUME LookInv, GateInv, Sampled PROVE LookInv'
<1>1. Now \in Frames /\ Now.n = taken + 1
  BY NowFits
<1>2. ~ByBroker /\ SpendGate("frame") /\ Arrives(Now) /\ waiting' = Queued(Now) /\ UNCHANGED <<base, looker, had, judged, spoilt>>
  BY DEF Sampled
<1>3. BudgetTyped' /\ gateBudget'.by = gateBudget.by /\ gateBudget'.enabled = gateBudget.enabled
  BY <1>2, Spends DEF LookInv
<1>4. ~ByBroker' /\ (Judges' <=> Judges)
  BY <1>2, <1>3 DEF ByBroker, Judges
<1>5. AllAgree' /\ CellsTyped'
  BY <1>1, <1>2, AgreeOn, LookArrives
<1>6. BrokerOwes'
  BY <1>4 DEF BrokerOwes
<1>7. ASSUME NEW c \in Cells, since'[c] <= judged' PROVE Seen(c)' \/ since'[c] \in spoilt'
  <2>1. judged \in Nat /\ taken \in Nat /\ judged <= taken
    BY Numbered
  <2>2. since'[c] = since[c] /\ Shows(view'.last, c) = Shows(view.last, c)
    BY <1>1, <1>2, <1>7, <2>1, LookArrives
  <2>3. Seen(c) \/ since[c] \in spoilt
    BY <1>2, <1>7, <2>2 DEF LookInv, SamplerOwes
  <2>. QED
    BY <1>2, <2>2, <2>3 DEF Seen
<1>8. SamplerOwes'
  BY <1>2, <1>4, <1>7 DEF LookInv, SamplerOwes
<1>. QED
  BY <1>3, <1>5, <1>6, <1>8 DEF LookInv

\* The frame in hand is the one that waited.
LEMMA LookTakes == ASSUME LookInv, GateInv, TakesFrame PROVE LookInv'
<1> DEFINE h == Head(waiting)
           g == IF Judges THEN h ELSE [h EXCEPT !.verdict = Full]
           p == FirstStep
<1>1. /\ looker.pc = "idle" /\ waiting # <<>> /\ waiting' = Tail(waiting)
      /\ looker' = [pc |-> p, frame |-> g, found |-> <<>>]
      /\ UNCHANGED <<view, taken, base, had, since, judged, spoilt, gateBudget>>
  BY DEF TakesFrame, Idles
<1>2. h \in Frames /\ h = waiting[1] /\ 1 \in DOMAIN waiting
  BY <1>1, FrontOfLine
<1>3. g.n = h.n /\ g.of = h.of /\ (Judges => g = h) /\ (~Judges => g.verdict = Full)
  <2>. HIDE DEF h
  <2>1. /\ [h EXCEPT !.verdict = Full].n = h.n /\ [h EXCEPT !.verdict = Full].of = h.of
        /\ [h EXCEPT !.verdict = Full].verdict = Full
    BY <1>2 DEF Frames
  <2>. QED
    BY <2>1
<1>4. /\ p \in {"look", "compare", "first"} /\ (ByBroker \/ ~Judges => p = "look")
      /\ (~ByBroker /\ Judges => p # "look")
  BY DEF FirstStep
<1>. HIDE DEF g, p, h
<1>5. looker'.pc = p /\ looker'.frame = g
  BY <1>1
<1>6. (ByBroker' <=> ByBroker) /\ (Judges' <=> Judges) /\ BudgetTyped'
  BY <1>1 DEF ByBroker, Judges, LookInv, BudgetTyped
<1>7. CellsTyped'
  BY <1>1 DEF LookInv, CellsTyped
<1>8. \A i \in DOMAIN waiting' : i + 1 \in DOMAIN waiting /\ waiting'[i] = waiting[i + 1]
  BY <1>1, FrontOfLine
<1>9. AllAgree'
  <2>1. \A k \in DOMAIN waiting : Agrees(waiting[k], since, view.last)
    BY DEF LookInv, AllAgree
  <2>2. Agrees(g, since, view.last)
    BY <1>2, <1>3, <2>1 DEF Agrees
  <2>3. \A i \in DOMAIN waiting' : Agrees(waiting'[i], since', view'.last)
    BY <1>1, <1>8, <2>1
  <2>. QED
    BY <1>1, <1>5, <2>2, <2>3 DEF AllAgree
<1>10. BrokerOwes'
  <2>. SUFFICES ASSUME ByBroker'
                PROVE  /\ looker'.pc \notin {"first", "compare"}
                       /\ base'.known => base'.of = view'.last
                       /\ \A c \in Cells : \/ Seen(c)' \/ since'[c] \in spoilt'
                                           \/ LinePromises(waiting', Judges', since', c) \/ HandPromises(looker', since', c)
    BY DEF BrokerOwes
  <2>1. looker'.pc = "look" /\ (base'.known => base'.of = view'.last)
    BY <1>1, <1>4, <1>5, <1>6 DEF LookInv, BrokerOwes
  <2>2. ASSUME NEW c \in Cells
        PROVE  \/ Seen(c)' \/ since'[c] \in spoilt'
               \/ LinePromises(waiting', Judges', since', c) \/ HandPromises(looker', since', c)
    <3>1. \/ Seen(c) \/ since[c] \in spoilt
          \/ LinePromises(waiting, Judges, since, c) \/ HandPromises(looker, since, c)
      BY <1>6 DEF LookInv, BrokerOwes
    <3>2. Seen(c) => Seen(c)'
      BY <1>1 DEF Seen
    <3>3. ~HandPromises(looker, since, c)
      BY <1>1 DEF HandPromises
    <3>4. ASSUME LinePromises(waiting, Judges, since, c)
          PROVE  LinePromises(waiting', Judges', since', c) \/ HandPromises(looker', since', c)
      <4>1. PICK k \in DOMAIN waiting : waiting[k].n = since[c] /\ (Judges => Cropped(waiting[k], c))
        BY <3>4 DEF LinePromises
      <4>2. CASE k = 1
        <5>1. g.n = since'[c]
          BY <1>1, <1>2, <1>3, <4>1, <4>2
        <5>2. Cropped(g, c)
          BY <1>2, <1>3, <4>1, <4>2, FullBefore
        <5>. QED
          BY <1>5, <2>1, <5>1, <5>2 DEF HandPromises
      <4>3. CASE k # 1
        <5>1. k - 1 \in DOMAIN waiting' /\ waiting'[k - 1] = waiting[k]
          <6>1. waiting \in Seq(Frames)
            BY DEF GateInv, LineFits
          <6>. QED
            BY <1>1, <4>3, <6>1
        <5>. QED
          BY <1>1, <1>6, <4>1, <5>1 DEF LinePromises
      <4>. QED
        BY <4>2, <4>3
    <3>. QED
      BY <1>1, <3>1, <3>2, <3>3, <3>4
  <2>. QED
    BY <2>1, <2>2
<1>11. SamplerOwes'
  <2>. SUFFICES ASSUME ~ByBroker' PROVE SamplerOwes'
    BY DEF SamplerOwes
  <2>1. /\ \A c \in Cells : since[c] <= judged => Seen(c) \/ since[c] \in spoilt
        /\ base.known => Judges
        /\ base.known /\ looker.pc # "look" => \A c \in Cells : Shows(base.of, c) = had[c]
    BY <1>6 DEF LookInv, SamplerOwes
  <2>2. \A c \in Cells : since'[c] <= judged' => Seen(c)' \/ since'[c] \in spoilt'
    BY <1>1, <2>1 DEF Seen
  <2>3. (looker'.pc \in {"first", "compare"} => Judges') /\ (looker'.pc = "look" => ~Judges)
    BY <1>4, <1>5, <1>6
  <2>4. looker'.pc = "look" => \A c \in Cells : Cropped(looker'.frame, c)
    BY <1>3, <1>5, <2>3, FullBefore
  <2>. QED
    BY <1>1, <1>6, <2>1, <2>2, <2>3, <2>4 DEF SamplerOwes
<1>. QED
  BY <1>6, <1>7, <1>9, <1>10, <1>11 DEF LookInv

\* The worker's gate has given its verdict on the frame in mine.
LEMMA LookGates ==
  ASSUME LookInv, GateInv, ~ByBroker, Judges, Busy, NEW V \in Verdicts,
         looker' = [looker EXCEPT !.pc = "look", !.frame = [@ EXCEPT !.verdict = V]],
         base' = Based(base, looker.frame),
         UNCHANGED <<view, taken, waiting, had, since, judged, spoilt, gateBudget>>,
         \A c \in Cells : Met(V.crops, c) \/ Shows(looker.frame.of, c) = had[c]
  PROVE  LookInv'
<1> DEFINE g == [looker.frame EXCEPT !.verdict = V]
<1>1. looker.frame \in Frames /\ looker = [pc |-> looker.pc, frame |-> looker.frame, found |-> looker.found]
  BY DEF GateInv, LookerFits
<1>2. g.n = looker.frame.n /\ g.of = looker.frame.of /\ g.verdict = V
  BY <1>1 DEF Frames
<1>3. looker' = [looker EXCEPT !.pc = "look", !.frame = g]
  OBVIOUS
<1>. HIDE DEF g
<1>4. looker'.pc = "look" /\ looker'.frame = g
  BY <1>1, <1>3
<1>5. (ByBroker' <=> ByBroker) /\ (Judges' <=> Judges) /\ BudgetTyped'
  BY DEF ByBroker, Judges, LookInv, BudgetTyped
<1>6. CellsTyped'
  BY DEF LookInv, CellsTyped
<1>7. AllAgree'
  <2>1. (\A k \in DOMAIN waiting : Agrees(waiting[k], since, view.last)) /\ Agrees(looker.frame, since, view.last)
    BY DEF LookInv, AllAgree
  <2>2. Agrees(g, since, view.last)
    BY <1>2, <2>1 DEF Agrees
  <2>. QED
    BY <1>4, <2>1, <2>2 DEF AllAgree
<1>8. BrokerOwes'
  BY <1>5 DEF BrokerOwes
<1>9. \A c \in Cells : since'[c] <= judged' => Seen(c)' \/ since'[c] \in spoilt'
  BY DEF LookInv, SamplerOwes, Seen
<1>10. \A c \in Cells : Cropped(looker'.frame, c) \/ Shows(looker'.frame.of, c) = had'[c]
  BY <1>2, <1>4, BeforeMeets
<1>11. base'.of = looker'.frame.of
  BY <1>2, <1>4 DEF Based
<1>12. SamplerOwes'
  BY <1>4, <1>5, <1>9, <1>10, <1>11 DEF SamplerOwes
<1>. QED
  BY <1>5, <1>6, <1>7, <1>8, <1>12 DEF LookInv

\* A first frame shows the detector everything.
LEMMA LookFirst == ASSUME LookInv, GateInv, GatesFirst PROVE LookInv'
<1>1. looker.pc = "first"
  BY DEF GatesFirst
<1>2. ~ByBroker /\ Judges /\ Busy
  BY <1>1 DEF LookInv, BrokerOwes, SamplerOwes, Busy
<1>3. Full \in Verdicts /\ \A c \in Cells : Met(Full.crops, c)
  BY CropsCover DEF Verdicts
<1>. QED
  BY <1>2, <1>3, LookGates DEF GatesFirst

\* What the comparison finds changed is in the crops.
LEMMA LookCompares == ASSUME LookInv, GateInv, Gates PROVE LookInv'
<1> DEFINE f == looker.frame
<1>1. looker.pc = "compare" /\ UNCHANGED <<view, taken, waiting, had, since, gateBudget>>
  BY DEF Gates
<1>2. ~ByBroker /\ Judges /\ Busy
  BY <1>1 DEF LookInv, BrokerOwes, SamplerOwes, Busy
<1>3. looker.frame \in Frames /\ looker = [pc |-> looker.pc, frame |-> looker.frame, found |-> looker.found]
  BY DEF GateInv, LookerFits
<1>4. CASE ~base.known \/ ~Comparable(base, f)
  <2>1. /\ judged' = f.n /\ spoilt' = spoilt \cup (judged + 1)..f.n /\ looker' = [looker EXCEPT !.pc = "idle"]
        /\ UNCHANGED base
    BY <1>4 DEF Gates, Fails
  <2>2. looker'.pc = "idle" /\ looker'.frame = looker.frame
    BY <1>3, <2>1
  <2>3. (ByBroker' <=> ByBroker) /\ (Judges' <=> Judges) /\ BudgetTyped'
    BY <1>1 DEF ByBroker, Judges, LookInv, BudgetTyped
  <2>4. CellsTyped'
    BY <1>1 DEF LookInv, CellsTyped
  <2>5. AllAgree'
    BY <1>1, <2>2 DEF LookInv, AllAgree, Busy
  <2>6. BrokerOwes'
    BY <1>2, <2>3 DEF BrokerOwes
  <2>7. ASSUME NEW c \in Cells, since'[c] <= judged' PROVE Seen(c)' \/ since'[c] \in spoilt'
    <3>1. judged \in Nat /\ f.n \in Nat /\ judged <= f.n /\ since[c] \in Nat
      BY <1>2, Numbered DEF LookInv, CellsTyped
    <3>2. CASE since[c] <= judged
      <4>1. Seen(c) \/ since[c] \in spoilt
        BY <1>2, <3>2 DEF LookInv, SamplerOwes
      <4>2. Seen(c) => Seen(c)'
        BY <1>1, <2>1, <2>7 DEF Seen
      <4>. QED
        BY <1>1, <2>1, <4>1, <4>2
    <3>3. CASE ~(since[c] <= judged)
      <4>1. since[c] \in (judged + 1) .. f.n
        BY <1>1, <2>1, <2>7, <3>1, <3>3
      <4>. QED
        BY <1>1, <2>1, <4>1
    <3>. QED
      BY <3>2, <3>3
  <2>8. SamplerOwes'
    BY <1>1, <1>2, <2>1, <2>2, <2>3, <2>7 DEF LookInv, SamplerOwes
  <2>. QED
    BY <2>3, <2>4, <2>5, <2>6, <2>8 DEF LookInv
<1>5. CASE base.known /\ Comparable(base, f)
  <2> DEFINE V == Verdict(base, f)
  <2>1. /\ base' = Based(base, f) /\ UNCHANGED <<judged, spoilt>>
        /\ looker' = [looker EXCEPT !.pc = "look", !.frame = [@ EXCEPT !.verdict = V]]
    BY <1>5 DEF Gates
  <2>2. V \in Verdicts
    BY <1>3, VerdictFits DEF GateInv, Frames
  <2>3. V = Compared(base.of, f.of)
    BY <1>5 DEF Verdict
  <2>4. \A c \in Cells : Shows(base.of, c) = had[c]
    BY <1>1, <1>2, <1>5 DEF LookInv, SamplerOwes
  <2>5. \A c \in Cells : Met(V.crops, c) \/ Shows(f.of, c) = had[c]
    BY <2>3, <2>4, CropsCover
  <2>. HIDE DEF V
  <2>. QED
    BY <1>1, <1>2, <2>1, <2>2, <2>5, LookGates
<1>. QED
  BY <1>4, <1>5

\* What was in the crops the detector has had.
LEMMA LookDetects == ASSUME LookInv, GateInv, Detects PROVE LookInv'
<1> DEFINE f == looker.frame
           d == SuppressNested(DetectRaw(f))
<1>1. /\ looker.pc = "look" /\ looker' = [looker EXCEPT !.pc = "found", !.found = d]
      /\ had' = [c \in Cells |-> IF Cropped(f, c) THEN Shows(f.of, c) ELSE had[c]]
      /\ judged' = f.n /\ UNCHANGED <<view, taken, base, waiting, since, spoilt, gateBudget>>
  BY DEF Detects
<1>. HIDE DEF d
<1>2. looker = [pc |-> looker.pc, frame |-> looker.frame, found |-> looker.found]
  BY DEF GateInv, LookerFits
<1>3. looker'.pc = "found" /\ looker'.frame = f
  BY <1>1, <1>2
<1>4. (ByBroker' <=> ByBroker) /\ (Judges' <=> Judges) /\ BudgetTyped'
  BY <1>1 DEF ByBroker, Judges, LookInv, BudgetTyped
<1>5. CellsTyped'
  BY <1>1 DEF LookInv, CellsTyped
<1>6. AllAgree'
  BY <1>1, <1>3 DEF LookInv, AllAgree, Busy
<1>7. Busy /\ Agrees(f, since, view.last)
  BY <1>1 DEF LookInv, AllAgree, Busy
<1>8. judged \in Nat /\ f.n \in Nat /\ judged < f.n
  BY <1>7, Numbered
<1>9. ASSUME NEW c \in Cells, since[c] <= f.n, Cropped(f, c) \/ Shows(f.of, c) = had[c] PROVE Seen(c)'
  <2>1. Shows(f.of, c) = Shows(view.last, c)
    BY <1>7, <1>9 DEF Agrees
  <2>2. had'[c] = Shows(f.of, c)
    BY <1>1, <1>9
  <2>. QED
    BY <1>1, <1>9, <2>1, <2>2 DEF Seen
<1>10. ASSUME NEW c \in Cells, Seen(c) PROVE Seen(c)'
  <2>1. since[c] \in Nat /\ since[c] <= judged /\ Shows(view.last, c) = had[c]
    BY <1>10 DEF Seen, LookInv, CellsTyped
  <2>2. since[c] <= f.n
    BY <1>8, <2>1
  <2>3. Shows(f.of, c) = had[c]
    BY <1>7, <2>1, <2>2 DEF Agrees
  <2>. QED
    BY <1>9, <2>2, <2>3
<1>11. BrokerOwes'
  <2>. SUFFICES ASSUME ByBroker'
                PROVE  /\ looker'.pc \notin {"first", "compare"}
                       /\ base'.known => base'.of = view'.last
                       /\ \A c \in Cells : \/ Seen(c)' \/ since'[c] \in spoilt'
                                           \/ LinePromises(waiting', Judges', since', c) \/ HandPromises(looker', since', c)
    BY DEF BrokerOwes
  <2>1. base'.known => base'.of = view'.last
    BY <1>1, <1>4 DEF LookInv, BrokerOwes
  <2>2. ASSUME NEW c \in Cells
        PROVE  Seen(c)' \/ since'[c] \in spoilt' \/ LinePromises(waiting', Judges', since', c)
    <3>1. \/ Seen(c) \/ since[c] \in spoilt
          \/ LinePromises(waiting, Judges, since, c) \/ HandPromises(looker, since, c)
      BY <1>4 DEF LookInv, BrokerOwes
    <3>2. ASSUME HandPromises(looker, since, c) PROVE Seen(c)'
      <4>1. since[c] <= f.n /\ Cropped(f, c)
        BY <1>8, <3>2 DEF HandPromises
      <4>. QED
        BY <1>9, <4>1
    <3>3. LinePromises(waiting, Judges, since, c) => LinePromises(waiting', Judges', since', c)
      BY <1>1, <1>4 DEF LinePromises
    <3>. QED
      BY <1>1, <1>10, <3>1, <3>2, <3>3
  <2>. QED
    BY <1>3, <2>1, <2>2
<1>12. SamplerOwes'
  <2>. SUFFICES ASSUME ~ByBroker' PROVE SamplerOwes'
    BY DEF SamplerOwes
  <2>1. /\ base.known => Judges
        /\ base.known => base.of = f.of
        /\ \A c \in Cells : Cropped(f, c) \/ Shows(f.of, c) = had[c]
    BY <1>1, <1>4 DEF LookInv, SamplerOwes
  <2>2. \A c \in Cells : since'[c] <= judged' => Seen(c)'
    BY <1>1, <1>9, <2>1
  <2>3. \A c \in Cells : had'[c] = Shows(f.of, c)
    BY <1>1, <2>1
  <2>. QED
    BY <1>1, <1>3, <1>4, <2>1, <2>2, <2>3 DEF SamplerOwes
<1>. QED
  BY <1>4, <1>5, <1>6, <1>11, <1>12 DEF LookInv

\* Every step of the gate keeps what it owes.
LEMMA LookSteps == ASSUME LookInv, GateInv, GatingNext PROVE LookInv'
BY LookMoves, LookReshapes, LookPublishes, LookMisses, LookSamples, LookReconnects, LookTakes, LookFirst, LookCompares,
   LookDetects, LookEnds DEF GatingNext

\* A step of another part leaves what the gate owes.
LEMMA LookRests == ASSUME LookInv, UNCHANGED gateVars PROVE LookInv'
<1>1. UNCHANGED <<view, taken, base, waiting, looker, had, since, judged, spoilt, gateBudget>>
  BY DEF gateVars
<1>2. BudgetTyped'
  BY <1>1 DEF LookInv, BudgetTyped
<1>. QED
  BY <1>1, <1>2, LookIdles

\* When nothing waits and nothing was lost, the detector has had every change.
LEMMA LookedAt == ASSUME LookInv, GateInv PROVE EverythingLooked
<1>. SUFFICES ASSUME NEW c \in Cells PROVE Shows(view.last, c) = had[c] \/ since[c] > judged \/ since[c] \in spoilt
  BY DEF EverythingLooked
<1>1. judged \in Nat /\ since[c] \in Nat
  BY Numbered DEF LookInv, CellsTyped
<1>2. CASE ByBroker
  <2>1. \/ Seen(c) \/ since[c] \in spoilt
        \/ LinePromises(waiting, Judges, since, c) \/ HandPromises(looker, since, c)
    BY <1>2 DEF LookInv, BrokerOwes
  <2>2. LinePromises(waiting, Judges, since, c) => since[c] > judged
    BY <1>1, Numbered DEF LinePromises
  <2>3. HandPromises(looker, since, c) => since[c] > judged
    BY <1>1, Numbered DEF HandPromises, Busy
  <2>. QED
    BY <2>1, <2>2, <2>3 DEF Seen
<1>3. CASE ~ByBroker
  <2>1. since[c] <= judged => Seen(c) \/ since[c] \in spoilt
    BY <1>3 DEF LookInv, SamplerOwes
  <2>. QED
    BY <1>1, <2>1 DEF Seen
<1>. QED
  BY <1>2, <1>3

-----------------------------------------------------------------------------
(* Boxes within boxes, and which of them stay.                                *)

\* Boxes with their corners in order, and those with something in them.
Solid(b) == b \in Crops /\ b[1] < b[3] /\ b[2] < b[4]

\* A larger box has a larger area.
LEMMA Products ==
  ASSUME NEW a \in Nat, NEW b \in Nat, NEW c \in Nat, NEW d \in Nat, a <= c, b <= d
  PROVE  /\ a * b \in Nat /\ c * d \in Nat /\ a * b <= c * d
         /\ a < c /\ 0 < d => a * b < c * d
         /\ b < d /\ 0 < c => a * b < c * d
<1>1. a * b <= c * b
  BY Scaled
<1>2. b * c <= d * c
  BY Scaled
<1>3. c * b = b * c /\ c * d = d * c /\ a * b \in Nat /\ c * d \in Nat /\ c * b \in Nat
  OBVIOUS
<1>4. ASSUME a < c, 0 < d PROVE a * b < c * d
  <2>1. (a + 1) * d = a * d + d
    BY OneMore
  <2>2. (a + 1) * d <= c * d
    BY <1>4, Scaled
  <2>3. b * a <= d * a /\ b * a = a * b /\ d * a = a * d /\ a * d \in Nat
    BY Scaled
  <2> DEFINE ab == a * b
             ad == a * d
             cd == c * d
  <2>4. ab \in Nat /\ ad \in Nat /\ cd \in Nat /\ ad + d <= cd /\ ab <= ad
    BY <1>3, <2>1, <2>2, <2>3
  <2>. HIDE DEF ab, ad, cd
  <2>5. ab < cd
    BY <2>4, <1>4
  <2>. QED
    BY <2>5 DEF ab, cd
<1>5. ASSUME b < d, 0 < c PROVE a * b < c * d
  <2>1. (b + 1) * c = b * c + c
    BY OneMore
  <2>2. (b + 1) * c <= d * c
    BY <1>5, Scaled
  <2> DEFINE ab == a * b
             bc == b * c
             cd == c * d
  <2>4. ab \in Nat /\ bc \in Nat /\ cd \in Nat /\ bc + c <= cd /\ ab <= bc
    BY <1>1, <1>3, <2>1, <2>2
  <2>. HIDE DEF ab, bc, cd
  <2>5. ab < cd
    BY <2>4, <1>5
  <2>. QED
    BY <2>5 DEF ab, cd
<1>6. a * b <= c * d
  BY <1>1, <1>2, <1>3
<1>. QED
  BY <1>3, <1>4, <1>5, <1>6

\* A box within another is no larger, and smaller unless it is the same.
LEMMA AreaGrows ==
  ASSUME NEW a \in Crops, NEW b \in Crops, LiesIn(a, b)
  PROVE  /\ Area(a) \in Nat /\ Area(b) \in Nat /\ Area(a) <= Area(b)
         /\ Solid(b) /\ a # b => Area(a) < Area(b)
<1> DEFINE w == a[3] - a[1]
           h == a[4] - a[2]
           W == b[3] - b[1]
           H == b[4] - b[2]
<1>1. w \in Nat /\ h \in Nat /\ W \in Nat /\ H \in Nat /\ w <= W /\ h <= H
  BY DEF Crops, LiesIn
<1>2. ASSUME Solid(b), a # b PROVE 0 < W /\ 0 < H /\ (w < W \/ h < H)
  <2>1. 0 < W /\ 0 < H
    BY <1>2 DEF Solid, Crops
  <2>2. ~(a[1] = b[1] /\ a[2] = b[2] /\ a[3] = b[3] /\ a[4] = b[4])
    BY <1>2 DEF Crops
  <2>3. w < W \/ h < H
    BY <2>2 DEF Crops, LiesIn
  <2>. QED
    BY <2>1, <2>3
<1>3. Area(a) = w * h /\ Area(b) = W * H
  BY DEF Area
<1>. HIDE DEF w, h, W, H
<1>. QED
  BY <1>1, <1>2, <1>3, Products

\* What two boxes share lies in both.
LEMMA SharedFits ==
  ASSUME NEW a, Solid(a), NEW c \in Crops, Meets(a, c)
  PROVE  /\ Shared(a, c) \in Crops /\ LiesIn(Shared(a, c), a) /\ LiesIn(Shared(a, c), c) /\ Meets(Shared(a, c), a)
         /\ Shared(Shared(a, c), a) = Shared(a, c)
         /\ LiesIn(a, c) => Shared(a, c) = a
<1> DEFINE x == Upper(a[1], c[1])
           y == Upper(a[2], c[2])
           z == Lower(a[3], c[3])
           w == Lower(a[4], c[4])
           s == <<x, y, z, w>>
<1>1. /\ a[1] \in Nat /\ a[2] \in Nat /\ a[3] \in Nat /\ a[4] \in Nat /\ a = <<a[1], a[2], a[3], a[4]>>
      /\ c[1] \in Nat /\ c[2] \in Nat /\ c[3] \in Nat /\ c[4] \in Nat
      /\ a[1] < a[3] /\ a[2] < a[4] /\ c[1] <= c[3] /\ c[2] <= c[4]
      /\ a[1] < c[3] /\ c[1] < a[3] /\ a[2] < c[4] /\ c[2] < a[4]
  BY DEF Solid, Crops, Meets
<1>2. /\ x \in Nat /\ y \in Nat /\ z \in Nat /\ w \in Nat /\ x <= z /\ y <= w
      /\ x >= a[1] /\ y >= a[2] /\ z <= a[3] /\ w <= a[4]
      /\ x >= c[1] /\ y >= c[2] /\ z <= c[3] /\ w <= c[4]
      /\ x < a[3] /\ y < a[4] /\ a[1] < z /\ a[2] < w
  BY <1>1 DEF Upper, Lower
<1>3. /\ a[1] >= c[1] => x = a[1]
      /\ a[2] >= c[2] => y = a[2]
      /\ a[3] <= c[3] => z = a[3]
      /\ a[4] <= c[4] => w = a[4]
  BY <1>1 DEF Upper, Lower
<1>4. Shared(a, c) = s
  BY DEF Shared
<1>. HIDE DEF x, y, z, w
<1>5. s \in Crops
  BY <1>2 DEF Crops
<1>6. LiesIn(s, a) /\ LiesIn(s, c) /\ Meets(s, a)
  BY <1>1, <1>2 DEF LiesIn, Meets
<1>7. Shared(s, a) = s
  <2>1. Upper(x, a[1]) = x /\ Upper(y, a[2]) = y /\ Lower(z, a[3]) = z /\ Lower(w, a[4]) = w
    BY <1>1, <1>2 DEF Upper, Lower
  <2>2. Shared(s, a) = <<Upper(x, a[1]), Upper(y, a[2]), Lower(z, a[3]), Lower(w, a[4])>>
    BY DEF Shared
  <2>. QED
    BY <2>1, <2>2
<1>8. LiesIn(a, c) => s = a
  BY <1>1, <1>3 DEF LiesIn
<1>. QED
  BY <1>4, <1>5, <1>6, <1>7, <1>8

\* What is shared grows with what it is shared with.
LEMMA SharedGrows ==
  ASSUME NEW a, Solid(a), NEW b \in Crops, NEW d, Solid(d), LiesIn(b, d), Meets(a, b)
  PROVE  Meets(a, d) /\ Area(Shared(a, b)) \in Nat /\ Area(Shared(a, d)) \in Nat /\ Area(Shared(a, b)) <= Area(Shared(a, d))
<1>1. Meets(a, d) /\ d \in Crops
  BY DEF Meets, LiesIn, Solid, Crops
<1>2. Shared(a, b) \in Crops /\ Shared(a, d) \in Crops
  BY <1>1, SharedFits
<1>3. LiesIn(Shared(a, b), Shared(a, d))
  <2>1. /\ a[1] \in Nat /\ a[2] \in Nat /\ a[3] \in Nat /\ a[4] \in Nat
        /\ b[1] \in Nat /\ b[2] \in Nat /\ b[3] \in Nat /\ b[4] \in Nat
        /\ d[1] \in Nat /\ d[2] \in Nat /\ d[3] \in Nat /\ d[4] \in Nat
        /\ b[1] >= d[1] /\ b[2] >= d[2] /\ b[3] <= d[3] /\ b[4] <= d[4]
    BY DEF Solid, Crops, LiesIn
  <2>2. /\ Upper(a[1], b[1]) >= Upper(a[1], d[1]) /\ Upper(a[2], b[2]) >= Upper(a[2], d[2])
        /\ Lower(a[3], b[3]) <= Lower(a[3], d[3]) /\ Lower(a[4], b[4]) <= Lower(a[4], d[4])
    BY <2>1 DEF Upper, Lower
  <2>. QED
    BY <2>2 DEF Shared, LiesIn
<1>. QED
  BY <1>1, <1>2, <1>3, AreaGrows

\* A list in which something always comes first has a kernel: who is kept is who no kept one before it covers.
LEMMA Kernel ==
  ASSUME NEW n \in Nat, NEW W, NEW Q,
         \A S \in SUBSET (1 .. n) : S # {} => \E x \in S : \A y \in S : <<y, x>> \notin W
  PROVE  \E K \in SUBSET (1 .. n) : \A i \in 1 .. n : i \in K <=> \A j \in K : <<j, i>> \in W => <<i, j>> \notin Q
<1> DEFINE D == 1 .. n
           Down(A) == \A i \in A, j \in D : <<j, i>> \in W => j \in A
           Kept(A, K) == \A i \in A : i \in K <=> \A j \in K : <<j, i>> \in W => <<i, j>> \notin Q
           P(k) == \E A \in SUBSET D, K \in SUBSET D : K \subseteq A /\ Cardinality(A) = k /\ Down(A) /\ Kept(A, K)
           I == {k \in 0 .. n : P(k)}
<1>1. IsFiniteSet(D) /\ Cardinality(D) = n
  <2>1. 1 \in Int /\ n \in Int /\ Cardinality(1 .. n) = IF 1 > n THEN 0 ELSE n - 1 + 1
    BY FS_Interval
  <2>2. IsFiniteSet(1 .. n)
    BY FS_Interval
  <2>. QED
    BY <2>1, <2>2
<1>2. P(0)
  <2>1. Cardinality({}) = 0
    BY FS_EmptySet
  <2>. QED
    BY <2>1
<1>3. ASSUME NEW k \in 1 .. n, P(k - 1) PROVE P(k)
  <2>1. PICK A \in SUBSET D, K \in SUBSET D : K \subseteq A /\ Cardinality(A) = k - 1 /\ Down(A) /\ Kept(A, K)
    BY <1>3
  <2>2. D \ A # {}
    <3>1. Cardinality(A) # Cardinality(D)
      BY <1>1, <2>1
    <3>. QED
      BY <3>1
  <2>3. PICK x \in D \ A : \A y \in D \ A : <<y, x>> \notin W
    BY <2>2
  <2> DEFINE stays == \A j \in K : <<j, x>> \in W => <<x, j>> \notin Q
             L == IF stays THEN K \cup {x} ELSE K
             B == A \cup {x}
  <2>4. Down(B)
    BY <2>1, <2>3
  <2>5. Cardinality(B) = k
    <3>1. IsFiniteSet(A)
      BY <1>1, FS_Subset
    <3>2. Cardinality(A \cup {x}) = Cardinality(A) + 1
      BY <2>3, <3>1, FS_AddElement
    <3>. QED
      BY <2>1, <3>2
  <2>6. \A i \in A : <<x, i>> \notin W
    BY <2>1, <2>3
  <2>7. <<x, x>> \notin W
    BY <2>3
  <2>8. \A i \in A : i \in L <=> i \in K
    BY <2>3
  <2>9. \A j \in L : j \in K \/ j = x
    OBVIOUS
  <2>10. x \in L <=> stays
    BY <2>1, <2>3
  <2>11. L \subseteq B /\ L \in SUBSET D /\ B \in SUBSET D /\ K \subseteq L
    BY <2>1
  <2>12. Kept(B, L)
    <3>. HIDE DEF L
    <3>1. ASSUME NEW i \in A PROVE i \in L <=> \A j \in L : <<j, i>> \in W => <<i, j>> \notin Q
      <4>1. i \in K <=> \A j \in K : <<j, i>> \in W => <<i, j>> \notin Q
        BY <2>1
      <4>. QED
        BY <4>1, <2>6, <2>8, <2>9, <2>11
    <3>2. x \in L <=> \A j \in L : <<j, x>> \in W => <<x, j>> \notin Q
      BY <2>7, <2>9, <2>10, <2>11
    <3>. QED
      BY <3>1, <3>2
  <2>. HIDE DEF L, B, Down, Kept
  <2>. QED
    BY <2>4, <2>5, <2>11, <2>12
<1>. HIDE DEF P
<1>4. I \in SUBSET (0 .. n) /\ 0 \in I /\ \A k \in 1 .. n : k - 1 \in I => k \in I
  BY <1>2, <1>3
<1>. HIDE DEF I
<1>5. \A k \in 0 .. n : k \in I
  BY <1>4, StepByStep
<1>6. P(n)
  BY <1>5 DEF I
<1>7. PICK A \in SUBSET D, K \in SUBSET D : K \subseteq A /\ Cardinality(A) = n /\ Kept(A, K)
  BY <1>6 DEF P
<1>8. A = D
  BY <1>1, <1>7, FS_Subset
<1>. QED
  BY <1>7, <1>8

\* Of some boxes there is a largest, and of the largest a first.
SoonerOf(found, i, j) ==
  Area(found[i].box) > Area(found[j].box) \/ (Area(found[i].box) = Area(found[j].box) /\ i < j)
KeptOf(found, K) ==
  \A i \in DOMAIN found : i \in K <=> \A j \in K : SoonerOf(found, j, i) => ~Rivals(found[i], found[j])

\* Of some detections one comes first.
LEMMA SoonestOf ==
  ASSUME NEW n \in Nat, NEW found, \A i \in 1 .. n : Area(found[i].box) \in Nat,
         NEW S \in SUBSET (1 .. n), S # {}
  PROVE  \E x \in S : \A y \in S : ~SoonerOf(found, y, x)
<1> DEFINE P(k) == S \cap (1 .. k) # {} => \E x \in S \cap (1 .. k) : \A y \in S \cap (1 .. k) : ~SoonerOf(found, y, x)
           I == {k \in 0 .. n : P(k)}
<1>1. P(0)
  OBVIOUS
<1>2. ASSUME NEW k \in 1 .. n, P(k - 1) PROVE P(k)
  <2>1. S \cap (1 .. k) = IF k \in S THEN (S \cap (1 .. k - 1)) \cup {k} ELSE S \cap (1 .. k - 1)
    OBVIOUS
  <2>2. ~SoonerOf(found, k, k)
    BY DEF SoonerOf
  <2>3. CASE k \in S /\ S \cap (1 .. k - 1) # {}
    <3>1. PICK x \in S \cap (1 .. k - 1) : \A y \in S \cap (1 .. k - 1) : ~SoonerOf(found, y, x)
      BY <1>2, <2>3
    <3>2. ASSUME SoonerOf(found, k, x), NEW y \in S \cap (1 .. k - 1) PROVE ~SoonerOf(found, y, k)
      <4>1. x \in 1 .. n /\ y \in 1 .. n /\ ~SoonerOf(found, y, x)
        BY <3>1
      <4> DEFINE a == Area(found[x].box)
                 b == Area(found[y].box)
                 c == Area(found[k].box)
      <4>2. a \in Nat /\ b \in Nat /\ c \in Nat
        BY <4>1
      <4>3. /\ SoonerOf(found, k, x) <=> c > a \/ (c = a /\ k < x)
            /\ SoonerOf(found, y, x) <=> b > a \/ (b = a /\ y < x)
            /\ SoonerOf(found, y, k) <=> b > c \/ (b = c /\ y < k)
        BY DEF SoonerOf
      <4>. HIDE DEF a, b, c
      <4>. QED
        BY <3>2, <4>1, <4>2, <4>3
    <3>3. CASE SoonerOf(found, k, x)
      BY <2>1, <2>2, <2>3, <3>2, <3>3
    <3>4. CASE ~SoonerOf(found, k, x)
      BY <2>1, <2>3, <3>1, <3>4
    <3>. QED
      BY <3>3, <3>4
  <2>4. CASE k \in S /\ S \cap (1 .. k - 1) = {}
    BY <2>1, <2>2, <2>4
  <2>5. CASE k \notin S
    BY <1>2, <2>1, <2>5
  <2>. QED
    BY <2>3, <2>4, <2>5
<1>. HIDE DEF P
<1>3. I \in SUBSET (0 .. n) /\ 0 \in I /\ \A k \in 1 .. n : k - 1 \in I => k \in I
  BY <1>1, <1>2
<1>. HIDE DEF I
<1>4. \A k \in 0 .. n : k \in I
  BY <1>3, StepByStep
<1>5. P(n)
  BY <1>4 DEF I
<1>6. S \cap (1 .. n) = S
  OBVIOUS
<1>. QED
  BY <1>5, <1>6 DEF P

\* So there is always something to keep, and what is kept is that.
LEMMA KeepsAll ==
  ASSUME NEW n \in Nat, NEW found, DOMAIN found = 1 .. n, \A i \in 1 .. n : Area(found[i].box) \in Nat
  PROVE  \E K \in SUBSET (1 .. n) : KeptOf(found, K) /\ SuppressNested(found) = {found[i] : i \in K}
<1> DEFINE W == {p \in (1 .. n) \X (1 .. n) : SoonerOf(found, p[1], p[2])}
           Q == {p \in (1 .. n) \X (1 .. n) : Rivals(found[p[1]], found[p[2]])}
<1>1. \A i, j \in 1 .. n : (<<i, j>> \in W <=> SoonerOf(found, i, j)) /\ (<<i, j>> \in Q <=> Rivals(found[i], found[j]))
  OBVIOUS
<1>. HIDE DEF W, Q
<1>2. ASSUME NEW S \in SUBSET (1 .. n), S # {} PROVE \E x \in S : \A y \in S : <<y, x>> \notin W
  <2>1. PICK x \in S : \A y \in S : ~SoonerOf(found, y, x)
    BY <1>2, SoonestOf
  <2>. QED
    BY <1>1, <2>1
<1>3. PICK K \in SUBSET (1 .. n) : \A i \in 1 .. n : i \in K <=> \A j \in K : <<j, i>> \in W => <<i, j>> \notin Q
  BY <1>2, Kernel
<1>4. KeptOf(found, K)
  BY <1>1, <1>3 DEF KeptOf
<1> DEFINE C == CHOOSE L \in SUBSET DOMAIN found : KeptOf(found, L)
<1>5. C \in SUBSET (1 .. n) /\ KeptOf(found, C)
  BY <1>4
<1>6. SuppressNested(found) = {found[i] : i \in C}
  BY DEF SuppressNested, KeptOf, SoonerOf
<1>. HIDE DEF C
<1>. QED
  BY <1>5, <1>6

\* What the detector finds, where the picture has it.
Sight(v, t, crop) == [t |-> t, box |-> Shared(InPixels(v[t]), crop)]
Sighted(v, crop) == {t \in DOMAIN v : Part(v, t) # {} /\ Meets(InPixels(v[t]), crop)}
Sights(v, crop) == {Sight(v, t, crop) : t \in Sighted(v, crop)}
PlacedAll(v, crop) == [j \in DOMAIN Found(v, crop) |-> Placed(Found(v, crop)[j], crop)]

\* A finite set of numbers has a greatest.
LEMMA FiniteHasGreatest ==
  ASSUME NEW T \in SUBSET Nat, IsFiniteSet(T), T # {}
  PROVE  \E x \in T : \A y \in T : y <= x
<1> DEFINE s == SetToSeq(T)
           n == Len(s)
           I == {k \in 0 .. n : k = 0 \/ \E i \in 1 .. k : \A j \in 1 .. k : s[j] <= s[i]}
<1>1. s \in Seq(T) /\ \A x \in T : \E i \in DOMAIN s : s[i] = x
  BY ListsAll
<1>. HIDE DEF s
<1>2. n \in Nat /\ DOMAIN s = 1 .. n /\ \A i \in 1 .. n : s[i] \in T /\ s[i] \in Nat
  <2>1. s \in Seq(T)
    BY <1>1
  <2>2. n \in Nat /\ DOMAIN s = 1 .. n /\ \A i \in 1 .. n : s[i] \in T
    BY <2>1
  <2>. QED
    BY <2>2
<1>. HIDE DEF n
<1>3. ASSUME NEW k \in 1 .. n, k - 1 \in I PROVE k \in I
  <2>1. CASE k = 1
    BY <1>2, <2>1
  <2>2. CASE k # 1
    <3>1. PICK i \in 1 .. k - 1 : \A j \in 1 .. k - 1 : s[j] <= s[i]
      BY <1>3, <2>2
    <3>2. i \in 1 .. k /\ k \in 1 .. k /\ s[i] \in Nat /\ s[k] \in Nat
      BY <1>2, <3>1
    <3>3. \A j \in 1 .. k : s[j] \in Nat /\ (j = k \/ s[j] <= s[i])
      BY <1>2, <3>1
    <3>4. CASE s[k] <= s[i]
      BY <3>2, <3>3, <3>4
    <3>5. CASE s[i] <= s[k]
      <4>1. \A j \in 1 .. k : s[j] <= s[k]
        BY <3>2, <3>3, <3>5
      <4>. QED
        BY <3>2, <4>1
    <3>. QED
      BY <3>2, <3>4, <3>5
  <2>. QED
    BY <2>1, <2>2
<1>4. I \in SUBSET (0 .. n) /\ 0 \in I
  BY <1>2
<1>. HIDE DEF I
<1>5. \A k \in 0 .. n : k \in I
  BY <1>2, <1>3, <1>4, StepByStep
<1>6. n \in I /\ n # 0
  <2>1. n \in 0 .. n
    BY <1>2
  <2>2. PICK x \in T : TRUE
    OBVIOUS
  <2>3. \E i \in 1 .. n : s[i] = x
    BY <1>1, <1>2
  <2>. QED
    BY <1>2, <1>5, <2>1, <2>3
<1>7. PICK i \in 1 .. n : \A j \in 1 .. n : s[j] <= s[i]
  BY <1>6 DEF I
<1>. QED
  BY <1>1, <1>2, <1>7

\* What is in a picture has room there.
LEMMA ThingsFit ==
  ASSUME NEW v \in Pictures, NEW t \in DOMAIN v
  PROVE  /\ IsFiniteSet(DOMAIN v) /\ InPixels(v[t]) \in Nat \X Nat \X Nat \X Nat
         /\ Part(v, t) # {} => Solid(InPixels(v[t]))
<1>1. v \in Views
  BY DEF Pictures
<1>2. IsFiniteSet(DOMAIN v) /\ DOMAIN v \subseteq Nat \ {0} /\ v[t] \in Nat \X Nat \X Nat \X Nat /\ Grain \in Nat \ {0}
  BY <1>1, GatingAssumption
<1> DEFINE b == v[t]
           x == b[1] * Grain
           y == b[2] * Grain
           z == b[3] * Grain
           w == b[4] * Grain
<1>3. b[1] \in Nat /\ b[2] \in Nat /\ b[3] \in Nat /\ b[4] \in Nat
  BY <1>2
<1>4. x \in Nat /\ y \in Nat /\ z \in Nat /\ w \in Nat
  BY <1>2, <1>3
<1>5. InPixels(b) = <<x, y, z, w>>
  BY DEF InPixels
<1>6. ASSUME Part(v, t) # {} PROVE b[1] < b[3] /\ b[2] < b[4]
  <2>1. PICK c \in Cells : Shows(v, c) = t
    BY <1>6 DEF Part
  <2> DEFINE here == {u \in DOMAIN v : Meets(<<c[1], c[2], c[1] + 1, c[2] + 1>>, v[u])}
             top == CHOOSE u \in here : \A s \in here : s <= u
  <2>2. Shows(v, c) = IF here = {} THEN 0 ELSE top
    BY DEF Shows
  <2>3. here # {} /\ top = t
    BY <1>2, <2>1, <2>2
  <2>4. \E u \in here : \A s \in here : s <= u
    <3>1. IsFiniteSet(here)
      BY <1>2, FS_Subset
    <3>2. here \in SUBSET Nat
      BY <1>2
    <3>. HIDE DEF here
    <3>. QED
      BY <2>3, <3>1, <3>2, FiniteHasGreatest
  <2>5. t \in here
    <3>. HIDE DEF here
    <3>. QED
      BY <2>3, <2>4
  <2>6. Meets(<<c[1], c[2], c[1] + 1, c[2] + 1>>, b) /\ c[1] \in Nat /\ c[2] \in Nat
    BY <2>5, GatingAssumption DEF Cells
  <2>7. c[1] < b[3] /\ b[1] < c[1] + 1 /\ c[2] < b[4] /\ b[2] < c[2] + 1
    BY <2>6 DEF Meets
  <2>. QED
    BY <1>3, <2>6, <2>7
<1>7. ASSUME b[1] < b[3], b[2] < b[4] PROVE x < z /\ y < w
  <2>1. /\ (b[1] + 1) * Grain = b[1] * Grain + Grain /\ (b[1] + 1) * Grain <= b[3] * Grain
        /\ (b[2] + 1) * Grain = b[2] * Grain + Grain /\ (b[2] + 1) * Grain <= b[4] * Grain
    BY <1>2, <1>3, <1>7, OneMore, Scaled
  <2>2. x + Grain <= z /\ y + Grain <= w
    BY <2>1
  <2>. HIDE DEF x, y, z, w
  <2>. QED
    BY <1>2, <1>4, <2>2
<1>. HIDE DEF x, y, z, w
<1>8. Part(v, t) # {} => Solid(<<x, y, z, w>>)
  BY <1>4, <1>6, <1>7 DEF Solid, Crops
<1>. QED
  BY <1>2, <1>4, <1>5, <1>8

\* A crop's boxes are put back where the crop was taken.
LEMMA PlacedBack ==
  ASSUME NEW t, NEW b \in Crops, NEW crop \in Crops, LiesIn(b, crop)
  PROVE  Placed([t |-> t, box |-> <<b[1] - crop[1], b[2] - crop[2], b[3] - crop[1], b[4] - crop[2]>>], crop)
           = [t |-> t, box |-> b]
<1> DEFINE x == b[1] - crop[1]
           y == b[2] - crop[2]
           z == b[3] - crop[1]
           w == b[4] - crop[2]
           d == [t |-> t, box |-> <<x, y, z, w>>]
<1>1. /\ x + crop[1] = b[1] /\ y + crop[2] = b[2] /\ z + crop[1] = b[3] /\ w + crop[2] = b[4]
      /\ b = <<b[1], b[2], b[3], b[4]>>
  BY DEF Crops
<1>. HIDE DEF x, y, z, w
<1>2. d.t = t /\ d.box[1] = x /\ d.box[2] = y /\ d.box[3] = z /\ d.box[4] = w
  OBVIOUS
<1>3. Placed(d, crop) = [d EXCEPT !.box = <<x + crop[1], y + crop[2], z + crop[1], w + crop[2]>>]
  BY <1>2 DEF Placed
<1>4. Placed(d, crop) = [t |-> t, box |-> <<x + crop[1], y + crop[2], z + crop[1], w + crop[2]>>]
  BY <1>3
<1>5. Placed(d, crop) = [t |-> t, box |-> b]
  BY <1>1, <1>4
<1>. QED
  BY <1>5 DEF x, y, z, w

\* The detections of a crop are the things it sees, each once.
LEMMA CropTold ==
  ASSUME NEW v \in Pictures, NEW crop \in Crops
  PROVE  /\ PlacedAll(v, crop) \in Seq(Sights(v, crop))
         /\ \A x \in Sights(v, crop) : \E j \in DOMAIN PlacedAll(v, crop) : PlacedAll(v, crop)[j] = x
<1> DEFINE seen == Sighted(v, crop)
           local(t) == [t |-> t, box |-> <<Shared(InPixels(v[t]), crop)[1] - crop[1], Shared(InPixels(v[t]), crop)[2] - crop[2],
                                           Shared(InPixels(v[t]), crop)[3] - crop[1], Shared(InPixels(v[t]), crop)[4] - crop[2]>>]
           L == {local(t) : t \in seen}
           d == SetToSeq(L)
<1>1. Found(v, crop) = d
  BY DEF Found, Sighted
<1>2. ASSUME NEW t \in seen PROVE Placed(local(t), crop) = Sight(v, t, crop)
  <2> DEFINE b == Shared(InPixels(v[t]), crop)
  <2>1. t \in DOMAIN v /\ Part(v, t) # {} /\ Meets(InPixels(v[t]), crop)
    BY DEF Sighted
  <2>2. Solid(InPixels(v[t]))
    BY <2>1, ThingsFit
  <2>3. b \in Crops /\ LiesIn(b, crop)
    BY <2>1, <2>2, SharedFits
  <2>. HIDE DEF b
  <2>4. Placed([t |-> t, box |-> <<b[1] - crop[1], b[2] - crop[2], b[3] - crop[1], b[4] - crop[2]>>], crop)
          = [t |-> t, box |-> b]
    BY <2>3, PlacedBack
  <2>. QED
    BY <2>4 DEF b, Sight
<1>3. IsFiniteSet(L)
  <2>1. IsFiniteSet(DOMAIN v)
    <3>1. CASE v \in Views
      BY <3>1, GatingAssumption
    <3>2. CASE v = <<>>
      <4>1. DOMAIN v = {}
        BY <3>2
      <4>. QED
        BY <4>1, FS_EmptySet
    <3>. QED
      BY <3>1, <3>2 DEF Pictures
  <2>2. IsFiniteSet(seen)
    BY <2>1, FS_Subset DEF Sighted
  <2> DEFINE g == [t \in seen |-> local(t)]
  <2>. HIDE DEF seen, local
  <2>3. g \in Surjection(seen, L)
    BY DEF Surjection
  <2>. QED
    BY <2>2, <2>3, FS_Surjection
<1>4. d \in Seq(L) /\ \A x \in L : \E j \in DOMAIN d : d[j] = x
  <2>. HIDE DEF L
  <2>. QED
    BY <1>3, ListsAll
<1>5. PlacedAll(v, crop) = [j \in DOMAIN d |-> Placed(d[j], crop)]
  BY <1>1 DEF PlacedAll
<1>. HIDE DEF d
<1>6. \A j \in DOMAIN d : \E t \in seen : d[j] = local(t)
  BY <1>4
<1>7. \A t \in seen : \E j \in DOMAIN d : d[j] = local(t)
  BY <1>4
<1>8. \E m \in Nat : DOMAIN d = 1 .. m
  <2>. HIDE DEF L
  <2>. QED
    BY <1>4
<1>. HIDE DEF local, L
<1> DEFINE S == Sights(v, crop)
<1>9. \A t \in seen : Sight(v, t, crop) \in S
  BY DEF Sights
<1>10. \A x \in S : \E t \in seen : x = Sight(v, t, crop)
  BY DEF Sights
<1>. HIDE DEF S, seen
<1>11. \A j \in DOMAIN d : Placed(d[j], crop) \in S
  BY <1>2, <1>6, <1>9
<1>12. PlacedAll(v, crop) \in Seq(S)
  BY <1>5, <1>8, <1>11
<1>13. \A x \in S : \E j \in DOMAIN PlacedAll(v, crop) : PlacedAll(v, crop)[j] = x
  BY <1>2, <1>5, <1>7, <1>10
<1>. QED
  BY <1>12, <1>13 DEF S

\* What is detected in a frame is what each of its crops shows.
LEMMA FrameTold ==
  ASSUME NEW f, f.of \in Pictures, f.verdict.crops \in Seq(Crops)
  PROVE  /\ \E m \in Nat : DOMAIN DetectRaw(f) = 1 .. m
         /\ \A j \in DOMAIN DetectRaw(f) : \E i \in DOMAIN f.verdict.crops : DetectRaw(f)[j] \in Sights(f.of, f.verdict.crops[i])
         /\ \A i \in DOMAIN f.verdict.crops : \A x \in Sights(f.of, f.verdict.crops[i]) :
              \E j \in DOMAIN DetectRaw(f) : DetectRaw(f)[j] = x
<1> DEFINE crops == f.verdict.crops
           n == Len(crops)
           of(i) == PlacedAll(f.of, crops[i])
           S(i) == Sights(f.of, crops[i])
           X == UNION {S(i) : i \in DOMAIN crops}
           V == Seq(X)
           E(g) == g = [i \in 0 .. n |-> IF i = 0 THEN <<>> ELSE g[i - 1] \o of(i)]
           F == CHOOSE g : E(g)
           step == [x \in (1 .. n) \X V |-> x[2] \o of(x[1])]
           none == <<>>
<1>1. n \in Nat /\ DOMAIN crops = 1 .. n /\ \A i \in 1 .. n : crops[i] \in Crops
  OBVIOUS
<1>2. DetectRaw(f) = F[n]
  BY DEF DetectRaw, PlacedAll
<1>. HIDE DEF n, crops
<1>3. ASSUME NEW i \in 1 .. n
      PROVE of(i) \in Seq(S(i)) /\ \A x \in S(i) : \E j \in DOMAIN of(i) : of(i)[j] = x
  BY <1>1, CropTold
<1>4. \A i \in 1 .. n : \A x \in S(i) : x \in X
  BY <1>1, Zenon
<1>. HIDE DEF S, of, X
<1>5. \A i \in 1 .. n : of(i) \in Seq(X)
  <2>. SUFFICES ASSUME NEW i \in 1 .. n PROVE of(i) \in Seq(X)
    OBVIOUS
  <2>1. of(i) \in Seq(S(i)) /\ S(i) \subseteq X
    BY <1>3, <1>4
  <2>. QED
    BY <2>1
<1>6. \A k \in 1 .. n, v \in V : v \o of(k) \in V
  BY <1>5
<1>7. none \in V
  OBVIOUS
<1>. HIDE DEF none, V
<1>8. step \in [(1 .. n) \X V -> V]
  BY <1>6
<1>9. \A k \in 1 .. n, v \in V : step[<<k, v>>] = v \o of(k)
  OBVIOUS
<1>. HIDE DEF step
<1>10. PICK g \in [0 .. n -> V] : g[0] = none /\ \A k \in 1 .. n : g[k] = step[<<k, g[k - 1]>>]
  <2>. HIDE DEF E, F
  <2>1. Unrolls(V, none, n, step)
    BY <1>1, <1>7, <1>8, Unrolled
  <2>. QED
    BY <2>1 DEF Unrolls
<1>11. E(F)
  <2>0. g[0] = <<>>
    BY <1>10 DEF none
  <2>1. E(g)
    <3>1. ASSUME NEW k \in 1 .. n PROVE g[k] = g[k - 1] \o of(k)
      <4>1. k - 1 \in 0 .. n
        BY <1>1
      <4>2. g[k - 1] \in V
        BY <4>1, <1>10
      <4>. QED
        BY <1>9, <1>10, <4>2
    <3>2. g = [k \in 0 .. n |-> g[k]] /\ \A k \in 0 .. n : k = 0 \/ k \in 1 .. n
      BY <1>1, <1>10
    <3>. QED
      BY <1>10, <2>0, <3>1, <3>2
  <2>. HIDE DEF E
  <2>. QED
    BY <2>1, Zenon
<1>. HIDE DEF F
<1>12. /\ F[0] = <<>>
       /\ \A k \in 1 .. n : F[k] = F[k - 1] \o of(k)
  <2>1. n \in Nat /\ 0 \in 0 .. n /\ \A k \in 1 .. n : k \in 0 .. n /\ k # 0
    BY <1>1
  <2>. QED
    BY <1>11, <2>1
<1>. HIDE DEF E
<1> DEFINE Lists(s, k) == /\ s \in Seq(X)
                          /\ \A j \in DOMAIN s : \E i \in 1 .. k : s[j] \in S(i)
                          /\ \A i \in 1 .. k : \A x \in S(i) : \E j \in DOMAIN s : s[j] = x
           I == {k \in 0 .. n : Lists(F[k], k)}
<1>13. \A k \in 0 .. n : k \in I
  <2>1. 0 \in I
    <3>1. F[0] = <<>> /\ <<>> \in Seq(X) /\ DOMAIN <<>> = {}
      BY <1>12
    <3>. QED
      BY <1>1, <3>1
  <2>2. ASSUME NEW k \in 1 .. n, k - 1 \in I PROVE k \in I
    <3> DEFINE a == F[k - 1]
               b == of(k)
               c == a \o b
    <3>1. Lists(a, k - 1)
      BY <2>2
    <3>2. F[k] = c
      BY <1>12
    <3>3. b \in Seq(X) /\ b \in Seq(S(k)) /\ \A x \in S(k) : \E j \in DOMAIN b : b[j] = x
      BY <1>3, <1>5
    <3>. HIDE DEF a, b
    <3>4. /\ c \in Seq(X) /\ DOMAIN c = 1 .. Len(a) + Len(b) /\ Len(a) \in Nat /\ Len(b) \in Nat
          /\ \A j \in 1 .. Len(a) : c[j] = a[j]
          /\ \A j \in 1 .. Len(b) : c[Len(a) + j] = b[j]
          /\ DOMAIN a = 1 .. Len(a) /\ DOMAIN b = 1 .. Len(b)
      BY <3>1, <3>3
    <3>. HIDE DEF c
    <3>5. ASSUME NEW j \in DOMAIN c PROVE \E i \in 1 .. k : c[j] \in S(i)
      <4>1. CASE j \in 1 .. Len(a)
        <5>1. \E i \in 1 .. k - 1 : a[j] \in S(i)
          BY <3>1, <3>4, <4>1
        <5>. QED
          BY <3>4, <4>1, <5>1
      <4>2. CASE j \notin 1 .. Len(a)
        <5>1. j - Len(a) \in 1 .. Len(b) /\ j = Len(a) + (j - Len(a))
          BY <3>4, <4>2
        <5>2. c[j] = b[j - Len(a)]
          BY <3>4, <5>1
        <5>3. b[j - Len(a)] \in S(k)
          BY <3>3, <3>4, <5>1
        <5>. QED
          BY <5>2, <5>3
      <4>. QED
        BY <4>1, <4>2
    <3>6. ASSUME NEW i \in 1 .. k, NEW x \in S(i) PROVE \E j \in DOMAIN c : c[j] = x
      <4>1. CASE i = k
        <5>1. PICK j \in 1 .. Len(b) : b[j] = x
          BY <3>3, <3>4, <4>1
        <5>2. Len(a) + j \in DOMAIN c
          BY <3>4
        <5>. QED
          BY <3>4, <5>1, <5>2
      <4>2. CASE i # k
        <5>1. i \in 1 .. k - 1
          BY <4>2
        <5>2. PICK j \in 1 .. Len(a) : a[j] = x
          BY <3>1, <3>4, <5>1
        <5>3. j \in DOMAIN c
          BY <3>4
        <5>. QED
          BY <3>4, <5>2, <5>3
      <4>. QED
        BY <4>1, <4>2
    <3>7. Lists(F[k], k)
      BY <3>2, <3>4, <3>5, <3>6
    <3>8. k \in 0 .. n
      BY <1>1
    <3>. HIDE DEF Lists
    <3>. QED
      BY <3>7, <3>8
  <2>3. I \in SUBSET (0 .. n)
    OBVIOUS
  <2>. HIDE DEF I
  <2>. QED
    BY <1>1, <2>1, <2>2, <2>3, StepByStep
<1>14. Lists(F[n], n)
  <2>1. n \in 0 .. n
    BY <1>1
  <2>. HIDE DEF Lists
  <2>. QED
    BY <1>13, <2>1
<1>15. \E m \in Nat : DOMAIN F[n] = 1 .. m
  BY <1>14
<1>. QED
  BY <1>1, <1>2, <1>14, <1>15 DEF S, crops

-----------------------------------------------------------------------------
(* Of what the detector finds in a frame, one box stays for each thing of     *)
(* which a crop shows the whole: the whole one, which is larger than any part *)
(* of it, and which nothing but a box of another thing could have covered.    *)

LEMMA CropsFit == ASSUME NEW f \in Frames PROVE f.verdict.crops \in Seq(Crops) /\ f.of \in Pictures
<1>1. f.verdict \in Verdicts /\ f.of \in Pictures
  BY DEF Frames
<1>2. \A v, w : Compared(v, w).crops \in Seq(Crops)
  BY CropsCover
<1>3. Full.crops \in Seq(Crops)
  BY CropsCover
<1>4. Skip.crops \in Seq(Crops)
  BY DEF Skip
<1>. QED
  BY <1>1, <1>2, <1>3, <1>4 DEF Verdicts

\* A box that covers another, and is larger, still does if all of its thing shows.
LEMMA CoveredWhole ==
  ASSUME NEW a, Solid(a), NEW b \in Crops, NEW d, Solid(d), LiesIn(b, d), Area(b) >= Area(a), Contained(a, b)
  PROVE  Contained(a, d)
<1>1. Meets(a, d) /\ Area(Shared(a, b)) \in Nat /\ Area(Shared(a, d)) \in Nat /\ Area(Shared(a, b)) <= Area(Shared(a, d))
  BY SharedGrows DEF Contained
<1>2. a \in Crops /\ d \in Crops /\ LiesIn(a, a)
  BY DEF Solid, LiesIn, Crops
<1>3. Area(b) \in Nat /\ Area(d) \in Nat /\ Area(b) <= Area(d) /\ Area(a) \in Nat
  BY <1>2, AreaGrows
<1>4. Lower(Area(a), Area(b)) = Area(a) /\ Lower(Area(a), Area(d)) = Area(a)
  BY <1>3 DEF Lower
<1>5. Area(Shared(a, b)) * 100 >= Nested * Area(a)
  BY <1>4 DEF Contained
<1>6. Area(Shared(a, d)) * 100 >= Nested * Area(a)
  <2> DEFINE x == Area(Shared(a, b))
             y == Area(Shared(a, d))
             m == Nested * Area(a)
  <2>1. x \in Nat /\ y \in Nat /\ x <= y /\ x * 100 >= m
    BY <1>1, <1>5
  <2>2. m \in Nat
    BY <1>3, GatingAssumption
  <2>. HIDE DEF x, y, m
  <2>3. y * 100 >= m
    BY <2>1, <2>2
  <2>. QED
    BY <2>3 DEF y, m
<1>. QED
  BY <1>1, <1>4, <1>6 DEF Contained

\* A part of a box is covered by it.
LEMMA CoveredPart ==
  ASSUME NEW a, Solid(a), NEW b \in Crops, LiesIn(b, a), Meets(b, a), Shared(b, a) = b
  PROVE  Contained(b, a)
<1>1. Area(b) \in Nat /\ Area(a) \in Nat /\ Area(b) <= Area(a)
  BY AreaGrows DEF Solid
<1>2. Lower(Area(b), Area(a)) = Area(b)
  BY <1>1 DEF Lower
<1>3. Area(b) * 100 >= Nested * Area(b)
  <2>1. Nested \in Nat /\ Nested <= 100
    BY GatingAssumption
  <2>2. Nested * Area(b) <= 100 * Area(b)
    BY <1>1, <2>1, Scaled
  <2>3. 100 * Area(b) = Area(b) * 100
    BY <1>1
  <2>. QED
    BY <2>2, <2>3
<1>. QED
  BY <1>2, <1>3 DEF Contained

\* A thing that lies whole in a crop is told with its own box, and with no other (pipeline.py, suppress_nested).
LEMMA OneBoxOf ==
  ASSUME NEW f \in Frames, NEW t \in DOMAIN f.of, Part(f.of, t) # {},
         NEW k \in DOMAIN f.verdict.crops, LiesIn(InPixels(f.of[t]), f.verdict.crops[k]),
         ~WithinAnother(f.of, t)
  PROVE  {d.box : d \in {e \in SuppressNested(DetectRaw(f)) : e.t = t}} = {InPixels(f.of[t])}
<1> DEFINE v == f.of
           crops == f.verdict.crops
           whole == InPixels(v[t])
           found == DetectRaw(f)
<1>1. crops \in Seq(Crops) /\ v \in Pictures
  BY CropsFit
<1>2. PICK n \in Nat : DOMAIN found = 1 .. n
  BY <1>1, FrameTold
<1>3. Solid(whole)
  BY <1>1, ThingsFit
<1>4. ASSUME NEW i \in 1 .. n
      PROVE  /\ found[i].t \in DOMAIN v /\ found[i].box \in Crops
             /\ Solid(InPixels(v[found[i].t])) /\ LiesIn(found[i].box, InPixels(v[found[i].t]))
             /\ found[i] = [t |-> found[i].t, box |-> found[i].box]
             /\ Meets(found[i].box, InPixels(v[found[i].t]))
             /\ Shared(found[i].box, InPixels(v[found[i].t])) = found[i].box
  <2>1. PICK c \in DOMAIN crops : found[i] \in Sights(v, crops[c])
    BY <1>1, <1>2, FrameTold
  <2>2. PICK u \in Sighted(v, crops[c]) : found[i] = Sight(v, u, crops[c])
    BY <2>1 DEF Sights
  <2>3. u \in DOMAIN v /\ Part(v, u) # {} /\ Meets(InPixels(v[u]), crops[c]) /\ crops[c] \in Crops
    BY <1>1 DEF Sighted
  <2>4. Solid(InPixels(v[u]))
    BY <1>1, <2>3, ThingsFit
  <2> DEFINE b == Shared(InPixels(v[u]), crops[c])
  <2>5. /\ b \in Crops /\ LiesIn(b, InPixels(v[u])) /\ Meets(b, InPixels(v[u]))
        /\ Shared(b, InPixels(v[u])) = b
    BY <2>3, <2>4, SharedFits
  <2>6. found[i] = [t |-> u, box |-> b]
    BY <2>2 DEF Sight
  <2>. HIDE DEF b, found
  <2>7. found[i].t = u /\ found[i].box = b
    BY <2>6
  <2>. QED
    BY <2>3, <2>4, <2>5, <2>6, <2>7
<1>5. \E i \in 1 .. n : found[i].t = t /\ found[i].box = whole
  <2>1. crops[k] \in Crops
    BY <1>1
  <2>2. Meets(whole, crops[k])
    BY <1>3, <2>1 DEF Meets, LiesIn, Solid, Crops
  <2>3. Shared(whole, crops[k]) = whole
    BY <1>3, <2>1, <2>2, SharedFits
  <2>4. Sight(v, t, crops[k]) \in Sights(v, crops[k])
    BY <2>2 DEF Sights, Sighted
  <2>5. \E i \in DOMAIN found : found[i] = Sight(v, t, crops[k])
    BY <1>1, <2>4, FrameTold
  <2>6. Sight(v, t, crops[k]).t = t /\ Sight(v, t, crops[k]).box = whole
    BY <2>3 DEF Sight
  <2>. QED
    BY <1>2, <2>5, <2>6
<1>6. \A i \in 1 .. n : Area(found[i].box) \in Nat
  <2>. SUFFICES ASSUME NEW i \in 1 .. n PROVE Area(found[i].box) \in Nat
    OBVIOUS
  <2> DEFINE x == found[i].box
  <2>1. x \in Crops
    BY <1>4
  <2>. HIDE DEF x
  <2>2. LiesIn(x, x)
    BY <2>1 DEF LiesIn, Crops
  <2>3. Area(x) \in Nat
    BY <2>1, <2>2, AreaGrows
  <2>. QED
    BY <2>3 DEF x
<1>7. PICK K \in SUBSET (1 .. n) : KeptOf(found, K) /\ SuppressNested(found) = {found[i] : i \in K}
  <2>. HIDE DEF found
  <2>. QED
    BY <1>2, <1>6, KeepsAll
<1> DEFINE M == {i \in 1 .. n : found[i].t = t /\ found[i].box = whole}
<1>8. PICK m \in M : \A y \in M : m <= y
  <2>1. M # {} /\ M \subseteq Nat
    BY <1>5
  <2>. HIDE DEF M
  <2>. QED
    BY <2>1, LeastOf
<1>9. m \in 1 .. n /\ found[m].t = t /\ found[m].box = whole
  BY <1>8
<1>10. \A j \in 1 .. n : found[j].t = t /\ found[j].box = whole => m <= j
  BY <1>8
<1>. HIDE DEF M, found, whole, crops, v
<1>11. m \in K
  <2>. SUFFICES ASSUME NEW j \in K, SoonerOf(found, j, m), Rivals(found[m], found[j]) PROVE FALSE
    BY <1>2, <1>7, <1>9 DEF KeptOf
  <2>1. /\ j \in 1 .. n /\ m \in 1 .. n /\ Area(found[j].box) \in Nat /\ Area(whole) \in Nat
        /\ Area(found[j].box) > Area(whole) \/ (Area(found[j].box) = Area(whole) /\ j < m)
    BY <1>6, <1>9 DEF SoonerOf
  <2>2. Sort[t] = Sort[found[j].t] /\ Contained(whole, found[j].box)
    BY <1>9 DEF Rivals
  <2>3. /\ found[j].t \in DOMAIN v /\ found[j].box \in Crops
        /\ Solid(InPixels(v[found[j].t])) /\ LiesIn(found[j].box, InPixels(v[found[j].t]))
    BY <1>4, <2>1
  <2>4. CASE found[j].t = t
    <3>1. found[j].box \in Crops /\ whole \in Crops /\ LiesIn(found[j].box, whole)
      BY <1>3, <2>3, <2>4 DEF whole, Solid
    <3>2. found[j].box = whole
      <4>1. found[j].box # whole => Area(found[j].box) < Area(whole)
        BY <1>3, <3>1, AreaGrows
      <4> DEFINE p == Area(found[j].box)
                 q == Area(whole)
      <4>2. p \in Nat /\ q \in Nat /\ p >= q
        BY <2>1
      <4>3. found[j].box # whole => p < q
        BY <4>1
      <4>. HIDE DEF p, q
      <4>. QED
        BY <4>2, <4>3
    <3>3. m <= j
      BY <1>10, <2>1, <2>4, <3>2
    <3>4. j < m
      BY <2>1, <3>2
    <3>. QED
      BY <2>1, <3>3, <3>4
  <2>5. CASE found[j].t # t
    <3> DEFINE d == InPixels(v[found[j].t])
    <3>1. Solid(d) /\ LiesIn(found[j].box, d) /\ found[j].box \in Crops
      BY <2>3
    <3>2. Area(found[j].box) >= Area(whole)
      BY <2>1
    <3>. HIDE DEF d
    <3>3. Contained(whole, d)
      BY <1>3, <2>2, <3>1, <3>2, CoveredWhole
    <3>4. WithinAnother(v, t)
      BY <2>2, <2>3, <2>5, <3>3 DEF WithinAnother, d, whole
    <3>. QED
      BY <3>4 DEF v
  <2>. QED
    BY <2>4, <2>5
<1>12. ASSUME NEW i \in K, found[i].t = t PROVE found[i].box = whole
  <2>. SUFFICES ASSUME found[i].box # whole PROVE FALSE
    OBVIOUS
  <2>1. /\ i \in 1 .. n /\ found[i].box \in Crops /\ whole \in Crops
        /\ LiesIn(found[i].box, whole) /\ Meets(found[i].box, whole) /\ Shared(found[i].box, whole) = found[i].box
    BY <1>3, <1>4, <1>12 DEF whole, Solid
  <2>2. Area(found[i].box) < Area(whole)
    BY <1>3, <2>1, AreaGrows
  <2>3. SoonerOf(found, m, i)
    BY <1>6, <1>9, <2>1, <2>2 DEF SoonerOf
  <2>4. Contained(found[i].box, whole)
    BY <1>3, <2>1, CoveredPart
  <2>5. Rivals(found[i], found[m])
    BY <1>9, <1>12, <2>4 DEF Rivals
  <2>6. i \in DOMAIN found
    BY <1>2, <2>1
  <2>. QED
    BY <1>7, <1>11, <2>3, <2>5, <2>6 DEF KeptOf
<1>13. \A x \in SuppressNested(found) : x.t = t => x.box = whole
  BY <1>7, <1>12
<1>14. found[m] \in SuppressNested(found) /\ found[m].t = t /\ found[m].box = whole
  BY <1>7, <1>9, <1>11
<1> DEFINE N == SuppressNested(found)
<1>15. SuppressNested(DetectRaw(f)) = N /\ InPixels(f.of[t]) = whole
  BY DEF found, whole, v
<1>16. (\A x \in N : x.t = t => x.box = whole) /\ \E x \in N : x.t = t /\ x.box = whole
  BY <1>13, <1>14
<1>. HIDE DEF N
<1>17. {d.box : d \in {e \in N : e.t = t}} = {whole}
  BY <1>16
<1>. QED
  BY <1>15, <1>17

FoundKept == looker.pc = "found" => looker.found = SuppressNested(DetectRaw(looker.frame))

\* Nothing is found at the start.
LEMMA FoundStarts == GatingInit => FoundKept
BY DEF GatingInit, Unoccupied, FoundKept

\* What is found stays as it is while it is held.
LEMMA FoundRests == ASSUME FoundKept, looker'.pc = "found" => looker' = looker PROVE FoundKept'
BY DEF FoundKept

\* What is found is what the detector told of the frame in hand.
LEMMA FoundSteps == ASSUME FoundKept, GateInv, GatingNext PROVE FoundKept'
<1>1. looker = [pc |-> looker.pc, frame |-> looker.frame, found |-> looker.found]
  BY DEF GateInv, LookerFits
<1>2. CASE Detects
  <2> DEFINE f == looker.frame
             d == SuppressNested(DetectRaw(f))
  <2>1. looker' = [looker EXCEPT !.pc = "found", !.found = d]
    BY <1>2 DEF Detects
  <2>. HIDE DEF d, f
  <2>2. looker'.frame = looker.frame /\ looker'.found = d
    BY <1>1, <2>1
  <2>3. SuppressNested(DetectRaw(looker'.frame)) = d
    BY <2>2 DEF d, f
  <2>. QED
    BY <2>2, <2>3 DEF FoundKept
<1>3. CASE TakesFrame
  <2>1. looker'.pc = FirstStep /\ FirstStep # "found"
    BY <1>3 DEF TakesFrame, FirstStep
  <2>. QED
    BY <2>1 DEF FoundKept
<1>4. CASE GatesFirst
  <2> DEFINE fr == [looker.frame EXCEPT !.verdict = Full]
  <2>1. looker' = [looker EXCEPT !.pc = "look", !.frame = fr]
    BY <1>4 DEF GatesFirst
  <2>. HIDE DEF fr
  <2>2. looker'.pc = "look"
    BY <1>1, <2>1
  <2>. QED
    BY <2>2 DEF FoundKept
<1>5. CASE Gates
  <2> DEFINE fr == [looker.frame EXCEPT !.verdict = Verdict(base, looker.frame)]
  <2>1. looker' = [looker EXCEPT !.pc = "look", !.frame = fr] \/ looker' = [looker EXCEPT !.pc = "idle"]
    BY <1>5 DEF Gates, Fails
  <2>. HIDE DEF fr
  <2>2. looker'.pc # "found"
    BY <1>1, <2>1
  <2>. QED
    BY <2>2 DEF FoundKept
<1>6. CASE EndsFrame
  <2>1. looker'.pc = "idle"
    BY <1>1, <1>6 DEF EndsFrame
  <2>. QED
    BY <2>1 DEF FoundKept
<1>7. ASSUME looker' = looker PROVE FoundKept'
  BY <1>7, FoundRests
<1>. QED
  BY <1>2, <1>3, <1>4, <1>5, <1>6, <1>7 DEF GatingNext, Moves, Reshapes, Published, Missed, Sampled, Reconnect

\* Each thing of the frame in hand is told in one box.
LEMMA ToldOnce == ASSUME GateInv, FoundKept PROVE OneBoxEach
<1>. SUFFICES ASSUME looker.pc = "found" PROVE OneBoxEach
  BY DEF OneBoxEach
<1> DEFINE f == looker.frame
<1>1. f \in Frames /\ looker.found = SuppressNested(DetectRaw(f))
  BY DEF GateInv, LookerFits, FoundKept
<1>. HIDE DEF f
<1>2. ASSUME NEW t \in {u \in DOMAIN f.of : Part(f.of, u) # {}}
      PROVE  \/ \A i \in DOMAIN f.verdict.crops : ~LiesIn(InPixels(f.of[t]), f.verdict.crops[i])
             \/ WithinAnother(f.of, t)
             \/ {d.box : d \in {e \in looker.found : e.t = t}} = {InPixels(f.of[t])}
  BY <1>1, OneBoxOf
<1>. QED
  BY <1>2 DEF OneBoxEach, f

-----------------------------------------------------------------------------
(* The parts side by side.                                                    *)

\* What moves in a behaviour of the whole moves as its own module says.
LEMMA RingPart == PathSpec => Spec
<1>1. PathInit => Init
  BY DEF PathInit
<1>2. [PathNext]_pathVars => [Next]_vars
  BY DEF PathNext, Rings, Senses, Sees, Tracks, Watches, Reports, pathVars
<1>. QED
  BY <1>1, <1>2, PTL DEF PathSpec, Spec

\* Readers get whole frames, and refusals mean that the writer moved on, also
\* with everything else that goes on (ring.py).
THEOREM ReadersSafe == PathSpec => [](NoTornRead /\ RefusedOnlyWhenOverwritten)
BY RingPart, NoTornReads, RefusalsJustified, PTL

\* The ring remains the lossy, ordered feed that the other parts rely on.
THEOREM FeedKept == PathSpec => ImplementsFeed
BY RingPart, RingImplementsFeed, PTL

\* The inductive invariant of the tracks, as a part of the whole.
THEOREM TrackingCorrect == PathSpec => []TrackInv
<1>1. PathInit => TrackInv
  BY TrackStarts DEF PathInit
<1>2. TrackInv /\ [PathNext]_pathVars => TrackInv'
  <2>. SUFFICES ASSUME TrackInv, [PathNext]_pathVars PROVE TrackInv'
    OBVIOUS
  <2>1. TrackingNext \/ UNCHANGED trackingVars
    BY DEF PathNext, Rings, Senses, Sees, Tracks, Watches, Reports, pathVars
  <2>. QED
    BY <2>1, TrackSteps, TrackStutters
<1>. QED
  BY <1>1, <1>2, PTL DEF PathSpec

\* The inductive invariant of the motion service, as a part of the whole.
THEOREM MotionCorrect == PathSpec => []MotionInv
<1>1. PathInit => MotionInv
  BY MotionStarts DEF PathInit
<1>2. MotionInv /\ [PathNext]_pathVars => MotionInv'
  <2>. SUFFICES ASSUME MotionInv, [PathNext]_pathVars PROVE MotionInv'
    OBVIOUS
  <2>1. MotionNext \/ UNCHANGED motionVars
    BY DEF PathNext, Rings, Senses, Sees, Tracks, Watches, Reports, pathVars
  <2>. QED
    BY <2>1, MotionSteps, MotionStutters
<1>. QED
  BY <1>1, <1>2, PTL DEF PathSpec

\* An incident stays open only with a camera that is triggered, a triggered camera
\* has one, and the window holds nothing of before the last interruption
\* (motion/detector/motion_core.py, worker.py).
THEOREM MotionKept == PathSpec => []MotionTold
<1>1. MotionInv => MotionTold
  BY MotionIsTold DEF MotionTold
<1>. QED
  BY <1>1, MotionCorrect, PTL

\* Between two looks at one track lies the interval, anchors go with their tracks,
\* and every look is on its way, sent or counted as lost (indexing_policy.py, sink.py).
THEOREM TracksKept == PathSpec => [](TrackingTypeOK /\ LooksApart /\ AnchorsPruned /\ LossesCounted)
<1>1. TrackInv => TrackingTypeOK /\ LooksApart /\ AnchorsPruned /\ LossesCounted
  BY DEF TrackInv, HandInv, AnchorsPruned
<1>. QED
  BY <1>1, TrackingCorrect, PTL

\* No track goes on over a reset or a long absence (tracking.py): a frame only
\* continues tracks of its own era that the last update still kept.
THEOREM IdentityKept == PathSpec => IdentityHolds
<1>1. TrackInv /\ [PathNext]_pathVars => [ContinuesSame]_trackingVars
  <2>. SUFFICES ASSUME TrackInv, [PathNext]_pathVars PROVE [ContinuesSame]_trackingVars
    OBVIOUS
  <2>1. TrackingNext \/ UNCHANGED trackingVars
    BY DEF PathNext, Rings, Senses, Sees, Tracks, Watches, Reports, pathVars
  <2>. QED
    BY <2>1, TrackSteps
<1>. QED
  BY <1>1, TrackingCorrect, PTL DEF PathSpec, IdentityHolds

\* The inductive invariant of the events' way, as a part of the whole.
THEOREM EventsCorrect == PathSpec => []EventInv
<1>1. PathInit => EventInv
  BY EventStarts DEF PathInit
<1>2. EventInv /\ [PathNext]_pathVars => EventInv'
  <2>. SUFFICES ASSUME EventInv, [PathNext]_pathVars PROVE EventInv'
    OBVIOUS
  <2>1. EventNext \/ UNCHANGED reportVars
    BY DEF PathNext, Rings, Senses, Sees, Tracks, Watches, Reports, pathVars
  <2>. QED
    BY <2>1, EventSteps, EventsStay
<1>. QED
  BY <1>1, <1>2, PTL DEF PathSpec

\* No event is lost uncounted, however often a batch is sent, fails, is answered too
\* late or is recorded after it was given up; what is on its way lies in the order in
\* which it happened, and a queue makes room with what is older than what it holds
\* (analytics/activities/events.py, camera-mgmt/backend/services/ai_events.py).
THEOREM EventsAreAccounted == PathSpec => [](EventsAccounted /\ EventTypeOK)
<1>1. EventInv => EventsAccounted /\ EventTypeOK
  BY AccountedFor, EventsFit
<1>. QED
  BY <1>1, EventsCorrect, PTL

\* The inductive invariant of what the detector is shown, as a part of the whole.
THEOREM SightCorrect == PathSpec => []GateInv
<1>1. PathInit => GateInv
  BY GateStarts DEF PathInit
<1>2. GateInv /\ [PathNext]_pathVars => GateInv'
  <2>. SUFFICES ASSUME GateInv, [PathNext]_pathVars PROVE GateInv'
    OBVIOUS
  <2>1. GatingNext \/ UNCHANGED gateVars
    BY DEF PathNext, Rings, Senses, Sees, Tracks, Watches, Reports, pathVars
  <2>. QED
    BY <2>1, GateSteps, GateRests
<1>. QED
  BY <1>1, <1>2, PTL DEF PathSpec

\* With it goes what the detector has had before it and what it has made of that.
THEOREM LookingCorrect == PathSpec => [](GateInv /\ LookInv /\ FoundKept)
<1> DEFINE Inv == GateInv /\ LookInv /\ FoundKept
<1>1. PathInit => Inv
  BY GateStarts, LookStarts, FoundStarts DEF PathInit
<1>2. Inv /\ [PathNext]_pathVars => Inv'
  <2>. SUFFICES ASSUME GateInv, LookInv, FoundKept, [PathNext]_pathVars PROVE GateInv' /\ LookInv' /\ FoundKept'
    OBVIOUS
  <2>1. GatingNext \/ UNCHANGED gateVars
    BY DEF PathNext, Rings, Senses, Sees, Tracks, Watches, Reports, pathVars
  <2>2. CASE GatingNext
    BY <2>2, GateSteps, LookSteps, FoundSteps
  <2>3. CASE UNCHANGED gateVars
    <3>1. looker' = looker
      BY <2>3 DEF gateVars
    <3>. QED
      BY <2>3, <3>1, GateRests, LookRests, FoundRests
  <2>. QED
    BY <2>1, <2>2, <2>3
<1>. HIDE DEF Inv
<1>3. PathSpec => []Inv
  BY <1>1, <1>2, PTL DEF PathSpec
<1>. QED
  BY <1>3 DEF Inv

\* The inductive invariant of a reader's way through the pages: what it owes it has or
\* comes to, whatever is stored or swept in between.
THEOREM WalkCorrect == PathSpec => [](EventInv /\ WalkInv /\ TimesPast)
<1> DEFINE Inv == EventInv /\ WalkInv /\ TimesPast
<1>1. PathInit => Inv
  BY EventStarts, WalkStarts DEF PathInit
<1>2. Inv /\ [PathNext]_pathVars => Inv'
  <2>. SUFFICES ASSUME EventInv, WalkInv, TimesPast, [PathNext]_pathVars PROVE EventInv' /\ WalkInv' /\ TimesPast'
    OBVIOUS
  <2>1. EventNext \/ UNCHANGED reportVars
    BY DEF PathNext, Rings, Senses, Sees, Tracks, Watches, Reports, pathVars
  <2>2. CASE EventNext
    BY <2>2, EventSteps, WalkSteps
  <2>3. CASE UNCHANGED reportVars
    <3>1. walk' = walk /\ happened' = happened /\ today' = today
      BY <2>3 DEF reportVars
    <3>2. TimesPast'
      BY <3>1 DEF TimesPast
    <3>. QED
      BY <2>3, <3>1, <3>2, EventsStay, WalkRests
  <2>. QED
    BY <2>1, <2>2, <2>3
<1>. HIDE DEF Inv
<1>3. PathSpec => []Inv
  BY <1>1, <1>2, PTL DEF PathSpec
<1>. QED
  BY <1>3 DEF Inv

\* Every change before the camera is looked at, unless the frame that brought it is still
\* to come or got lost; a thing of which a crop shows the whole is told once and where it
\* is; and a reader of the pages misses no event that stayed, and its graph adds up
\* (frames/broker/motion.py, analytics/motion.py, nested_boxes.py, activities/events.py,
\* camera-mgmt/backend/services/ai_events.py, entry_exit.py).
THEOREM SightsAreTold == PathSpec => []SightsTold
<1>1. GateInv /\ LookInv /\ FoundKept => EverythingLooked /\ OneBoxEach
  BY LookedAt, ToldOnce
<1>2. EventInv /\ WalkInv /\ TimesPast => PagesComplete
  BY PagesAreComplete
<1>3. EverythingLooked /\ OneBoxEach /\ PagesComplete => SightsTold
  BY DEF SightsTold
<1>. QED
  BY <1>1, <1>2, <1>3, LookingCorrect, WalkCorrect, PTL

\* Frames reach the detector in the order in which they were taken and none twice, in
\* either mode, whoever overtakes whom (analytics/pipeline.py, frame_source.py).
THEOREM SeenInOrder == PathSpec => [][judged' >= judged]_judged
<1>1. GateInv /\ [PathNext]_pathVars => [judged' >= judged]_judged
  <2>. SUFFICES ASSUME GateInv, [PathNext]_pathVars, judged' # judged PROVE judged' >= judged
    OBVIOUS
  <2>1. GatingNext
    BY DEF PathNext, Rings, Senses, Sees, Tracks, Watches, Reports, pathVars, gateVars
  <2>2. Busy /\ judged' = looker.frame.n
    BY <2>1 DEF GatingNext, Moves, Reshapes, Published, Missed, Sampled, Reconnect, TakesFrame, GatesFirst, Gates,
       Fails, Detects, EndsFrame, Busy
  <2>. QED
    BY <2>2, Numbered
<1>. QED
  BY <1>1, SightCorrect, PTL DEF PathSpec

\* The inductive invariant of the activities, as a part of the whole.
THEOREM ActivitiesCorrect == PathSpec => []ActInv
<1>1. PathInit => ActInv
  BY ActivityStart DEF PathInit
<1>2. ActInv /\ [PathNext]_pathVars => ActInv'
  <2>. SUFFICES ASSUME ActInv, [PathNext]_pathVars PROVE ActInv'
    OBVIOUS
  <2>1. ActivityNext \/ UNCHANGED activityVars
    BY DEF PathNext, Rings, Senses, Sees, Tracks, Watches, Reports, pathVars
  <2>. QED
    BY <2>1, ActivitySteps, ActivityRests
<1>. QED
  BY <1>1, <1>2, PTL DEF PathSpec

\* A second event about one thing has its reason, whatever the frames, the requests and
\* the thread that resets do in between; a stay that is seen is reported; and what an
\* instance keeps is about tracks that will still retire
\* (analytics/activity_pipeline.py, analytics/activities/).
THEOREM ActivitiesKept == PathSpec => []ActivitiesTold
<1>1. ActInv => ActivitiesTold
  BY ActivityHolds DEF ActivitiesTold
<1>. QED
  BY <1>1, ActivitiesCorrect, PTL

\* Every variable on the way of the pictures keeps its type, for any sizes and budgets.
THEOREM PathTyped == PathSpec => []PathTypeOK
<1>1. PathInit => stage \in Stages
  BY DEF PathInit
<1>2. stage \in Stages /\ [PathNext]_pathVars => (stage \in Stages)'
  BY DEF PathNext, Rings, Senses, Sees, Tracks, Watches, Reports, pathVars
<1>3. PathSpec => [](stage \in Stages)
  BY <1>1, <1>2, PTL DEF PathSpec
<1>4. PathSpec => []TypeOK
  BY RingPart, TypeCorrect, PTL
<1>5. MotionInv => MotionTypeOK
  BY DEF MotionInv
<1>6. TrackInv => TrackingTypeOK
  BY DEF TrackInv
<1>7. ActInv => ActivityTypeOK
  BY ActivityHolds
<1>8. EventInv => EventTypeOK
  BY EventsFit
<1>9. (/\ stage \in Stages /\ TypeOK /\ MotionTypeOK /\ GatingTypeOK /\ TrackingTypeOK /\ ActivityTypeOK
       /\ EventTypeOK) => PathTypeOK
  BY DEF PathTypeOK
<1>. QED
  BY <1>3, <1>4, <1>5, <1>6, <1>7, <1>8, <1>9, GateTyped, MotionCorrect, TrackingCorrect, ActivitiesCorrect, EventsCorrect,
     SightCorrect, PTL

\* Two looks at one track lie the interval apart, what is kept for a track goes with it,
\* and no look and no event is lost uncounted (indexing_policy.py, sink.py, events.py).
THEOREM LossesAreOwned == PathSpec => []LossesOwned
<1>1. TrackInv => LooksApart /\ AnchorsPruned /\ LossesCounted
  BY DEF TrackInv, HandInv, AnchorsPruned
<1>2. EventInv => EventsAccounted
  BY AccountedFor
<1>3. LooksApart /\ AnchorsPruned /\ LossesCounted /\ EventsAccounted => LossesOwned
  BY DEF LossesOwned
<1>. QED
  BY <1>1, <1>2, <1>3, TrackingCorrect, EventsCorrect, PTL
=============================================================================
