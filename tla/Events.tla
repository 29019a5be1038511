-------------------------------- MODULE Events --------------------------------
(***************************************************************************)
(* The way of an activity's event (analytics/activities/events.py, camera- *)
(* mgmt services/ai_events.py and entry_exit.py): a bounded queue, a      *)
(* sender that tries a batch again until it is answered, the API that      *)
(* admits each event against the camera's present configuration and stores *)
(* it under the producer's id, the sweep of expired rows, and two readers: *)
(* one that walks the pages, and the graph of counts.                      *)
(***************************************************************************)
EXTENDS Integers, Sequences, FiniteSets, SequencesExt

CONSTANTS
  Reporters,         \* cameras whose activities report
  OutboxSize, BatchSize,
  Retentions,        \* retention_days, in ticks
  PageSize,
  Bucket,            \* bucket_s, in ticks
  ClockOffset,       \* offset_s: the viewer's clock against UTC
  Buckets,           \* how many of them the graph has
  EventBudgets       \* the ids in the order they are minted, whose events they are, the
                     \* retention to begin with, and how often what may happen

ASSUME EventAssumption ==
  /\ OutboxSize \in Nat \ {0} /\ BatchSize \in 1 .. OutboxSize /\ PageSize \in Nat \ {0}
  /\ ClockOffset \in Int /\ Bucket \in Nat \ {0} /\ Buckets \in Nat \ {0}
  /\ Retentions \subseteq Nat \ {0}
  /\ EventBudgets \subseteq [ids : Seq(Nat), of : SUBSET Reporters, keeps : Nat,
                             fail : Nat, refuse : Nat, tick : Nat, edit : Nat, read : Nat]
  /\ \A b \in EventBudgets : \A j, k \in DOMAIN b.ids : b.ids[j] = b.ids[k] => j = k   \* uuid4

VARIABLES
  today,             \* now()
  registry,          \* [Reporters -> [is, keeps]]: its stage and configuration, its retention
  outbox,            \* ActivityEventSink._queue
  courier,           \* where _run is, its batch, and the API's handling of it
  abandoned,         \* handlings whose client no longer waits
  stored,            \* analytics_events
  counters,          \* the sink's counters
  walk,              \* a reader of the pages
  eventBudget,
  happened, kept     \* history: the events decided, in order, and those ever stored
pathOfEvents == <<outbox, courier, abandoned, counters>>
storeOfEvents == <<stored, kept>>
reportVars == <<today, registry, pathOfEvents, storeOfEvents, walk, eventBudget, happened>>

UseEvent(what) ==
  /\ eventBudget[what] > 0
  /\ eventBudget' = [eventBudget EXCEPT ![what] = @ - 1]

NoHandling == [rows |-> {}, refused |-> 0]
CourierWaits == [pc |-> "take", batch |-> << >>, handling |-> NoHandling]
NotReading == [pc |-> "closed", listed |-> << >>, owed |-> {}, after |-> << >>]

EventInit ==
  /\ today = 1 /\ eventBudget \in EventBudgets
  /\ registry = [c \in Reporters |-> [is |-> "watched", keeps |-> eventBudget.keeps]]
  /\ outbox = << >> /\ courier = CourierWaits /\ abandoned = {} /\ stored = {}
  /\ counters = [evicted |-> 0, sent |-> 0, inserted |-> 0, duplicates |-> 0, refused |-> 0, dropped |-> 0]
  /\ walk = NotReading /\ happened = << >> /\ kept = {}

-----------------------------------------------------------------------------
(* The producer and the sender.                                            *)

(* __call__: the oldest makes room.                                        *)
Decide(c) ==
  /\ Len(happened) < Len(eventBudget.ids)
  /\ c \in eventBudget.of
  /\ LET event == [id |-> eventBudget.ids[Len(happened) + 1], of |-> c, at |-> today] IN
     /\ happened' = Append(happened, event)
     /\ outbox' = Append(IF Len(outbox) >= OutboxSize THEN Tail(outbox) ELSE outbox, event)
     /\ counters' = [counters EXCEPT !.evicted = @ + (IF Len(outbox) >= OutboxSize THEN 1 ELSE 0)]
  /\ UNCHANGED <<eventBudget, today, registry, courier, abandoned, storeOfEvents, walk>>

(* _take: what there is, up to a batch.                                    *)
EnoughForABatch == Len(outbox) >= BatchSize
Enough == outbox # << >>
TakeBatch ==
  /\ courier.pc = "take" /\ Enough
  /\ LET n == IF Len(outbox) < BatchSize THEN Len(outbox) ELSE BatchSize IN
     /\ courier' = [pc |-> "send", batch |-> SubSeq(outbox, 1, n), handling |-> NoHandling]
     /\ outbox' = SubSeq(outbox, n + 1, Len(outbox))
  /\ UNCHANGED <<today, registry, abandoned, counters, storeOfEvents, walk, eventBudget, happened>>

(* _requeue: the youngest of the batch that find room.                     *)
Room == OutboxSize - Len(outbox)
RequeuedBehind(batch) ==
  LET keep == IF Len(batch) < Room THEN Len(batch) ELSE Room
  IN outbox \o SubSeq(batch, Len(batch) - keep + 1, Len(batch))
Requeued(batch) ==
  LET keep == IF Len(batch) < Room THEN Len(batch) ELSE Room
  IN SubSeq(batch, Len(batch) - keep + 1, Len(batch)) \o outbox
Evicted(batch) == IF Len(batch) > Room THEN Len(batch) - Room ELSE 0
TryLater ==
  /\ courier' = CourierWaits
  /\ outbox' = Requeued(courier.batch)
  /\ counters' = [counters EXCEPT !.evicted = @ + Evicted(courier.batch)]

(* prepare: what each event is, judged by the registry of this moment.     *)
Admitted(event) ==
  /\ registry[event.of].is = "watched"
  /\ event.at + registry[event.of].keeps > today
Row(event) == [event |-> event, expires |-> event.at + registry[event.of].keeps]
Reach ==
  /\ courier.pc = "send"
  /\ LET good == {e \in ToSet(courier.batch) : Admitted(e)} IN
     courier' = [pc |-> "prepared", batch |-> courier.batch,
                 handling |-> [rows |-> {Row(e) : e \in good}, refused |-> Len(courier.batch) - Cardinality(good)]]
  /\ UNCHANGED <<today, registry, outbox, abandoned, counters, storeOfEvents, walk, eventBudget, happened>>

(* record: one transaction; a row of a camera that is gone breaks it; an   *)
(* id that is there is a duplicate.                                        *)
IdsOf(rows) == {r.event.id : r \in rows}
Storable(rows) == \A r \in rows : registry[r.event.of].is # "gone"
AddRows(rows) == stored \cup {r \in rows : r.event.id \notin IdsOf(stored)}
Record ==
  /\ courier.pc = "prepared"
  /\ IF Storable(courier.handling.rows)
     THEN /\ stored' = AddRows(courier.handling.rows) /\ kept' = kept \cup {r.event : r \in stored'}
          /\ courier' = [pc |-> "recorded", batch |-> courier.batch, handling |->
               [rows |-> {r \in courier.handling.rows : r.event.id \notin IdsOf(stored)}, refused |-> courier.handling.refused]]
          /\ UNCHANGED <<outbox, counters>>
     ELSE TryLater /\ UNCHANGED storeOfEvents
  /\ UNCHANGED <<today, registry, abandoned, walk, eventBudget, happened>>

(* deliver returns.                                                        *)
Delivered ==
  /\ courier.pc = "recorded" /\ courier' = CourierWaits
  /\ LET new == Cardinality(courier.handling.rows)
         all == Len(courier.batch) IN
     counters' = [evicted |-> counters.evicted, dropped |-> counters.dropped,
                  sent |-> counters.sent + all, inserted |-> counters.inserted + new,
                  refused |-> counters.refused + courier.handling.refused,
                  duplicates |-> counters.duplicates + all - new - courier.handling.refused]
  /\ UNCHANGED <<today, registry, outbox, abandoned, storeOfEvents, walk, eventBudget, happened>>

(* The request does not get through, or its answer does not come in time,  *)
(* or not at all; what the API has begun it ends.                          *)
Fail ==
  /\ courier.pc \in {"send", "prepared", "recorded"} /\ UseEvent("fail")
  /\ abandoned' = IF courier.pc = "prepared" THEN abandoned \cup {courier.handling.rows} ELSE abandoned
  /\ TryLater
  /\ UNCHANGED <<today, registry, storeOfEvents, walk, happened>>
RecordAbandoned(rows) ==
  /\ abandoned' = abandoned \ {rows}
  /\ stored' = IF Storable(rows) THEN AddRows(rows) ELSE stored
  /\ kept' = kept \cup {r.event : r \in stored'}
  /\ UNCHANGED <<today, registry, outbox, courier, counters, walk, eventBudget, happened>>

(* _Permanent: a 4xx that repeating cannot fix.                            *)
Refuse ==
  /\ courier.pc = "send" /\ UseEvent("refuse") /\ courier' = CourierWaits
  /\ counters' = [counters EXCEPT !.dropped = @ + Len(courier.batch)]
  /\ UNCHANGED <<today, registry, outbox, abandoned, storeOfEvents, walk, happened>>

-----------------------------------------------------------------------------
(* The cameras and the sweep.                                              *)

PassDay ==
  /\ UseEvent("tick") /\ today' = today + 1
  /\ UNCHANGED <<registry, pathOfEvents, storeOfEvents, walk, happened>>

(* A camera's rows go with it (ON DELETE CASCADE); an activity may be      *)
(* taken off and put back, and the retention changed for what comes.       *)
Withdraw(c) ==
  /\ registry[c].is # "gone" /\ c \in eventBudget.of /\ UseEvent("edit")
  /\ registry' = [registry EXCEPT ![c] = [is |-> "gone", keeps |-> registry[c].keeps]]
  /\ stored' = {r \in stored : r.event.of # c}
  /\ UNCHANGED <<kept, today, pathOfEvents, walk, happened>>
Reconfigure(c) ==
  /\ registry[c].is # "gone" /\ c \in eventBudget.of /\ UseEvent("edit")
  /\ \E is \in {"watched", "plain"}, keeps \in Retentions :
       /\ is # registry[c].is \/ keeps # registry[c].keeps
       /\ registry' = [registry EXCEPT ![c] = [is |-> is, keeps |-> keeps]]
  /\ UNCHANGED <<today, pathOfEvents, storeOfEvents, walk, happened>>

PurgeExpired ==
  /\ \E r \in stored : r.expires < today
  /\ stored' = {r \in stored : r.expires >= today}
  /\ UNCHANGED <<kept, today, registry, pathOfEvents, walk, eventBudget, happened>>

-----------------------------------------------------------------------------
(* A reader walks the pages: newest first by when it happened, ties by id, *)
(* and each page from where the last one ended.                            *)

Visible == {r.event : r \in {q \in stored : q.expires > today}}
Newer(e, f) == e.at > f.at \/ (e.at = f.at /\ e.id > f.id)
PastTime(e, cursor) == cursor = << >> \/ cursor[1].at > e.at
Past(e, cursor) == cursor = << >> \/ Newer(cursor[1], e)
Rest(cursor) == {e \in Visible : Past(e, cursor)}
More(cursor) == Cardinality(Rest(cursor)) > PageSize
Page(cursor) ==
  LET Ahead(e) == Cardinality({f \in Rest(cursor) : Newer(f, e)})
      size == IF More(cursor) THEN PageSize ELSE Cardinality(Rest(cursor))
  IN [i \in 1 .. size |-> CHOOSE e \in Rest(cursor) : Ahead(e) = i - 1]

ReadPage ==
  /\ walk.pc \in {"closed", "open"}
  /\ walk.pc = "closed" => UseEvent("read")
  /\ walk.pc = "open" => UNCHANGED eventBudget
  /\ LET page == Page(walk.after)
         owed == IF walk.pc = "closed" THEN Visible ELSE walk.owed \cap Visible IN
     walk' = IF More(walk.after)
             THEN [pc |-> "open", listed |-> walk.listed \o page, owed |-> owed, after |-> <<page[Len(page)]>>]
             ELSE [pc |-> "read", listed |-> walk.listed \o page, owed |-> owed, after |-> << >>]
  /\ UNCHANGED <<today, registry, pathOfEvents, storeOfEvents, happened>>

(* The graph: a window that ends on the first boundary at or after now,    *)
(* and in each of its buckets what happened there.                         *)
SlotOf(t) == (t + ClockOffset) \div Bucket
WindowEnd == (-((-(today + ClockOffset)) \div Bucket)) * Bucket - ClockOffset
WindowStart == WindowEnd - Buckets * Bucket
FirstSlot == SlotOf(WindowStart)
Counted(c) == {e \in Visible : e.of = c /\ e.at >= WindowStart /\ e.at < WindowEnd}
Series(c) == [i \in 0 .. Buckets - 1 |-> Cardinality({e \in Counted(c) : SlotOf(e.at) - FirstSlot = i})]

-----------------------------------------------------------------------------
Sending == TakeBatch \/ Reach \/ Record \/ Delivered
EventNext ==
  \/ (\E c \in Reporters : Decide(c) \/ Withdraw(c) \/ Reconfigure(c))
  \/ TakeBatch \/ Reach \/ Record \/ Delivered \/ Fail \/ Refuse
  \/ (\E rows \in abandoned : RecordAbandoned(rows))
  \/ PassDay \/ PurgeExpired \/ ReadPage

-----------------------------------------------------------------------------
EventTypeOK ==
  /\ Len(outbox) <= OutboxSize /\ courier.pc \in {"take", "send", "prepared", "recorded"}
  /\ (courier.pc = "take") = (courier.batch = << >>)
  /\ \A r \in stored : r.event \in ToSet(happened)
  /\ Cardinality(IdsOf(stored)) = Cardinality(stored)
  /\ walk.pc \in {"closed", "open", "read"}

(* An event that is not on its way was stored, or is one the counters own  *)
(* up to, however often its batch was sent; what waits is in order and     *)
(* younger than whatever had to make room.  So is the batch that is out,   *)
(* unless what came meanwhile has filled the queue: then the oldest that   *)
(* wait go before it, and it goes when it comes back.                      *)
OnItsWay == ToSet(outbox) \cup ToSet(courier.batch)
Gone == ToSet(happened) \ OnItsWay
PlaceOf(e) == CHOOSE k \in DOMAIN happened : happened[k] = e
EventsAccounted ==
  /\ Len(happened) = Len(outbox) + Len(courier.batch) + counters.evicted + counters.dropped + counters.sent
  /\ counters.sent = counters.inserted + counters.duplicates + counters.refused
  /\ Cardinality(Gone \ kept) <= counters.evicted + counters.dropped + counters.refused
  /\ \A j, k \in DOMAIN (courier.batch \o outbox) : j < k =>
       PlaceOf((courier.batch \o outbox)[j]) < PlaceOf((courier.batch \o outbox)[k])
  /\ \A e \in Gone, f \in ToSet(outbox) : PlaceOf(e) < PlaceOf(f)
  /\ Room > 0 => \A e \in Gone, f \in ToSet(courier.batch) : PlaceOf(e) < PlaceOf(f)

(* A reader who walks the pages sees, once each and newest first, every    *)
(* event that was there when the walk began and stayed, whatever arrives   *)
(* late in between.  The graph's buckets add up to what the list shows of  *)
(* its window.                                                             *)
Total(c) ==
  LET total[k \in 0 .. Buckets] == IF k = 0 THEN 0 ELSE total[k - 1] + Series(c)[k - 1] IN total[Buckets]
PagesComplete ==
  /\ \A j, k \in DOMAIN walk.listed : j < k => Newer(walk.listed[j], walk.listed[k])
  /\ walk.pc = "read" => walk.owed \subseteq ToSet(walk.listed)
  /\ \A c \in Reporters :
       Total(c) = Cardinality({e \in Visible : e.of = c /\ e.at \in WindowStart .. today /\ e.at # WindowEnd})

(* When faults end, every event has been answered for.                     *)
EventsSettled == outbox = << >> /\ courier = CourierWaits /\ abandoned = {} /\ \A r \in stored : r.expires >= today
=============================================================================
