------------------------- MODULE SegmentUpload_proofs -------------------------
(***************************************************************************)
(* Theorems about SegmentUpload for any number of segments, reloads and    *)
(* troubles and any sizes of batches and queues.                           *)
(***************************************************************************)
EXTENDS SegmentUpload, FiniteSetTheorems, SequenceTheorems, TLAPS

BatchRow == [id : Nat, first : Nat, what : Seq(Nat)]
PageRow ==
  [state : {"closed", "resuming", "active", "failed", "over", "finalized"}, life : Nat,
   queue : Seq(Nat), last : Nat, server : Nat, pending : BatchRow, accepting : BOOLEAN,
   overflow : BOOLEAN, writes : Seq(Nat \X Nat), broken : BOOLEAN,
   flush : {"none", "waiting", "ready", "sent"}, awaited : Nat, tries : Nat,
   stop : {"none", "draining", "finalizing"}, was : BOOLEAN]
StoreRow ==
  [status : {"absent", "collecting", "finalizing", "finalized", "abandoned"}, last : Nat,
   raw : Seq(Nat), tail : {"none", "torn", "bare"}, journals : SUBSET BatchRow, receipts : SUBSET Nat]

\* The types the theorems need.
Typed ==
  /\ page \in PageRow /\ store \in StoreRow /\ rows \in [Number -> Nat]
  /\ recorded \in Nat /\ minted \in Nat

\* A page that has taken up its session.
Live == page.state \in {"active", "finalized"}

\* What is, or may still be, in IndexedDB: <<number, segment>>.
Placed == {<<n, rows[n]>> : n \in {k \in Number : rows[k] # 0}} \cup {page.writes[i] : i \in DOMAIN page.writes}

\* The batches that may still reach the stream.
Alive ==
  {m.batch : m \in {r \in net : r.kind = "append"}} \cup store.journals
    \cup (IF page.pending = NoBatch THEN {} ELSE {page.pending})

Increasing(s) == \A i, k \in DOMAIN s : i < k => s[i] < s[k]
Recorded(s) == \A i \in DOMAIN s : s[i] <= recorded

\* What is placed after number n was recorded after the stream's segment n.
Above(n) == \A p \in Placed : p[1] > n /\ n > 0 => p[2] > store.raw[n]

\* The rows after number n are in the order in which they were recorded.
RowsOrdered(n) ==
  \A i, k \in Number : n < i /\ i < k /\ rows[i] # 0 /\ rows[k] # 0 => rows[i] < rows[k]

\* A batch has segments in their order, begins after a part of the stream that is
\* counted, hence fixed, and whatever is placed after it was recorded after it.
Sound(b) ==
  /\ b \in BatchRow /\ b.first # 0 /\ b.what # <<>>
  /\ Increasing(b.what) /\ Recorded(b.what)
  /\ b.first <= store.last + 1
  /\ b.first > 1 => store.raw[b.first - 1] < b.what[1]
  /\ \A p \in Placed : p[1] > LastOf(b) => p[2] > b.what[Len(b.what)]

BatchesSound == \A b \in Alive : Sound(b)

\* The stream is in order, and what is counted or confirmed is in it.
StreamSound ==
  /\ store.last <= Len(store.raw)
  /\ Increasing(store.raw) /\ Recorded(store.raw)
  /\ \A p \in confirmed : p[1] \in 1..store.last /\ store.raw[p[1]] = p[2]

\* Before the session there is nothing; and a page that is reloaded takes up rows
\* that continue the stream.
RowsSound ==
  /\ store.status = "absent" => store = NoSession /\ Placed = {}
  /\ \A p \in Placed : p[2] <= recorded
  /\ Above(store.last) /\ RowsOrdered(store.last)
  /\ page.state = "resuming" => Above(page.server) /\ RowsOrdered(page.server)

\* The queue continues what the page knows to be counted, what is placed after that
\* is in the queue, and the batch that was cut is its beginning.
QueueSound ==
  /\ page.server <= store.last
  /\ Increasing(page.queue) /\ Recorded(page.queue)
  /\ Live => /\ page.last = page.server + Len(page.queue)
             /\ page.server > 0 /\ page.queue # <<>> => store.raw[page.server] < page.queue[1]
             /\ \A p \in Placed : p[1] > page.server =>
                  p[1] <= page.last /\ p[2] = page.queue[p[1] - page.server]
  /\ page.pending # NoBatch =>
       /\ page.pending.first = page.server + 1
       /\ Len(page.pending.what) <= Len(page.queue)
       /\ page.pending.what = SubSeq(page.queue, 1, Len(page.pending.what))

\* Which page has what.
PageSound ==
  /\ ~Live => page.queue = <<>> /\ page.pending = NoBatch /\ page.writes = <<>>
  /\ ~Live => page.flush = "none" /\ page.stop = "none"
  /\ page.state = "closed" => page.server = 0 /\ page.last = 0
  /\ page.state \in {"resuming", "active", "finalized"} => store.status # "absent"
  /\ page.flush # "none" => page.queue # <<>>
  /\ page.flush \in {"ready", "sent"} => page.pending # NoBatch
  /\ page.stop # "none" => ~page.accepting
  /\ page.state = "finalized" \/ page.stop = "finalizing" => page.queue = <<>>

\* What is under way is of this life of the page or of an earlier one.
NetSound ==
  \A m \in net :
    /\ m.kind \in {"append", "finalize"} /\ m.life \in 0..page.life
    /\ ~Live => m.life # page.life
    /\ m.kind = "finalize" /\ m.life = page.life => m.last \in 0..page.last

\* The invariant behind the theorems.
Sane == Typed /\ BatchesSound /\ StreamSound /\ RowsSound /\ QueueSound /\ PageSound /\ NetSound

-----------------------------------------------------------------------------
(* What an action leaves in order *)

\* What is placed is numbers.
LEMMA PlacedType ==
  ASSUME Typed
  PROVE  \A p \in Placed : p[1] \in Nat /\ p[2] \in Nat
<1>1. page.writes \in Seq(Nat \X Nat)
  BY DEF Typed, PageRow
<1> QED
  BY <1>1 DEF Typed, Placed, Number

\* The stream only grows, and so does what is counted of it.
Grows ==
  /\ Len(store.raw) <= Len(store'.raw) /\ store.last <= store'.last
  /\ \A i \in 1..Len(store.raw) : store'.raw[i] = store.raw[i]

\* A page p that goes on with the same queue.
Rests(p) ==
  /\ p \in PageRow /\ p.life = page.life
  /\ p.queue = page.queue /\ p.last = page.last /\ p.server = page.server /\ p.pending = page.pending
  /\ p.writes \in {page.writes, <<>>} \/ (page.writes # <<>> /\ p.writes = Tail(page.writes))
  /\ \/ p.state = page.state
     \/ p.state = "over" /\ page.state \in {"closed", "failed"}
     \/ p.state = "finalized" /\ Live /\ p.queue = <<>>
  /\ ~Live => p.flush = "none" /\ p.stop = "none"
  /\ p.flush # "none" => p.queue # <<>>
  /\ p.flush \in {"ready", "sent"} => p.pending # NoBatch
  /\ p.stop # "none" => ~p.accepting
  /\ p.stop = "finalizing" => p.queue = <<>>

\* Its chain of durable appends goes on, or has failed.
SameChain(p) ==
  \/ p.writes = page.writes /\ p.broken = page.broken
  \/ p.writes = <<>> /\ p.broken

\* A store whose stream and count stay; a journal is of a batch that was alive.
StoreRests ==
  /\ store' \in StoreRow /\ store'.raw = store.raw /\ store'.last = store.last
  /\ store'.journals \subseteq Alive
  /\ store'.status = "absent" => store' = store

\* What may be under way after a step.
NetRests ==
  \A m \in net' :
    \/ m \in net
    \/ Live /\ m.kind = "append" /\ m.life = page.life /\ m.batch = page.pending /\ page.pending # NoBatch
    \/ Live /\ m.kind = "finalize" /\ m.life = page.life /\ m.last = page.last

\* A step after which page, stream and rows go on as they were.
Resting ==
  /\ Rests(page') /\ SameChain(page') /\ StoreRests /\ NetRests
  /\ UNCHANGED <<rows, recorded, minted, kept, confirmed, ahead>>

\* Batches that were sound stay so while the stream grows.
LEMMA BatchesKeep ==
  ASSUME Typed, Typed', BatchesSound, StreamSound, Grows, UNCHANGED recorded, Alive' \subseteq Alive, Placed' \subseteq Placed
  PROVE  BatchesSound'
<1> SUFFICES ASSUME NEW b \in Alive' PROVE Sound(b)'
  BY DEF BatchesSound
<1>1. Sound(b)
  BY DEF BatchesSound
<1>2. store.last \in Nat /\ store.raw \in Seq(Nat) /\ store.last <= Len(store.raw)
      /\ Len(store.raw) \in Nat /\ b.first \in Nat
  BY <1>1 DEF Typed, StoreRow, StreamSound, Sound, BatchRow
<1>3. b.first > 1 => b.first - 1 \in 1..Len(store.raw)
  <2>1. b.first <= store.last + 1
    BY <1>1 DEF Sound
  <2>2. \A f, l, n \in Nat : f <= l + 1 /\ l <= n /\ f > 1 => f - 1 \in 1..n
    OBVIOUS
  <2> QED
    BY <1>2, <2>1, <2>2
<1>4. b.first > 1 => store'.raw[b.first - 1] < b.what[1]
  BY <1>1, <1>3 DEF Grows, Sound
<1>5. b.first <= store'.last + 1
  <2>1. store'.last \in Nat /\ store.last <= store'.last /\ b.first <= store.last + 1
    BY <1>1 DEF Typed, StoreRow, Grows, Sound
  <2> QED
    BY <1>2, <2>1
<1> QED
  BY <1>1, <1>4, <1>5 DEF Sound, LastOf, Increasing, Recorded

\* The batches alive after a step in which store, net and page rest.
LEMMA AliveKeeps ==
  ASSUME StoreRests, NetRests, page'.pending = page.pending
  PROVE  Alive' \subseteq Alive
BY DEF StoreRests, NetRests, Alive

\* What follows the head of a sequence.
LEMMA TailFacts ==
  ASSUME NEW S, NEW s \in Seq(S), s # <<>>
  PROVE  /\ Head(s) = s[1] /\ Tail(s) \in Seq(S) /\ 1 \in DOMAIN s
         /\ \A i \in DOMAIN Tail(s) : i + 1 \in DOMAIN s /\ Tail(s)[i] = s[i + 1]
<1>1. /\ Tail(s) \in Seq(S) /\ Len(Tail(s)) = Len(s) - 1 /\ Len(s) \in Nat
      /\ \A i \in 1..Len(Tail(s)) : Tail(s)[i] = s[i + 1]
  BY HeadTailProperties, LenProperties
<1>2. DOMAIN s = 1..Len(s) /\ DOMAIN Tail(s) = 1..Len(Tail(s)) /\ Len(s) # 0
  BY <1>1, LenProperties, EmptySeq
<1> QED
  BY <1>1, <1>2

\* The same for what is placed.
LEMMA PlacedKeeps ==
  ASSUME Typed, UNCHANGED rows, Rests(page')
  PROVE  Placed' \subseteq Placed
<1>1. page.writes \in Seq(Nat \X Nat)
  BY DEF Typed, PageRow
<1>2. CASE page.writes # <<>> /\ page'.writes = Tail(page.writes)
  <2>1. \A i \in DOMAIN Tail(page.writes) :
          i + 1 \in DOMAIN page.writes /\ Tail(page.writes)[i] = page.writes[i + 1]
    BY <1>1, <1>2, TailFacts
  <2>2. {page'.writes[i] : i \in DOMAIN page'.writes} \subseteq {page.writes[i] : i \in DOMAIN page.writes}
    BY <1>2, <2>1
  <2> QED
    BY <2>2 DEF Placed
<1>3. CASE page'.writes \in {page.writes, <<>>}
  BY <1>3 DEF Placed
<1> QED
  BY <1>2, <1>3 DEF Rests

\* A page that goes on with the same queue.
LEMMA QueueKeeps ==
  ASSUME Sane, Grows, UNCHANGED recorded, Rests(page'), store'.last \in Nat, Placed' \subseteq Placed
  PROVE  QueueSound'
<1>1. /\ page.server \in Nat /\ store.last \in Nat /\ store.raw \in Seq(Nat)
      /\ page.server <= store.last /\ store.last <= Len(store.raw) /\ Len(store.raw) \in Nat
  BY DEF Sane, Typed, PageRow, StoreRow, QueueSound, StreamSound
<1>2. page.server > 0 => store'.raw[page.server] = store.raw[page.server]
  <2>1. page.server > 0 => page.server \in 1..Len(store.raw)
    BY <1>1
  <2> QED
    BY <2>1 DEF Grows
<1>3. Live' => Live
  BY DEF Rests, Live
<1>4. page'.server <= store'.last
  BY <1>1 DEF Rests, Grows
<1>5. Increasing(page'.queue) /\ \A i \in DOMAIN page'.queue : page'.queue[i] <= recorded'
  <2>1. page'.queue = page.queue
    BY DEF Rests
  <2> QED
    BY <2>1 DEF Sane, QueueSound, Increasing, Recorded
<1>6. Live' => /\ page'.last = page'.server + Len(page'.queue)
               /\ page'.server > 0 /\ page'.queue # <<>> => store'.raw[page'.server] < page'.queue[1]
               /\ \A p \in Placed' : p[1] > page'.server =>
                    p[1] <= page'.last /\ p[2] = page'.queue[p[1] - page'.server]
  BY <1>2, <1>3 DEF Rests, Sane, QueueSound
<1>7. page'.pending # NoBatch =>
       /\ page'.pending.first = page'.server + 1
       /\ Len(page'.pending.what) <= Len(page'.queue)
       /\ page'.pending.what = SubSeq(page'.queue, 1, Len(page'.pending.what))
  BY DEF Rests, Sane, QueueSound
<1> QED
  BY <1>4, <1>5, <1>6, <1>7 DEF QueueSound, Increasing, Recorded

\* A page at rest stays sound while the session exists.
LEMMA PageKeeps ==
  ASSUME Sane, Rests(page'), store.status # "absent" => store'.status # "absent"
  PROVE  PageSound'
BY DEF Rests, Sane, PageSound, Live

\* A page at rest leaves the requests under way as sound as they were.
LEMMA NetKeeps ==
  ASSUME Sane, Rests(page'), NetRests
  PROVE  NetSound'
<1> SUFFICES ASSUME NEW m \in net' PROVE
      /\ m.kind \in {"append", "finalize"} /\ m.life \in 0..page'.life
      /\ ~Live' => m.life # page'.life
      /\ m.kind = "finalize" /\ m.life = page'.life => m.last \in 0..page'.last
  BY DEF NetSound
<1>1. page.life \in Nat /\ page.last \in Nat /\ page'.life = page.life /\ page'.last = page.last
  BY DEF Rests, Sane, Typed, PageRow
<1>2. Live' <=> Live
  BY DEF Rests, Live
<1> QED
  BY <1>1, <1>2 DEF NetRests, Sane, NetSound

\* Rows that were removed, and a stream that stays.
LEMMA RowsKeep ==
  ASSUME Sane, Placed' \subseteq Placed, \A k \in Number : rows'[k] \in {0, rows[k]},
         store'.raw = store.raw, store'.last = store.last, store'.status = "absent" => store' = store,
         UNCHANGED recorded,
         page'.state = "resuming" => page'.state = page.state /\ page'.server = page.server
  PROVE  RowsSound'
<1>1. \A n : Above(n) => Above(n)'
  BY DEF Above
<1>2. \A n : RowsOrdered(n) => RowsOrdered(n)'
  BY DEF RowsOrdered, Sane, Typed, Number
<1> QED
  BY <1>1, <1>2 DEF Sane, RowsSound, Above, RowsOrdered

\* A step in which nothing of all that moves.
LEMMA RestKeeps ==
  ASSUME Sane, Resting
  PROVE  Sane'
<1>0. Rests(page') /\ StoreRests /\ NetRests /\ UNCHANGED <<rows, recorded, minted, confirmed>>
  BY DEF Resting
<1>1. Typed'
  BY <1>0 DEF Sane, Typed, Rests, StoreRests
<1>2. Alive' \subseteq Alive /\ Placed' \subseteq Placed
  BY <1>0, AliveKeeps, PlacedKeeps DEF Rests, Sane
<1>3. Grows /\ store'.last \in Nat
  BY <1>0, <1>1 DEF Grows, StoreRests, Sane, Typed, StoreRow
<1>4. StreamSound'
  BY <1>0 DEF Sane, StreamSound, StoreRests, Increasing, Recorded
<1>5. RowsSound'
  <2>1. page'.state = "resuming" => page'.state = page.state /\ page'.server = page.server
    BY <1>0 DEF Rests
  <2> QED
    BY <1>0, <1>2, <2>1, RowsKeep DEF StoreRests
<1>6. store.status # "absent" => store'.status # "absent"
  BY <1>0 DEF StoreRests
<1> QED
  BY <1>0, <1>1, <1>2, <1>3, <1>4, <1>5, <1>6, BatchesKeep, QueueKeeps, PageKeeps, NetKeeps DEF Sane
-----------------------------------------------------------------------------
(* Steps after which the queue, the stream and the rows are what they were *)

\* A page that does not change is at rest, and so is its chain of writes.
LEMMA PageRests ==
  ASSUME Sane
  PROVE  Rests(page) /\ SameChain(page)
BY DEF Sane, Typed, Rests, SameChain, PageSound

\* A stop that fails gives back what it took.
LEMMA StopFailsRests ==
  ASSUME Sane, NEW p, Rests(p)
  PROVE  Rests(StopFails(p)) /\ StopFails(p).writes = p.writes /\ StopFails(p).broken = p.broken
<1> DEFINE q == [p EXCEPT !.stop = "none", !.was = FALSE, !.accepting = IF p.overflow THEN @ ELSE p.was]
<1>1. p \in PageRow
  BY DEF Rests
<1>2. /\ q \in PageRow /\ q.life = p.life /\ q.queue = p.queue /\ q.last = p.last /\ q.server = p.server
      /\ q.pending = p.pending /\ q.writes = p.writes /\ q.state = p.state /\ q.flush = p.flush
      /\ q.stop = "none" /\ q.broken = p.broken
  BY <1>1 DEF PageRow
<1>3. Rests(q)
  BY <1>2 DEF Rests
<1> QED
  BY <1>2, <1>3 DEF StopFails

\* So does an attempt that fails.
LEMMA FailedRests ==
  ASSUME Sane, NEW m, NEW again \in BOOLEAN
  PROVE  Rests(Failed(m, again)) /\ SameChain(Failed(m, again))
<1> DEFINE once == [page EXCEPT !.flush = "ready", !.tries = @ + 1]
           over == [page EXCEPT !.flush = "none", !.tries = 0]
<1>1. page \in PageRow
  BY DEF Sane, Typed
<1>2. /\ once \in PageRow /\ once.life = page.life /\ once.queue = page.queue /\ once.last = page.last
      /\ once.server = page.server /\ once.pending = page.pending /\ once.writes = page.writes
      /\ once.state = page.state /\ once.flush = "ready" /\ once.stop = page.stop
      /\ once.accepting = page.accepting /\ once.broken = page.broken
  <2>1. page.tries + 1 \in Nat
    BY <1>1 DEF PageRow
  <2>2. once = [page EXCEPT !.flush = "ready", !.tries = page.tries + 1]
    OBVIOUS
  <2> QED
    BY <1>1, <2>1, <2>2 DEF PageRow
<1>3. /\ over \in PageRow /\ over.life = page.life /\ over.queue = page.queue /\ over.last = page.last
      /\ over.server = page.server /\ over.pending = page.pending /\ over.writes = page.writes
      /\ over.state = page.state /\ over.flush = "none" /\ over.stop = page.stop
      /\ over.accepting = page.accepting /\ over.broken = page.broken
  BY <1>1 DEF PageRow
<1>4. Rests(page) /\ SameChain(page)
  BY PageRests
<1>5. page.flush = "sent" => Rests(once)
  BY <1>2, <1>4 DEF Rests
<1>6. Rests(over)
  BY <1>3, <1>4 DEF Rests
<1>7. page.flush = "sent" => Rests(AttemptFails(page, again)) /\ SameChain(AttemptFails(page, again))
  BY <1>2, <1>3, <1>5, <1>6, StopFailsRests DEF AttemptFails, SameChain
<1>8. Rests(StopFails(page)) /\ SameChain(StopFails(page))
  BY <1>4, StopFailsRests DEF SameChain
<1> QED
  BY <1>4, <1>7, <1>8 DEF Failed, Awaits

\* A store as it was, without its torn line, or in another state.
LEMMA StoreFacts ==
  ASSUME Sane
  PROVE  /\ Truncated(store) \in StoreRow /\ Truncated(store).raw = store.raw
         /\ Truncated(store).last = store.last /\ Truncated(store).journals = store.journals
         /\ Truncated(store).status = store.status
         /\ store.journals \subseteq Alive /\ store \in StoreRow
BY DEF Sane, Typed, StoreRow, Truncated, Alive

\* A session that changes its status only, or is truncated, is at rest.
LEMMA StoreRestsWhenAs ==
  ASSUME Sane, NEW s \in {store, Truncated(store)}, NEW status \in {"collecting", "finalizing", "finalized", "abandoned"},
         store' \in {s, [s EXCEPT !.status = status]}, store.status # "absent"
  PROVE  StoreRests
BY StoreFacts DEF StoreRests, StoreRow

\* A batch under way is a batch.
LEMMA BatchUnderWay ==
  ASSUME Sane, NEW m \in net, m.kind = "append"
  PROVE  m.batch \in Alive /\ Sound(m.batch) /\ m.batch \in BatchRow
BY DEF Sane, BatchesSound, Sound, Alive

\* A batch that is refused leaves at most its journal.
LEMMA RefusedRests ==
  ASSUME Sane, NEW m \in net, m.kind = "append", store' = Refused(store, m.batch)
  PROVE  StoreRests
<1> DEFINE b == m.batch
           j == Journalled(store, b)
<1>1. b \in Alive /\ b \in BatchRow
  BY BatchUnderWay
<1>2. store \in StoreRow /\ store.journals \subseteq Alive
  BY StoreFacts
<1>3. j \in StoreRow /\ j.raw = store.raw /\ j.last = store.last /\ j.status = store.status
      /\ j.journals = store.journals \cup {b}
  BY <1>1, <1>2 DEF StoreRow, Journalled
<1>4. /\ Truncated(j) \in StoreRow /\ Truncated(j).raw = store.raw
      /\ Truncated(j).last = store.last
      /\ Truncated(j).status = store.status /\ Truncated(j).journals = store.journals \cup {b}
  BY <1>3 DEF Truncated, StoreRow
<1>5. store' \in {store, Truncated(store), Truncated(j)}
  BY DEF Refused
<1> QED
  BY <1>1, <1>2, <1>4, <1>5, StoreFacts DEF StoreRests, Refused
\* What the actions below leave alone, in one place.
LEMMA Still ==
  ASSUME Sane, Rests(page'), SameChain(page'),
         UNCHANGED <<store, net, rows, recorded, minted, kept, confirmed, ahead>>
  PROVE  Resting
BY StoreFacts DEF Resting, StoreRests, NetRests

\* The page's timers and its memory: nothing is cut, sent or stored.
LEMMA PageTurns ==
  ASSUME Sane, Overflow \/ AppendRowFails \/ Flush \/ FlushRejected \/ Stop
  PROVE  Resting
<1> USE DEF history
<1>0. page \in PageRow /\ Rests(page)
  BY PageRests DEF Sane, Typed
<1>1. CASE Overflow
  <2> DEFINE p == [page EXCEPT !.accepting = FALSE, !.overflow = TRUE]
  <2>1. Rests(p) /\ SameChain(p)
    BY <1>0 DEF Rests, SameChain, PageRow
  <2> QED
    BY <1>1, <2>1, Still DEF Overflow
<1>2. CASE AppendRowFails
  <2> DEFINE p == [page EXCEPT !.writes = <<>>, !.broken = TRUE, !.accepting = FALSE]
             q == [p EXCEPT !.flush = "none", !.awaited = 0, !.stop = "none", !.was = FALSE]
  <2>1. /\ p \in PageRow /\ p.life = page.life /\ p.queue = page.queue /\ p.last = page.last
        /\ p.server = page.server /\ p.pending = page.pending /\ p.writes = <<>>
        /\ p.state = page.state /\ p.flush = page.flush /\ p.stop = page.stop /\ p.accepting = FALSE
        /\ p.broken
    <3>1. <<>> \in Seq(Nat \X Nat)
      OBVIOUS
    <3> QED
      BY <1>0, <3>1 DEF PageRow
  <2>2. Rests(p) /\ SameChain(p)
    BY <1>0, <2>1 DEF Rests, SameChain
  <2>3. /\ q \in PageRow /\ q.life = p.life /\ q.queue = p.queue /\ q.last = p.last /\ q.server = p.server
        /\ q.pending = p.pending /\ q.writes = p.writes /\ q.state = p.state /\ q.flush = "none"
        /\ q.stop = "none" /\ q.broken = p.broken
    BY <2>1 DEF PageRow
  <2>4. Rests(q) /\ SameChain(q)
    BY <2>2, <2>3 DEF Rests, SameChain
  <2>5. page' \in {p, q}
    BY <1>2 DEF AppendRowFails, Reject
  <2> QED
    BY <1>2, <2>2, <2>4, <2>5, Still DEF AppendRowFails
<1>3. CASE Flush
  <2> DEFINE p == [page EXCEPT !.flush = "waiting", !.awaited = Len(page.writes)]
  <2>1. page.queue # <<>>
    <3>1. page.pending # NoBatch => page.pending.what # <<>> /\ page.pending.what \in Seq(Nat)
      BY DEF Sane, BatchesSound, Alive, Sound, BatchRow
    <3>2. page.pending # NoBatch => Len(page.pending.what) > 0 /\ Len(page.pending.what) <= Len(page.queue)
      BY <3>1 DEF Sane, QueueSound
    <3>3. page.queue \in Seq(Nat)
      BY <1>0 DEF PageRow
    <3> QED
      BY <1>3, <3>1, <3>2, <3>3 DEF Flush
  <2>2. Len(page.writes) \in Nat /\ Live
    BY <1>0, <1>3 DEF PageRow, Flush, Active, Live
  <2>3. /\ p \in PageRow /\ p.life = page.life /\ p.queue = page.queue /\ p.last = page.last
        /\ p.server = page.server /\ p.pending = page.pending /\ p.writes = page.writes
        /\ p.state = page.state /\ p.flush = "waiting" /\ p.stop = page.stop /\ p.accepting = page.accepting
        /\ p.broken = page.broken
    BY <1>0, <2>2 DEF PageRow
  <2>4. Rests(p) /\ SameChain(p)
    BY <1>0, <2>1, <2>2, <2>3 DEF Rests, SameChain
  <2> QED
    BY <1>3, <2>4, Still DEF Flush
<1>4. CASE FlushRejected
  <2> DEFINE p == [page EXCEPT !.flush = "none", !.awaited = 0, !.stop = "none", !.was = FALSE]
  <2>1. Rests(p) /\ SameChain(p)
    BY <1>0 DEF Rests, SameChain, PageRow
  <2> QED
    BY <1>4, <2>1, Still DEF FlushRejected
<1>5. CASE Stop
  <2> DEFINE p == [page EXCEPT !.stop = "draining", !.was = page.accepting, !.accepting = FALSE]
  <2>1. Rests(p) /\ SameChain(p)
    BY <1>0, <1>5 DEF Rests, SameChain, PageRow, Stop, Active, Live
  <2> QED
    BY <1>5, <2>1, Still DEF Stop
<1> QED
  BY <1>1, <1>2, <1>3, <1>4, <1>5

\* A request is sent, refused, lost or cut; the session is given up, closed or
\* taken back: the stream stays.
LEMMA RequestsTurn ==
  ASSUME Sane,
         \/ Send \/ SendFinalize
         \/ \E m \in net : Disconnect(m) \/ RefuseAppend(m) \/ RefuseFinalize(m) \/ CutFinalize(m)
         \/ AbandonStale \/ AbandonPending \/ Deadline \/ Recover
  PROVE  Resting
<1> USE DEF history
<1>0. page \in PageRow /\ Rests(page) /\ SameChain(page) /\ store \in StoreRow /\ store.journals \subseteq Alive
  BY PageRests, StoreFacts DEF Sane, Typed
<1>1. CASE Send
  <2> DEFINE p == [page EXCEPT !.flush = "sent"]
  <2>1. page.pending # NoBatch /\ Live
    BY <1>1 DEF Send, Sane, PageSound
  <2>2. Rests(p) /\ SameChain(p)
    BY <1>0, <1>1, <2>1 DEF Rests, SameChain, PageRow, Send
  <2>3. NetRests
    BY <1>1, <2>1 DEF Send, AppendRequest, NetRests
  <2> QED
    BY <1>0, <1>1, <2>2, <2>3 DEF Resting, Send, StoreRests
<1>2. CASE SendFinalize
  <2> DEFINE p == [page EXCEPT !.stop = "finalizing"]
  <2>1. Live /\ page.queue = <<>> /\ ~page.accepting /\ page.flush = "none"
    BY <1>2 DEF SendFinalize, Sane, PageSound
  <2>2. Rests(p) /\ SameChain(p)
    BY <1>0, <2>1 DEF Rests, SameChain, PageRow
  <2>3. NetRests
    BY <1>2, <2>1 DEF SendFinalize, FinalizeRequest, NetRests
  <2> QED
    BY <1>0, <1>2, <2>2, <2>3 DEF Resting, SendFinalize, StoreRests
<1>3. ASSUME NEW m \in net, Disconnect(m)
      PROVE  Resting
  <2>1. Rests(page') /\ SameChain(page') /\ NetRests /\ UNCHANGED <<store, rows, recorded, minted, kept, confirmed, ahead>>
    BY <1>3, FailedRests DEF Disconnect, NetRests
  <2> QED
    BY <1>0, <2>1 DEF Resting, StoreRests
<1>4. ASSUME NEW m \in net, RefuseAppend(m)
      PROVE  Resting
  <2>1. Retryable(store, m.batch) \in BOOLEAN
    BY DEF Retryable
  <2>2. Rests(page') /\ SameChain(page') /\ NetRests /\ UNCHANGED <<rows, recorded, minted, kept, confirmed, ahead>>
    BY <1>4, <2>1, FailedRests DEF RefuseAppend, NetRests
  <2> QED
    BY <1>4, <2>2, RefusedRests DEF RefuseAppend, Resting
<1>5. ASSUME NEW m \in net, RefuseFinalize(m)
      PROVE  Resting
  <2>1. Rests(page') /\ SameChain(page') /\ NetRests /\ UNCHANGED <<rows, recorded, minted, kept, confirmed, ahead>>
    BY <1>5, FailedRests DEF RefuseFinalize, NetRests
  <2>2. StoreRests
    BY <1>0, <1>5, StoreFacts DEF RefuseFinalize, StoreRests
  <2> QED
    BY <2>1, <2>2 DEF Resting
<1>6. ASSUME NEW m \in net, CutFinalize(m)
      PROVE  Resting
  <2>1. Rests(page') /\ SameChain(page') /\ NetRests /\ UNCHANGED <<rows, recorded, minted, kept, confirmed, ahead>>
    BY <1>6, FailedRests DEF CutFinalize, NetRests
  <2>2. StoreRests
    BY <1>6, StoreRestsWhenAs DEF CutFinalize
  <2> QED
    BY <2>1, <2>2 DEF Resting
<1>7. CASE AbandonStale
  <2>1. StoreRests
    BY <1>7, StoreRestsWhenAs DEF AbandonStale
  <2> QED
    BY <1>0, <1>7, <2>1 DEF Resting, AbandonStale, NetRests
<1>8. CASE AbandonPending
  <2> DEFINE p == [page EXCEPT !.state = "over"]
  <2>1. Rests(p) /\ SameChain(p)
    BY <1>0, <1>8 DEF Rests, SameChain, PageRow, AbandonPending
  <2>2. StoreRests
    BY <1>8, StoreRestsWhenAs DEF AbandonPending
  <2> QED
    BY <1>8, <2>1, <2>2 DEF Resting, AbandonPending, NetRests
<1>9. CASE Deadline
  <2>1. StoreRests
    BY <1>9, StoreRestsWhenAs DEF Deadline, Finalized
  <2> QED
    BY <1>0, <1>9, <2>1 DEF Resting, Deadline, NetRests
<1>10. CASE Recover
  <2>1. StoreRests
    BY <1>10, StoreRestsWhenAs DEF Recover
  <2> QED
    BY <1>0, <1>10, <2>1 DEF Resting, Recover, NetRests
<1> QED
  BY <1>1, <1>2, <1>3, <1>4, <1>5, <1>6, <1>7, <1>8, <1>9, <1>10
-----------------------------------------------------------------------------
(* The page takes up a session, and loses it *)

\* A page without a session.
LEMMA ClosedFacts ==
  ASSUME NEW n \in Nat, NEW state \in {"closed", "failed"}, NEW p, p = [Closed(n) EXCEPT !.state = state]
  PROVE  /\ p \in PageRow /\ p.life = n /\ p.queue = <<>> /\ p.last = 0 /\ p.server = 0
         /\ p.pending = NoBatch /\ p.writes = <<>> /\ p.flush = "none" /\ p.stop = "none"
         /\ p.state = state
         /\ Closed(n) = [Closed(n) EXCEPT !.state = "closed"]
<1>1. <<>> \in Seq(Nat) /\ <<>> \in Seq(Nat \X Nat)
  OBVIOUS
<1>2. NoBatch \in BatchRow
  BY <1>1 DEF NoBatch, BatchRow
<1>3. Closed(n) \in PageRow
  BY <1>1, <1>2 DEF Closed, PageRow
<1> QED
  BY <1>3 DEF Closed, PageRow

\* The session's life ends for the page: it is reloaded, or cannot go on.
Ends ==
  /\ page' = [Closed(page'.life) EXCEPT !.state = page'.state]
  /\ \/ page'.life = page.life /\ ~Live /\ page'.state = "failed"
     \/ page'.life = page.life + 1 /\ page'.state = "closed"
  /\ UNCHANGED <<store, net, rows, recorded, minted, kept, confirmed, ahead>>

\* A page that ends its recording keeps the invariant.
LEMMA PageEnds ==
  ASSUME Sane, Ends
  PROVE  /\ Sane'
         /\ page'.writes = <<>> /\ ~Live' /\ Alive' \subseteq Alive /\ Placed' \subseteq Placed
<1> USE DEF Ends
<1>1. page.life \in Nat /\ page'.life \in Nat
  BY DEF Sane, Typed, PageRow
<1>2. /\ page' \in PageRow /\ page'.queue = <<>> /\ page'.last = 0 /\ page'.server = 0
      /\ page'.pending = NoBatch /\ page'.writes = <<>> /\ page'.flush = "none" /\ page'.stop = "none"
      /\ page'.state \in {"closed", "failed"}
  BY <1>1, ClosedFacts
<1>3. Typed' /\ Alive' \subseteq Alive /\ Placed' \subseteq Placed
  BY <1>2 DEF Sane, Typed, Alive, Placed
<1>4. Grows
  BY DEF Grows, Sane, Typed, StoreRow
<1>5. BatchesSound' /\ StreamSound'
  BY <1>3, <1>4, BatchesKeep DEF Sane, StreamSound, Increasing, Recorded
<1>6. RowsSound'
  BY <1>2, <1>3, RowsKeep DEF Sane, Typed
<1>7. QueueSound' /\ PageSound' /\ ~Live'
  BY <1>2, <1>3 DEF QueueSound, PageSound, Live, Increasing, Recorded, Typed, StoreRow
<1>8. NetSound'
  BY <1>1, <1>7 DEF Sane, NetSound
<1> QED
  BY <1>2, <1>3, <1>5, <1>6, <1>7, <1>8 DEF Sane

\* It learns what the server has: a new session, or one that is there.
Begins ==
  /\ page.state = "closed" /\ page' \in PageRow
  /\ page'.life = page.life /\ page'.queue = page.queue /\ page'.pending = page.pending
  /\ page'.writes = page.writes /\ page'.flush = page.flush /\ page'.stop = page.stop
  /\ page'.last = store.last /\ page'.server = store.last
  /\ \/ page'.state = "resuming"
     \/ page'.state = "active" /\ store.last = 0 /\ Placed = {}
  /\ store' \in StoreRow /\ store'.raw = store.raw /\ store'.last = store.last
  /\ store'.journals = store.journals /\ store'.status # "absent"
  /\ UNCHANGED <<net, rows, recorded, minted, kept, confirmed, ahead>>

\* A page that begins a recording keeps the invariant.
LEMMA PageBegins ==
  ASSUME Sane, Begins
  PROVE  Sane' /\ page'.writes = <<>> /\ Alive' \subseteq Alive /\ Placed' \subseteq Placed
<1> USE DEF Begins
<1>1. /\ page.queue = <<>> /\ page.pending = NoBatch /\ page.writes = <<>> /\ page.flush = "none"
      /\ page.stop = "none" /\ ~Live
  BY DEF Sane, PageSound, Live
<1>2. Typed' /\ Alive' = Alive /\ Placed' = Placed
  BY DEF Sane, Typed, Alive, Placed
<1>3. Grows
  BY DEF Grows, Sane, Typed, StoreRow
<1>4. BatchesSound' /\ StreamSound'
  BY <1>2, <1>3, BatchesKeep DEF Sane, StreamSound, Increasing, Recorded
<1>5. RowsSound'
  BY <1>2 DEF Sane, RowsSound, Above, RowsOrdered
<1>6. QueueSound'
  BY <1>1, <1>2 DEF QueueSound, Live, Increasing, Recorded, Typed, StoreRow, PageRow
<1>7. PageSound'
  BY <1>1 DEF PageSound, Live
<1>8. NetSound'
  BY <1>1 DEF Sane, NetSound
<1> QED
  BY <1>1, <1>2, <1>4, <1>5, <1>6, <1>7, <1>8 DEF Sane

\* Starting, reading the session, bootstrapping and reloading rest, begin or end.
LEMMA TakeUp ==
  ASSUME Sane, Start \/ ReadSession \/ Bootstrap \/ Reload
  PROVE  Resting \/ Begins \/ Ends
<1> USE DEF history
<1>0. page \in PageRow /\ store \in StoreRow /\ Rests(page) /\ SameChain(page)
  BY PageRests DEF Sane, Typed
<1>1. store.status = "absent" =>
        /\ NewSession \in StoreRow /\ NewSession.raw = store.raw
        /\ NewSession.last = store.last /\ store.last = 0
        /\ NewSession.journals = store.journals /\ NewSession.status = "collecting"
        /\ Placed = {}
  <2>1. NoSession.last = 0 /\ NoSession.raw = <<>> /\ NoSession.journals = {}
    BY DEF NoSession
  <2>2. store = NoSession => [store EXCEPT !.status = "collecting"] = NewSession
    BY DEF NewSession
  <2> QED
    BY <1>0, <2>1, <2>2 DEF StoreRow, Sane, RowsSound
<1>3. CASE Start
  <2>0. page.state = "closed" /\ page.last = 0 /\ page.server = 0
        /\ UNCHANGED <<net, rows, recorded, minted, kept, confirmed, ahead>>
    BY <1>3 DEF Start, Sane, PageSound
  <2>1. CASE store' = NewSession /\ page' = [page EXCEPT !.state = "active", !.accepting = TRUE]
    <3>1. page' = [page EXCEPT !.state = "active", !.accepting = TRUE, !.last = 0, !.server = 0]
      BY <1>0, <2>0, <2>1 DEF PageRow
    <3>2. /\ page' \in PageRow /\ page'.life = page.life /\ page'.queue = page.queue
          /\ page'.pending = page.pending /\ page'.writes = page.writes /\ page'.flush = page.flush
          /\ page'.stop = page.stop /\ page'.last = 0 /\ page'.server = 0 /\ page'.state = "active"
      BY <1>0, <3>1 DEF PageRow
    <3> QED
      BY <1>1, <1>3, <2>0, <2>1, <3>2 DEF Begins, Start
  <2>2. CASE UNCHANGED page /\ store' \in {NewSession, [NewSession EXCEPT !.status = "abandoned"]}
    <3>1. StoreRests
      BY <1>1, <1>3, <2>2, StoreFacts DEF Start, StoreRests, StoreRow
    <3> QED
      BY <1>0, <2>0, <2>2, <3>1 DEF Resting, NetRests
  <2> QED
    BY <1>3, <2>1, <2>2 DEF Start
<1>4. ASSUME page.state = "closed", page' = [page EXCEPT !.state = "over"],
             UNCHANGED <<store, net, rows, recorded, minted, kept, confirmed, ahead>>
      PROVE  Resting
  <2> DEFINE p == [page EXCEPT !.state = "over"]
  <2>1. Rests(p) /\ SameChain(p)
    BY <1>0, <1>4 DEF Rests, SameChain, PageRow
  <2> QED
    BY <1>4, <2>1, Still
<1>5. CASE ReadSession
  <2>1. CASE page' = [page EXCEPT !.state = "resuming", !.last = store.last, !.server = store.last]
    <3>0. page.accepting \in BOOLEAN /\ store.last \in Nat
      BY <1>0 DEF PageRow, StoreRow
    <3>1. page' = [page EXCEPT !.state = "resuming", !.accepting = page.accepting, !.last = store.last,
                               !.server = store.last]
      BY <1>0, <2>1 DEF PageRow
    <3>2. store.status # "absent" \/ page' = [page EXCEPT !.state = "over"]
      BY <1>5 DEF ReadSession
    <3>3. /\ page' \in PageRow /\ page'.life = page.life /\ page'.queue = page.queue
          /\ page'.pending = page.pending /\ page'.writes = page.writes /\ page'.flush = page.flush
          /\ page'.stop = page.stop /\ page'.last = store.last /\ page'.server = store.last
          /\ page'.state = "resuming"
      BY <1>0, <3>0, <3>1 DEF PageRow
    <3>4. store.status # "absent"
      BY <1>0, <3>2, <3>3 DEF PageRow
    <3>5. page.state = "closed" /\ UNCHANGED <<store, net, rows, recorded, minted, kept, confirmed, ahead>>
      BY <1>5 DEF ReadSession
    <3> QED
      BY <1>0, <3>3, <3>4, <3>5 DEF Begins
  <2>2. CASE page' = [page EXCEPT !.state = "over"]
    BY <1>4, <1>5, <2>2 DEF ReadSession
  <2> QED
    BY <1>5, <2>1, <2>2 DEF ReadSession
<1>6. CASE Bootstrap
  <2>1. CASE store.status \in {"absent", "collecting"}
    <3>0. page.accepting \in BOOLEAN /\ store.last \in Nat
      BY <1>0 DEF PageRow, StoreRow
    <3>1. page' = [page EXCEPT !.state = "resuming", !.accepting = page.accepting, !.last = store.last,
                               !.server = store.last]
      BY <1>0, <1>6, <2>1 DEF PageRow, Bootstrap
    <3>2. store' = IF store.status = "absent" THEN NewSession ELSE store
      BY <1>6, <2>1 DEF Bootstrap
    <3>3. /\ page' \in PageRow /\ page'.life = page.life /\ page'.queue = page.queue
          /\ page'.pending = page.pending /\ page'.writes = page.writes /\ page'.flush = page.flush
          /\ page'.stop = page.stop /\ page'.last = store.last /\ page'.server = store.last
          /\ page'.state = "resuming"
      BY <1>0, <3>0, <3>1 DEF PageRow
    <3>4. /\ store' \in StoreRow /\ store'.raw = store.raw /\ store'.last = store.last
          /\ store'.journals = store.journals /\ store'.status # "absent"
      BY <1>0, <1>1, <2>1, <3>2
    <3>5. page.state = "closed" /\ UNCHANGED <<net, rows, recorded, minted, kept, confirmed, ahead>>
      BY <1>6 DEF Bootstrap
    <3> QED
      BY <3>3, <3>4, <3>5 DEF Begins
  <2>2. CASE store.status \notin {"absent", "collecting"}
    BY <1>4, <1>6, <2>2 DEF Bootstrap
  <2> QED
    BY <2>1, <2>2
<1>7. CASE Reload
  <2>1. page.life + 1 \in Nat
    BY <1>0 DEF PageRow
  <2> DEFINE p == [Closed(page.life + 1) EXCEPT !.state = "closed"]
  <2>2. p.life = page.life + 1 /\ p.state = "closed" /\ Closed(page.life + 1) = p
    BY <2>1, ClosedFacts
  <2>3. page' = p
    BY <1>7, <2>2 DEF Reload
  <2> QED
    BY <1>7, <2>2, <2>3 DEF Ends, Reload
<1> QED
  BY <1>3, <1>5, <1>6, <1>7
\* What the page finds in IndexedDB when it takes up a session.
LEMMA RemainingFacts ==
  ASSUME MaxSegment \in Nat, Sane, page.state = "resuming", Continuous
  PROVE  /\ Cardinality(Remaining) \in Nat
         /\ \A i \in 1..Cardinality(Remaining) :
              /\ page.server + i \in Number /\ rows[page.server + i] # 0
              /\ <<page.server + i, rows[page.server + i]>> \in Placed
         /\ \A p \in Placed : p[1] > page.server =>
              p[1] <= page.server + Cardinality(Remaining) /\ p[2] = rows[p[1]]
<1>0. page.server \in Nat /\ MaxSegment \in Nat /\ page.writes = <<>> /\ rows \in [Number -> Nat]
  BY DEF Sane, Typed, PageRow, PageSound, Live
<1>1. IsFiniteSet(Remaining)
  <2>1. IsFiniteSet(Number)
    BY <1>0, FS_Interval DEF Number
  <2> QED
    BY <2>1, FS_Subset DEF Remaining
<1>2. Cardinality(Remaining) \in Nat
  BY <1>1, FS_CardinalityType
<1>6. Remaining = page.server + 1 .. page.server + Cardinality(Remaining)
  BY DEF Continuous
<1>3. \A i \in 1..Cardinality(Remaining) : page.server + i \in Remaining
  BY <1>0, <1>2, <1>6
<1>4. \A i \in 1..Cardinality(Remaining) :
        page.server + i \in Number /\ rows[page.server + i] # 0
  BY <1>3 DEF Remaining
<1>5. \A p \in Placed : p[1] > page.server =>
        p[1] <= page.server + Cardinality(Remaining) /\ p[2] = rows[p[1]]
  <2> SUFFICES ASSUME NEW p \in Placed, p[1] > page.server
               PROVE  p[1] <= page.server + Cardinality(Remaining) /\ p[2] = rows[p[1]]
    OBVIOUS
  <2>1. PICK k \in Number : rows[k] # 0 /\ p = <<k, rows[k]>>
    BY <1>0 DEF Placed
  <2>2. k \in Remaining
    BY <2>1 DEF Remaining
  <2>3. k \in page.server + 1 .. page.server + Cardinality(Remaining)
    BY <1>6, <2>2
  <2> QED
    BY <1>0, <1>2, <2>1, <2>3
<1> QED
  BY <1>2, <1>4, <1>5 DEF Placed

\* Rows that leave IndexedDB.
LEMMA RemovedFacts ==
  ASSUME Sane, NEW n, Removed(RemoveThrough(n))
  PROVE  /\ rows' \in [Number -> Nat] /\ \A k \in Number : rows'[k] \in {0, rows[k]}
         /\ page'.writes = page.writes => Placed' \subseteq Placed
<1>1. rows \in [Number -> Nat]
  BY DEF Sane, Typed
<1>2. rows' = RemoveThrough(n) \/ rows' = rows
  BY DEF Removed
<1>3. rows' \in [Number -> Nat] /\ \A k \in Number : rows'[k] \in {0, rows[k]}
  BY <1>1, <1>2 DEF RemoveThrough
<1> QED
  BY <1>3 DEF Placed

\* Rows that leave a gap, or cannot be read, end the page's session.
LEMMA ResumeFails ==
  ASSUME Sane, Resume, page' = [Closed(page.life) EXCEPT !.state = "failed"], UNCHANGED rows
  PROVE  Ends
<1>0. ~Live /\ page.life \in Nat /\ UNCHANGED <<store, net, rows, recorded, minted, kept, confirmed, ahead>>
  BY DEF Sane, Typed, Resume, Live, PageRow, history
<1> DEFINE q == [Closed(page.life) EXCEPT !.state = "failed"]
<1>1. page.life \in Nat
  BY <1>0
<1> HIDE DEF q
<1>2. q.life = page.life /\ q.state = "failed" /\ q = [Closed(page.life) EXCEPT !.state = "failed"]
  <2>1. \A z : z = [Closed(page.life) EXCEPT !.state = "failed"] => z.life = page.life /\ z.state = "failed"
    BY <1>1, ClosedFacts
  <2> QED
    BY <2>1 DEF q
<1>3. page' = q
  BY <1>2
<1>4. page'.life = page.life /\ page'.state = "failed"
  BY <1>2, <1>3
<1>5. page' = [Closed(page'.life) EXCEPT !.state = page'.state]
  BY <1>4
<1> QED
  BY <1>0, <1>4, <1>5 DEF Ends
\* The rows become the queue, in the order in which they were recorded.
LEMMA ResumeKeeps ==
  ASSUME MaxSegment \in Nat, Sane, Resume
  PROVE  Sane'
<1> USE DEF history
<1> DEFINE n == Cardinality(Remaining)
           queue == [i \in 1..n |-> rows[page.server + i]]
           p == [page EXCEPT !.state = "active", !.accepting = TRUE, !.last = page.server + n, !.queue = queue]
<1>0. /\ page \in PageRow /\ page.state = "resuming" /\ ~Live /\ page.server \in Nat
      /\ rows \in [Number -> Nat] /\ UNCHANGED <<store, net, recorded, minted, confirmed>>
  BY DEF Sane, Typed, Resume, Live, PageRow
<1>1. CASE Continuous /\ page' = p /\ Removed(RemoveThrough(page.server))
  <2>1. n \in Nat /\ queue \in [1..n -> Nat]
    BY <1>0, <1>1, RemainingFacts
  <2>2. queue \in Seq(Nat) /\ Len(queue) = n /\ DOMAIN queue = 1..n
    BY <2>1
  <2>3. p \in PageRow /\ p.life = page.life /\ p.queue = queue /\ p.last = page.server + n
        /\ p.server = page.server /\ p.pending = page.pending /\ p.writes = page.writes
        /\ p.flush = page.flush /\ p.stop = page.stop /\ p.state = "active"
    <3>1. page.server + n \in Nat
      BY <1>0, <2>1
    <3> HIDE DEF queue, n
    <3> QED
      BY <1>0, <2>2, <3>1 DEF PageRow
  <2>4. rows' \in [Number -> Nat] /\ (\A k \in Number : rows'[k] \in {0, rows[k]}) /\ Placed' \subseteq Placed
    BY <1>1, <2>3, RemovedFacts
  <2>5. Typed' /\ Alive' \subseteq Alive
    BY <1>0, <1>1, <2>3, <2>4 DEF Sane, Typed, Alive
  <2>6. Grows
    BY <1>0 DEF Grows, Sane, Typed, StoreRow
  <2>7. BatchesSound' /\ StreamSound'
    BY <1>0, <2>4, <2>5, <2>6, BatchesKeep DEF Sane, StreamSound, Increasing, Recorded
  <2>8. RowsSound'
    BY <1>0, <1>1, <2>3, <2>4, RowsKeep
  <2>9. QueueSound'
    <3>1. Increasing(queue)
      <4> SUFFICES ASSUME NEW i \in 1..n, NEW k \in 1..n, i < k PROVE queue[i] < queue[k]
        BY <2>2 DEF Increasing
      <4>1. /\ page.server + i \in Number /\ rows[page.server + i] # 0
            /\ page.server + k \in Number /\ rows[page.server + k] # 0
        BY <1>0, <1>1, RemainingFacts
      <4>2. page.server < page.server + i /\ page.server + i < page.server + k
        BY <1>0, <2>1
      <4>3. RowsOrdered(page.server)
        BY <1>0 DEF Sane, RowsSound
      <4> QED
        BY <4>1, <4>2, <4>3 DEF RowsOrdered
    <3>2. \A i \in 1..n : queue[i] <= recorded
      BY <1>0, <1>1, RemainingFacts DEF Sane, RowsSound
    <3>3. page.server > 0 /\ queue # <<>> => store.raw[page.server] < queue[1]
      <4> SUFFICES ASSUME page.server > 0, queue # <<>> PROVE store.raw[page.server] < queue[1]
        OBVIOUS
      <4>1. 1 \in 1..n
        BY <2>1, <2>2
      <4>2. <<page.server + 1, rows[page.server + 1]>> \in Placed
        BY <1>0, <1>1, <4>1, RemainingFacts
      <4>3. Above(page.server)
        BY <1>0 DEF Sane, RowsSound
      <4>4. rows[page.server + 1] > store.raw[page.server]
        BY <1>0, <4>2, <4>3 DEF Above
      <4>5. queue[1] = rows[page.server + 1]
        BY <4>1
      <4>6. rows[page.server + 1] \in Nat /\ store.raw[page.server] \in Nat
        <5>1. page.server \in 1..Len(store.raw) /\ store.raw \in Seq(Nat)
          BY <1>0 DEF Sane, QueueSound, StreamSound, Typed, StoreRow
        <5>2. page.server + 1 \in Number
          BY <1>0, <1>1, <4>1, RemainingFacts
        <5>3. rows[page.server + 1] \in Nat
          BY <1>0, <5>2
        <5>4. store.raw[page.server] \in Nat
          BY <5>1, ElementOfSeq
        <5> QED
          BY <5>3, <5>4
      <4> HIDE DEF queue, n
      <4> QED
        BY <4>4, <4>5, <4>6
    <3>4. \A q \in Placed' : q[1] > page.server =>
            q[1] <= page.server + n /\ q[2] = queue[q[1] - page.server]
      <4> SUFFICES ASSUME NEW q \in Placed, q[1] > page.server
                   PROVE  q[1] <= page.server + n /\ q[2] = queue[q[1] - page.server]
        BY <2>4
      <4>1. q[1] <= page.server + n /\ q[2] = rows[q[1]] /\ q[1] \in Nat
        BY <1>0, <1>1, RemainingFacts, PlacedType DEF Sane
      <4>2. q[1] - page.server \in 1..n /\ page.server + (q[1] - page.server) = q[1]
        BY <1>0, <2>1, <4>1
      <4> QED
        BY <4>1, <4>2
    <3>5. page.pending = NoBatch /\ page.server <= store.last
      BY <1>0 DEF Sane, PageSound, QueueSound
    <3> HIDE DEF queue, n, p
    <3> QED
      BY <1>0, <1>1, <2>2, <2>3, <3>1, <3>2, <3>3, <3>4, <3>5 DEF QueueSound, Increasing, Recorded
  <2>10. PageSound'
    BY <1>0, <1>1, <2>3 DEF Sane, PageSound, Live
  <2>11. NetSound'
    <3> HIDE DEF p
    <3> QED
      BY <1>0, <1>1, <2>3 DEF Sane, NetSound
  <2> QED
    BY <2>5, <2>7, <2>8, <2>9, <2>10, <2>11 DEF Sane
<1>2. CASE page' = [Closed(page.life) EXCEPT !.state = "failed"] /\ UNCHANGED rows
  BY <1>2, ResumeFails, PageEnds
<1>3. \/ Continuous /\ page' = p /\ Removed(RemoveThrough(page.server))
      \/ page' = [Closed(page.life) EXCEPT !.state = "failed"] /\ UNCHANGED rows
  BY DEF Resume
<1> QED
  BY <1>1, <1>2, <1>3
-----------------------------------------------------------------------------
(* Recording, and cutting a batch *)

\* A segment is appended to a sequence of earlier ones.
LEMMA AppendFacts ==
  ASSUME NEW s \in Seq(Nat), NEW x \in Nat, Increasing(s), \A i \in DOMAIN s : s[i] < x
  PROVE  /\ Append(s, x) \in Seq(Nat) /\ Len(Append(s, x)) = Len(s) + 1 /\ Append(s, x) # <<>>
         /\ Append(s, x)[Len(s) + 1] = x /\ \A i \in 1..Len(s) : Append(s, x)[i] = s[i]
         /\ Increasing(Append(s, x)) /\ \A i \in DOMAIN Append(s, x) : Append(s, x)[i] <= x
<1> DEFINE t == Append(s, x)
<1>1. /\ t \in Seq(Nat) /\ Len(t) = Len(s) + 1 /\ t[Len(s) + 1] = x /\ Len(s) \in Nat
      /\ \A i \in 1..Len(s) : t[i] = s[i]
  OBVIOUS
<1>2. DOMAIN t = 1..Len(s) + 1 /\ DOMAIN s = 1..Len(s)
  BY <1>1
<1>3. \A i \in DOMAIN s : s[i] \in Nat
  BY <1>2, ElementOfSeq
<1> HIDE DEF t
<1>4. Increasing(t)
  <2> SUFFICES ASSUME NEW i \in 1..Len(s) + 1, NEW k \in 1..Len(s) + 1, i < k PROVE t[i] < t[k]
    BY <1>2 DEF Increasing
  <2>1. i \in 1..Len(s)
    BY <1>1
  <2>2. CASE k \in 1..Len(s)
    BY <1>1, <1>2, <2>1, <2>2 DEF Increasing
  <2>3. CASE k = Len(s) + 1
    <3>1. t[i] = s[i] /\ s[i] < x
      BY <1>1, <1>2, <2>1
    <3>2. t[k] = x
      BY <1>1, <2>3
    <3> QED
      BY <3>1, <3>2
  <2>4. k \in 1..Len(s) \/ k = Len(s) + 1
    <3>1. \A n \in Nat : \A v \in 1..n + 1 : v \in 1..n \/ v = n + 1
      OBVIOUS
    <3> QED
      BY <1>1, <3>1
  <2> QED
    BY <2>2, <2>3, <2>4
<1>5. \A i \in DOMAIN t : t[i] <= x
  <2> SUFFICES ASSUME NEW i \in 1..Len(s) + 1 PROVE t[i] <= x
    BY <1>2
  <2>1. CASE i \in 1..Len(s)
    <3>1. t[i] = s[i] /\ s[i] < x /\ s[i] \in Nat
      BY <1>1, <1>2, <1>3, <2>1
    <3> QED
      BY <3>1
  <2>2. CASE i = Len(s) + 1
    BY <1>1, <2>2
  <2> QED
    BY <1>1, <2>1, <2>2
<1>6. t # <<>>
  BY <1>1
<1> QED
  BY <1>1, <1>4, <1>5, <1>6 DEF t

\* The beginning of a sequence.
LEMMA Beginning ==
  ASSUME NEW s \in Seq(Nat), NEW l \in Nat, l <= Len(s)
  PROVE  /\ SubSeq(s, 1, l) \in Seq(Nat) /\ Len(SubSeq(s, 1, l)) = l
         /\ \A i \in 1..l : SubSeq(s, 1, l)[i] = s[i]
<1>1. \A i \in 1..l : s[i] \in Nat
  <2>1. \A i \in 1..l : i \in 1..Len(s)
    BY LenProperties
  <2> QED
    BY <2>1, ElementOfSeq
<1>2. l \in Int /\ 1 \in Int /\ (IF 1 <= l THEN l - 1 + 1 ELSE 0) = l
  OBVIOUS
<1> DEFINE a == SubSeq(s, 1, l)
<1>3. a \in Seq(Nat) /\ Len(a) = l /\ \A i \in 1..l : a[i] = s[1 + i - 1]
  BY <1>1, <1>2, SubSeqProperties
<1> HIDE DEF a
<1>4. \A i \in 1..l : 1 + i - 1 = i
  OBVIOUS
<1>5. \A i \in 1..l : a[i] = s[i]
  BY <1>3, <1>4
<1> QED
  BY <1>3, <1>5 DEF a

\* Sequences that begin alike.
LEMMA SameBeginning ==
  ASSUME NEW s \in Seq(Nat), NEW t \in Seq(Nat), NEW l \in Nat, l <= Len(s), l <= Len(t),
         \A i \in 1..l : s[i] = t[i]
  PROVE  SubSeq(s, 1, l) = SubSeq(t, 1, l)
<1> DEFINE a == SubSeq(s, 1, l)
           b == SubSeq(t, 1, l)
<1>1. a \in Seq(Nat) /\ Len(a) = l /\ \A i \in 1..l : a[i] = s[i]
  BY Beginning
<1>2. b \in Seq(Nat) /\ Len(b) = l /\ \A i \in 1..l : b[i] = t[i]
  BY Beginning
<1>3. \A i \in 1..l : s[i] = t[i]
  OBVIOUS
<1> HIDE DEF a, b
<1>4. \A i \in 1..Len(a) : a[i] = b[i]
  BY <1>1, <1>2, <1>3
<1>5. a = b
  BY <1>1, <1>2, <1>4, SeqEqual
<1> QED
  BY <1>5 DEF a, b

\* A segment is recorded: it comes after all there is.
LEMMA EnqueueKeeps ==
  ASSUME Sane, Enqueue
  PROVE  /\ Sane' /\ Alive' = Alive /\ \A q \in Placed' : q \in Placed \/ q = <<page.last + 1, recorded + 1>>
         /\ page'.last = page.last + 1 /\ page'.server = page.server /\ page'.broken = page.broken
         /\ page'.writes = IF page.broken THEN page.writes
                           ELSE Append(page.writes, <<page.last + 1, recorded + 1>>)
<1> DEFINE new == recorded + 1
           queue == Append(page.queue, new)
           writes == IF page.broken THEN page.writes ELSE Append(page.writes, <<page.last + 1, new>>)
           p == [page EXCEPT !.queue = queue, !.last = page.last + 1, !.accepting = ~page.broken, !.writes = writes]
<1>0. /\ page \in PageRow /\ Live /\ page.state = "active" /\ page.accepting /\ recorded \in Nat
      /\ page.queue \in Seq(Nat) /\ page.writes \in Seq(Nat \X Nat) /\ page.last \in Nat
      /\ page.broken \in BOOLEAN
      /\ page.server \in Nat /\ store.raw \in Seq(Nat) /\ store.last \in Nat
      /\ recorded' = new /\ UNCHANGED <<rows, store, net, minted, confirmed>>
  BY DEF Sane, Typed, PageRow, StoreRow, Enqueue, Active, Live
<1>1. page' = p
  BY <1>0 DEF Enqueue, PageRow
<1>2. /\ \A i \in DOMAIN page.queue : page.queue[i] <= recorded /\ page.queue[i] \in Nat
      /\ Increasing(page.queue)
  <2>1. \A i \in DOMAIN page.queue : page.queue[i] \in Nat
    BY <1>0, ElementOfSeq
  <2> QED
    BY <2>1 DEF Sane, QueueSound, Recorded
<1>3. /\ queue \in Seq(Nat) /\ Len(queue) = Len(page.queue) + 1 /\ queue # <<>>
      /\ queue[Len(page.queue) + 1] = new /\ \A i \in 1..Len(page.queue) : queue[i] = page.queue[i]
      /\ Increasing(queue) /\ \A i \in DOMAIN queue : queue[i] <= new
  <2>1. new \in Nat /\ \A i \in DOMAIN page.queue : page.queue[i] < new
    BY <1>0, <1>2
  <2> QED
    BY <1>0, <1>2, <2>1, AppendFacts
<1>4. writes \in Seq(Nat \X Nat)
      /\ \A i \in DOMAIN writes : writes[i] = <<page.last + 1, new>> \/ \E k \in DOMAIN page.writes : writes[i] = page.writes[k]
  <2>1. <<page.last + 1, new>> \in Nat \X Nat
    BY <1>0
  <2> DEFINE row == <<page.last + 1, new>>
  <2> HIDE DEF row
  <2>2. /\ Append(page.writes, row) \in Seq(Nat \X Nat)
        /\ \A i \in DOMAIN Append(page.writes, row) :
             Append(page.writes, row)[i] = row
               \/ \E k \in DOMAIN page.writes : Append(page.writes, row)[i] = page.writes[k]
    <3>1. row \in Nat \X Nat /\ page.writes \in Seq(Nat \X Nat)
      BY <1>0, <2>1 DEF row
    <3>2. /\ Append(page.writes, row) \in Seq(Nat \X Nat)
          /\ \A i \in DOMAIN Append(page.writes, row) :
               Append(page.writes, row)[i] = row
                 \/ (i \in DOMAIN page.writes /\ Append(page.writes, row)[i] = page.writes[i])
      BY <3>1, AppendProperties, LenProperties
    <3> QED
      BY <3>2
  <2>3. page.broken => writes = page.writes
    OBVIOUS
  <2>4. ~page.broken => writes = Append(page.writes, row)
    BY DEF row
  <2>5. writes \in Seq(Nat \X Nat)
        /\ \A i \in DOMAIN writes : writes[i] = row \/ \E k \in DOMAIN page.writes : writes[i] = page.writes[k]
    <3> HIDE DEF writes
    <3>1. CASE page.broken
      BY <1>0, <2>3, <3>1
    <3>2. CASE ~page.broken
      BY <2>2, <2>4, <3>2
    <3> QED
      BY <3>1, <3>2
  <2> QED
    BY <2>5 DEF row
<1>5. /\ p \in PageRow /\ p.life = page.life /\ p.queue = queue /\ p.last = page.last + 1
      /\ p.server = page.server /\ p.pending = page.pending /\ p.writes = writes /\ p.broken = page.broken
      /\ p.flush = page.flush /\ p.stop = page.stop /\ p.state = "active"
  <2>1. page.last + 1 \in Nat
    BY <1>0
  <2> HIDE DEF queue, writes
  <2> QED
    BY <1>0, <1>3, <1>4, <2>1 DEF PageRow
<1> HIDE DEF queue, writes, p
<1>6. \A q \in Placed' : q \in Placed \/ q = <<page.last + 1, new>>
  <2> SUFFICES ASSUME NEW q \in Placed' PROVE q \in Placed \/ q = <<page.last + 1, new>>
    OBVIOUS
  <2>1. CASE q \in {<<n, rows[n]>> : n \in {k \in Number : rows[k] # 0}}
    BY <2>1 DEF Placed
  <2>2. CASE \E i \in DOMAIN writes : q = writes[i]
    BY <1>4, <2>2 DEF Placed
  <2> QED
    BY <1>0, <1>1, <1>5, <2>1, <2>2 DEF Placed
<1>7. Typed' /\ Alive' = Alive
  BY <1>0, <1>1, <1>5 DEF Sane, Typed, Alive
<1>8. BatchesSound'
  <2> SUFFICES ASSUME NEW b \in Alive PROVE Sound(b)'
    BY <1>7 DEF BatchesSound
  <2>1. Sound(b) /\ b.what \in Seq(Nat) /\ b.what # <<>>
    BY DEF Sane, BatchesSound, Sound, BatchRow
  <2>2. \A i \in DOMAIN b.what : b.what[i] \in Nat /\ b.what[i] <= recorded /\ b.what[i] < new
    <3>1. \A i \in DOMAIN b.what : b.what[i] \in Nat
      BY <2>1, ElementOfSeq
    <3>2. \A i \in DOMAIN b.what : b.what[i] <= recorded
      BY <2>1 DEF Sound, Recorded
    <3> QED
      BY <1>0, <3>1, <3>2
  <2>3. Recorded(b.what)'
    BY <1>0, <2>2 DEF Recorded
  <2>4. Len(b.what) \in DOMAIN b.what
    BY <2>1
  <2>5. \A q \in Placed' : q[1] > LastOf(b) => q[2] > b.what[Len(b.what)]
    BY <1>0, <1>6, <2>1, <2>2, <2>4 DEF Sound
  <2> QED
    BY <1>0, <2>1, <2>3, <2>5 DEF Sound, LastOf, Increasing
<1>9. \A i \in DOMAIN store.raw : store.raw[i] \in Nat /\ store.raw[i] <= recorded /\ store.raw[i] < new
  <2>1. \A i \in DOMAIN store.raw : store.raw[i] \in Nat
    BY <1>0, ElementOfSeq
  <2>2. \A i \in DOMAIN store.raw : store.raw[i] <= recorded
    BY DEF Sane, StreamSound, Recorded
  <2> QED
    BY <1>0, <2>1, <2>2
<1>10. StreamSound'
  BY <1>0, <1>9 DEF Sane, StreamSound, Increasing, Recorded
<1>11. store.status # "absent" /\ page.server <= store.last /\ store.last <= Len(store.raw)
       /\ Len(store.raw) \in Nat /\ DOMAIN store.raw = 1..Len(store.raw)
  BY <1>0 DEF Sane, PageSound, QueueSound, StreamSound
<1>12. RowsSound'
  <2>1. \A q \in Placed' : q[2] <= new
    <3>1. \A q \in Placed : q[2] \in Nat /\ q[2] <= recorded
      BY PlacedType DEF Sane, RowsSound
    <3>2. \A n \in Nat : n <= recorded => n <= new
      BY <1>0
    <3>3. new <= new
      BY <1>0
    <3>4. \A q : q = <<page.last + 1, new>> => q[2] = new
      OBVIOUS
    <3> QED
      BY <1>6, <3>1, <3>2, <3>3, <3>4
  <2>2. Above(store.last)'
    <3>1. store.last > 0 => new > store.raw[store.last]
      <4>1. store.last > 0 => store.last \in DOMAIN store.raw
        BY <1>0, <1>11
      <4> QED
        BY <1>0, <1>9, <4>1
    <3>2. Above(store.last)
      BY DEF Sane, RowsSound
    <3>3. \A q : q = <<page.last + 1, new>> => q[2] = new
      OBVIOUS
    <3>4. \A q \in Placed' : q[1] > store.last /\ store.last > 0 => q[2] > store.raw[store.last]
      <4> HIDE DEF new
      <4> QED
        BY <1>6, <3>1, <3>2, <3>3 DEF Above
    <3> QED
      BY <1>0, <3>4 DEF Above
  <2> QED
    BY <1>0, <1>1, <1>5, <1>11, <2>1, <2>2 DEF Sane, RowsSound, RowsOrdered
<1>13. QueueSound'
  <2>0. /\ page.last = page.server + Len(page.queue)
        /\ page.server > 0 /\ page.queue # <<>> => store.raw[page.server] < page.queue[1]
        /\ \A q \in Placed : q[1] > page.server =>
             q[1] <= page.last /\ q[2] = page.queue[q[1] - page.server]
    BY <1>0 DEF Sane, QueueSound
  <2>1. Len(page.queue) \in Nat
    BY <1>0
  <2>2. page.last + 1 = page.server + Len(queue)
    <3>1. Len(queue) = Len(page.queue) + 1 /\ page.last = page.server + Len(page.queue)
      BY <1>3, <2>0
    <3>2. \A a, n, k, m \in Nat : m = k + 1 /\ a = n + k => a + 1 = n + m
      OBVIOUS
    <3>3. page.last \in Nat /\ page.server \in Nat /\ Len(queue) \in Nat
      BY <1>0, <1>3
    <3> QED
      BY <2>1, <3>1, <3>2, <3>3
  <2>3. page.server > 0 => store.raw[page.server] < queue[1]
    <3>1. CASE page.queue = <<>>
      <4>1. queue[1] = new
        BY <1>3, <3>1
      <4>2. page.server > 0 => page.server \in DOMAIN store.raw
        BY <1>0, <1>11
      <4> QED
        BY <1>9, <4>1, <4>2
    <3>2. CASE page.queue # <<>>
      <4>1. 1 \in 1..Len(page.queue)
        BY <1>0, <3>2
      <4> QED
        BY <1>3, <2>0, <3>2, <4>1
    <3> QED
      BY <3>1, <3>2
  <2>4. \A q \in Placed' : q[1] > page.server =>
          q[1] <= page.last + 1 /\ q[2] = queue[q[1] - page.server]
    <3> SUFFICES ASSUME NEW q \in Placed', q[1] > page.server
                 PROVE  q[1] <= page.last + 1 /\ q[2] = queue[q[1] - page.server]
      OBVIOUS
    <3>1. CASE q \in Placed
      <4>1. q[1] \in Nat /\ q[1] <= page.last /\ q[2] = page.queue[q[1] - page.server]
        BY <2>0, <3>1, PlacedType DEF Sane
      <4>2. \A n \in Nat : n > page.server /\ n <= page.last => n - page.server \in 1..Len(page.queue) /\ n <= page.last + 1
        <5>1. \A n, a, b, c \in Nat : a = b + c /\ n > b /\ n <= a => n - b \in 1..c /\ n <= a + 1
          OBVIOUS
        <5>2. page.last = page.server + Len(page.queue)
          BY <2>0
        <5> QED
          BY <1>0, <2>1, <5>1, <5>2
      <4>3. q[1] - page.server \in 1..Len(page.queue) /\ q[1] <= page.last + 1
        BY <4>1, <4>2
      <4> QED
        BY <1>3, <4>1, <4>3
    <3>2. CASE q = <<page.last + 1, new>>
      <4>1. q[1] = page.last + 1 /\ q[2] = new
        BY <3>2
      <4>2. page.last = page.server + Len(page.queue)
        BY <2>0
      <4>3. q[1] - page.server = Len(page.queue) + 1 /\ q[1] <= page.last + 1
        BY <1>0, <2>1, <4>1, <4>2
      <4> QED
        BY <1>3, <4>1, <4>3
    <3> QED
      BY <1>6, <3>1, <3>2
  <2>5. page.pending # NoBatch =>
          /\ page.pending.first = page.server + 1
          /\ Len(page.pending.what) <= Len(queue)
          /\ page.pending.what = SubSeq(queue, 1, Len(page.pending.what))
    <3> SUFFICES ASSUME page.pending # NoBatch
                 PROVE  /\ page.pending.first = page.server + 1
                        /\ Len(page.pending.what) <= Len(queue)
                        /\ page.pending.what = SubSeq(queue, 1, Len(page.pending.what))
      OBVIOUS
    <3> DEFINE l == Len(page.pending.what)
    <3>1. page.pending.what \in Seq(Nat) /\ l \in Nat
      BY <1>0 DEF PageRow, BatchRow
    <3>2. page.pending.first = page.server + 1 /\ l <= Len(page.queue)
          /\ page.pending.what = SubSeq(page.queue, 1, l)
      BY DEF Sane, QueueSound
    <3> HIDE DEF l
    <3>3. SubSeq(queue, 1, l) = SubSeq(page.queue, 1, l)
      <4>1. /\ queue \in Seq(Nat) /\ page.queue \in Seq(Nat) /\ l \in Nat /\ l <= Len(page.queue)
            /\ Len(queue) = Len(page.queue) + 1 /\ Len(page.queue) \in Nat
            /\ \A i \in 1..Len(page.queue) : queue[i] = page.queue[i]
        BY <1>0, <1>3, <2>1, <3>1, <3>2
      <4>2. l <= Len(queue)
        BY <4>1
      <4>3. \A i \in 1..l : queue[i] = page.queue[i]
        <5>1. \A x, y, i \in Nat : i \in 1..x /\ x <= y => i \in 1..y
          OBVIOUS
        <5>2. \A i \in 1..l : i \in 1..Len(page.queue)
          BY <4>1, <5>1
        <5> QED
          BY <4>1, <5>2
      <4> QED
        BY <4>1, <4>2, <4>3, SameBeginning
    <3> QED
      BY <1>3, <2>1, <3>1, <3>2, <3>3 DEF l
  <2> QED
    BY <1>0, <1>1, <1>3, <1>5, <1>11, <2>2, <2>3, <2>4, <2>5 DEF QueueSound, Live, Increasing, Recorded
<1>14. PageSound'
  <2>1. page.stop = "none" /\ page.state # "finalized"
    BY <1>0 DEF Sane, PageSound
  <2> QED
    BY <1>0, <1>1, <1>3, <1>5, <2>1 DEF Sane, PageSound, Live
<1>15. NetSound'
  <2>1. Live' /\ page'.life = page.life /\ page'.last = page.last + 1
    BY <1>1, <1>5 DEF Live
  <2> QED
    BY <1>0, <2>1 DEF Sane, NetSound
<1>16. Sane'
  BY <1>7, <1>8, <1>10, <1>12, <1>13, <1>14, <1>15 DEF Sane
<1> QED
  BY <1>1, <1>5, <1>6, <1>7, <1>16 DEF writes

\* A row is written: it was placed before, and now it may be read.
LEMMA AppendRowKeeps ==
  ASSUME Sane, AppendRow
  PROVE  /\ Sane' /\ Live /\ Alive' \subseteq Alive /\ Placed' \subseteq Placed
         /\ page'.writes = Tail(page.writes) /\ page'.broken = page.broken /\ page'.state = page.state
         /\ page'.last = page.last /\ page'.server = page.server
<1> DEFINE n == Head(page.writes)[1]
           c == Head(page.writes)[2]
           p == [page EXCEPT !.writes = Tail(page.writes), !.awaited = Settled]
<1>0. /\ page \in PageRow /\ page.writes \in Seq(Nat \X Nat) /\ page.writes # <<>>
      /\ page.awaited \in Nat /\ rows \in [Number -> Nat]
      /\ rows' = [rows EXCEPT ![n] = c]
      /\ UNCHANGED <<store, net, recorded, minted, confirmed>>
  BY DEF Sane, Typed, PageRow, AppendRow
<1>1. page' = p
  BY DEF AppendRow
<1>2. /\ n \in Nat /\ c \in Nat /\ <<n, c>> \in Placed /\ Tail(page.writes) \in Seq(Nat \X Nat)
      /\ \A i \in DOMAIN Tail(page.writes) : \E k \in DOMAIN page.writes : Tail(page.writes)[i] = page.writes[k]
  <2>1. /\ Head(page.writes) = page.writes[1] /\ Tail(page.writes) \in Seq(Nat \X Nat)
        /\ 1 \in DOMAIN page.writes
        /\ \A i \in DOMAIN Tail(page.writes) :
             i + 1 \in DOMAIN page.writes /\ Tail(page.writes)[i] = page.writes[i + 1]
    BY <1>0, TailFacts
  <2>2. page.writes[1] \in Nat \X Nat /\ page.writes[1] \in Placed
    BY <1>0, <2>1, ElementOfSeq DEF Placed
  <2>3. \A w \in Nat \X Nat : w[1] \in Nat /\ w[2] \in Nat /\ w = <<w[1], w[2]>>
    OBVIOUS
  <2>4. n \in Nat /\ c \in Nat /\ <<n, c>> \in Placed
    <3>1. Head(page.writes) \in Nat \X Nat /\ Head(page.writes) \in Placed
      BY <2>1, <2>2
    <3> QED
      BY <2>3, <3>1
  <2>5. \A i \in DOMAIN Tail(page.writes) : \E k \in DOMAIN page.writes : Tail(page.writes)[i] = page.writes[k]
    BY <2>1
  <2> QED
    BY <2>1, <2>4, <2>5
<1>3. Settled \in Nat
  BY <1>0 DEF Settled
<1>4. p \in PageRow /\ p.life = page.life /\ p.queue = page.queue /\ p.last = page.last
      /\ p.server = page.server /\ p.pending = page.pending /\ p.writes = Tail(page.writes)
      /\ p.flush = page.flush /\ p.stop = page.stop /\ p.state = page.state /\ p.accepting = page.accepting
      /\ p.broken = page.broken
  BY <1>0, <1>2, <1>3 DEF PageRow
<1> HIDE DEF p
<1>5. Rests(page')
  BY <1>0, <1>1, <1>4, PageRests DEF Rests
<1>6. rows' \in [Number -> Nat] /\ \A k \in Number : rows'[k] = rows[k] \/ (k = n /\ rows'[k] = c)
  BY <1>0, <1>2
<1>7. Placed' \subseteq Placed
  <2> SUFFICES ASSUME NEW q \in Placed' PROVE q \in Placed
    OBVIOUS
  <2>1. CASE \E k \in Number : rows'[k] # 0 /\ q = <<k, rows'[k]>>
    <3>1. PICK k \in Number : rows'[k] # 0 /\ q = <<k, rows'[k]>>
      BY <2>1
    <3>2. CASE rows'[k] = rows[k]
      BY <3>1, <3>2 DEF Placed
    <3>3. CASE k = n /\ rows'[k] = c
      BY <1>2, <3>1, <3>3
    <3> QED
      BY <1>6, <3>2, <3>3
  <2>2. CASE \E i \in DOMAIN Tail(page.writes) : q = Tail(page.writes)[i]
    BY <1>2, <2>2 DEF Placed
  <2> QED
    BY <1>1, <1>4, <2>1, <2>2 DEF Placed
<1>8. Typed' /\ Alive' \subseteq Alive /\ Grows
  <2>1. Typed'
    BY <1>0, <1>1, <1>4, <1>6 DEF Sane, Typed
  <2>2. Alive' \subseteq Alive
    BY <1>0, <1>1, <1>4 DEF Alive
  <2>3. Grows
    BY <1>0 DEF Sane, Typed, StoreRow, Grows
  <2> QED
    BY <2>1, <2>2, <2>3
<1>9. BatchesSound' /\ StreamSound'
  BY <1>0, <1>7, <1>8, BatchesKeep DEF Sane, StreamSound, Increasing, Recorded
<1>10. QueueSound' /\ PageSound' /\ NetSound'
  <2>1. NetRests /\ store'.last \in Nat /\ (store.status # "absent" => store'.status # "absent")
    BY <1>0, <1>8 DEF NetRests, Typed, StoreRow
  <2> QED
    BY <1>0, <1>5, <1>7, <1>8, <2>1, QueueKeeps, PageKeeps, NetKeeps
<1>11. Live /\ store.status # "absent" /\ page.state # "resuming"
  BY <1>0 DEF Sane, PageSound, Live
<1>12. RowsSound'
  <2>1. \A q \in Placed' : q[2] <= recorded'
    BY <1>0, <1>7 DEF Sane, RowsSound
  <2>2. Above(store.last)'
    BY <1>0, <1>7 DEF Sane, RowsSound, Above
  <2>3. RowsOrdered(store.last)'
    <3> SUFFICES ASSUME NEW i \in Number, NEW k \in Number, store.last < i, i < k, rows'[i] # 0, rows'[k] # 0
                 PROVE  rows'[i] < rows'[k]
      BY <1>0 DEF RowsOrdered
    <3>1. <<i, rows'[i]>> \in Placed /\ <<k, rows'[k]>> \in Placed
      BY <1>7 DEF Placed
    <3>2. /\ page.server \in Nat /\ store.last \in Nat /\ page.server <= store.last /\ i \in Nat /\ k \in Nat
          /\ page.queue \in Seq(Nat) /\ page.last \in Nat /\ page.last = page.server + Len(page.queue)
          /\ Increasing(page.queue)
      BY <1>11 DEF Sane, Typed, PageRow, StoreRow, QueueSound, Number
    <3>3. page.server < i /\ page.server < k
      BY <3>2
    <3>4. /\ rows'[i] = page.queue[i - page.server] /\ i <= page.last
          /\ rows'[k] = page.queue[k - page.server] /\ k <= page.last
      BY <1>11, <3>1, <3>3 DEF Sane, QueueSound
    <3>5. /\ i - page.server \in DOMAIN page.queue /\ k - page.server \in DOMAIN page.queue
          /\ i - page.server < k - page.server
      <4>1. DOMAIN page.queue = 1..Len(page.queue) /\ Len(page.queue) \in Nat
        BY <3>2
      <4>2. \A a, l, x \in Nat : x > a /\ x <= a + l => x - a \in 1..l
        OBVIOUS
      <4>3. i - page.server < k - page.server
        BY <3>2
      <4> QED
        BY <3>2, <3>3, <3>4, <4>1, <4>2, <4>3
    <3> QED
      BY <3>2, <3>4, <3>5 DEF Increasing
  <2> QED
    BY <1>0, <1>1, <1>4, <1>11, <2>1, <2>2, <2>3 DEF RowsSound
<1> QED
  BY <1>1, <1>4, <1>7, <1>8, <1>9, <1>10, <1>11, <1>12 DEF Sane

\* A batch that was cut before is kept as it was.
LEMMA CutBefore ==
  ASSUME Sane, CreateBatch, page.pending # NoBatch
  PROVE  Resting
<1> DEFINE again == [page EXCEPT !.flush = "ready"]
<1>0. page \in PageRow /\ page.flush = "waiting" /\ page.queue # <<>> /\ Live
  BY DEF Sane, Typed, PageSound, CreateBatch
<1>1. page' = again /\ UNCHANGED <<store, net, rows, recorded, minted, kept, confirmed, ahead>>
  BY DEF CreateBatch
<1>2. again \in PageRow /\ again.life = page.life /\ again.queue = page.queue /\ again.last = page.last
      /\ again.server = page.server /\ again.pending = page.pending /\ again.writes = page.writes
      /\ again.flush = "ready" /\ again.stop = page.stop /\ again.state = page.state
      /\ again.accepting = page.accepting /\ again.broken = page.broken
  BY <1>0 DEF PageRow
<1> HIDE DEF again
<1>3. Rests(page') /\ SameChain(page')
  BY <1>0, <1>1, <1>2, PageRests DEF Rests, SameChain
<1> QED
  BY <1>1, <1>3, Still

\* A batch is cut from the queue, which continues what is counted.
Cuts(b) ==
  /\ Live /\ page'.writes = page.writes /\ page'.broken = page.broken
  /\ page'.last = page.last /\ page'.server = page.server
  /\ b.first = page.server + 1 /\ FirstQueued = page.server + 1
  /\ LastOf(b) = page.server + Len(b.what) /\ Len(b.what) \in 1..Len(page.queue)
  /\ Len(b.what) <= MaxBatchSize
  /\ Alive' \subseteq Alive \cup {b} /\ Placed' = Placed
  /\ ahead' = (ahead \/ ~Written(b.what)) /\ UNCHANGED <<store, rows, recorded, kept>>

\* Cutting a batch from the queue keeps the invariant.
LEMMA CreateBatchKeeps ==
  ASSUME MaxBatchSize \in Nat \ {0}, Sane, CreateBatch
  PROVE  Sane' /\ (Resting \/ \E b : Cuts(b))
<1> DEFINE n == IF Len(page.queue) < MaxBatchSize THEN Len(page.queue) ELSE MaxBatchSize
           what == SubSeq(page.queue, 1, n)
           b == [id |-> minted + 1, first |-> FirstQueued, what |-> what]
           p == [page EXCEPT !.flush = "ready", !.pending = b]
<1>0. /\ page \in PageRow /\ page.queue \in Seq(Nat) /\ page.queue # <<>> /\ Live
      /\ page.server \in Nat /\ page.last \in Nat /\ page.last = page.server + Len(page.queue)
      /\ minted \in Nat /\ Len(page.queue) \in Nat /\ MaxBatchSize \in Nat \ {0} /\ store.last \in Nat
      /\ UNCHANGED <<store, net, rows, recorded, confirmed>>
  <2>1. page.flush = "waiting"
    BY DEF CreateBatch
  <2>2. Live /\ page.queue # <<>>
    BY <2>1 DEF Sane, PageSound
  <2>4. page \in PageRow /\ store \in StoreRow /\ minted \in Nat /\ page.last = page.server + Len(page.queue)
    BY <2>2 DEF Sane, Typed, QueueSound
  <2>5. /\ page.queue \in Seq(Nat) /\ page.server \in Nat /\ page.last \in Nat /\ store.last \in Nat
        /\ Len(page.queue) \in Nat
    BY <2>4 DEF PageRow, StoreRow
  <2> QED
    BY <2>2, <2>4, <2>5 DEF CreateBatch
<1>1. CASE page.pending # NoBatch
  BY <1>1, CutBefore, RestKeeps
<1>2. CASE page.pending = NoBatch
  <2>0. page.queue \in Seq(Nat) /\ Len(page.queue) \in Nat \ {0} /\ page.server \in Nat /\ store.last \in Nat
    BY <1>0
  <2>1. /\ page' = p /\ minted' = minted + 1
        /\ ahead' = (ahead \/ ~Written(what)) /\ UNCHANGED kept
    BY <1>2 DEF CreateBatch
  <2>2. n \in 1..Len(page.queue) /\ n <= MaxBatchSize
    <3>1. \A q, m \in Nat \ {0} : (IF q < m THEN q ELSE m) \in 1..q /\ (IF q < m THEN q ELSE m) <= m
      OBVIOUS
    <3> QED
      BY <2>0, <3>1
  <2>3. /\ what \in Seq(Nat) /\ Len(what) = n /\ DOMAIN what = 1..n /\ what # <<>>
        /\ \A i \in 1..n : what[i] = page.queue[i]
    <3> HIDE DEF n
    <3>0. n \in Nat /\ page.queue \in Seq(Nat) /\ n <= Len(page.queue)
      BY <2>0, <2>2
    <3>1. /\ what \in Seq(Nat) /\ Len(what) = n /\ DOMAIN what = 1..n
          /\ \A i \in 1..n : what[i] = page.queue[i]
      BY <3>0, Beginning
    <3> QED
      BY <2>2, <3>1
  <2>4. b \in BatchRow /\ b.id = minted + 1 /\ b.first = page.server + 1 /\ b.what = what
        /\ b # NoBatch /\ FirstQueued = page.server + 1
    <3>1. FirstQueued = page.server + 1
      <4>1. \A a, s, l \in Nat : a = s + l => a - l + 1 = s + 1
        OBVIOUS
      <4>2. page.last \in Nat /\ page.last = page.server + Len(page.queue)
        BY <1>0
      <4> QED
        BY <2>0, <4>1, <4>2 DEF FirstQueued
    <3>2. minted + 1 \in Nat /\ page.server + 1 \in Nat
      BY <1>0
    <3> HIDE DEF what
    <3> QED
      BY <2>3, <3>1, <3>2 DEF BatchRow, NoBatch
  <2> HIDE DEF b, what, n
  <2>5. LastOf(b) = page.server + n
    <3>1. \A f, l, s \in Nat : f = s + 1 => f + l - 1 = s + l
      OBVIOUS
    <3>2. n \in Nat /\ b.first \in Nat /\ page.server \in Nat
      BY <1>0, <2>2, <2>4 DEF BatchRow
    <3>3. LastOf(b) = b.first + n - 1
      BY <2>3, <2>4 DEF LastOf
    <3>4. b.first = page.server + 1
      BY <2>4
    <3>5. b.first + n - 1 = page.server + n
      BY <3>1, <3>2, <3>4
    <3> QED
      BY <3>3, <3>5
  <2>6. p \in PageRow /\ p.life = page.life /\ p.queue = page.queue /\ p.last = page.last
        /\ p.server = page.server /\ p.pending = b /\ p.writes = page.writes
        /\ p.flush = "ready" /\ p.stop = page.stop /\ p.state = page.state
        /\ p.accepting = page.accepting /\ p.broken = page.broken
    BY <1>0, <2>4 DEF PageRow
  <2> HIDE DEF p
  <2>7. Typed' /\ Alive' \subseteq Alive \cup {b} /\ Placed' = Placed
    BY <1>0, <2>1, <2>6 DEF Sane, Typed, Alive, Placed
  <2>8. Sound(b)
    <3>1. Increasing(what) /\ Recorded(what)
      <4>1. Increasing(page.queue) /\ Recorded(page.queue) /\ DOMAIN page.queue = 1..Len(page.queue)
        BY <1>0 DEF Sane, QueueSound
      <4>2. \A i \in 1..n : i \in 1..Len(page.queue)
        BY <1>0, <2>2
      <4> QED
        BY <2>3, <4>1, <4>2 DEF Increasing, Recorded
    <3>2. b.first <= store.last + 1 /\ b.first # 0
      <4>1. page.server <= store.last
        BY DEF Sane, QueueSound
      <4>2. \A s, l \in Nat : s <= l => s + 1 <= l + 1 /\ s + 1 # 0
        OBVIOUS
      <4>3. b.first = page.server + 1
        BY <2>4
      <4> QED
        BY <2>0, <4>1, <4>2, <4>3
    <3>3. b.first > 1 => store.raw[b.first - 1] < what[1]
      <4>1. b.first > 1 => b.first - 1 = page.server /\ page.server > 0
        <5>1. \A f, s \in Nat : f = s + 1 => f - 1 = s /\ (f > 1 => s > 0)
          OBVIOUS
        <5>2. b.first \in Nat /\ page.server \in Nat /\ b.first = page.server + 1
          <6>1. b.first \in Nat /\ b.first = page.server + 1
            BY <2>4 DEF BatchRow
          <6> QED
            BY <2>0, <6>1
        <5> QED
          BY <5>1, <5>2
      <4>2. what[1] = page.queue[1]
        BY <1>0, <2>2, <2>3
      <4>3. page.server > 0 => store.raw[page.server] < page.queue[1]
        BY <1>0 DEF Sane, QueueSound
      <4> QED
        BY <4>1, <4>2, <4>3
    <3>4. \A q \in Placed : q[1] > LastOf(b) => q[2] > what[Len(what)]
      <4> SUFFICES ASSUME NEW q \in Placed, q[1] > LastOf(b) PROVE q[2] > what[Len(what)]
        OBVIOUS
      <4>1. q[1] \in Nat /\ n \in Nat /\ q[1] > page.server + n
        BY <1>0, <2>2, <2>5, PlacedType DEF Sane
      <4>2. q[1] > page.server
        BY <1>0, <4>1
      <4>3. q[1] <= page.last /\ q[2] = page.queue[q[1] - page.server]
        BY <1>0, <4>2 DEF Sane, QueueSound
      <4>4. q[1] - page.server \in 1..Len(page.queue) /\ q[1] - page.server > n
        <5>1. \A a, s, l, k, x \in Nat : a = s + l /\ x > s + k /\ x <= a => x - s \in 1..l /\ x - s > k
          OBVIOUS
        <5> QED
          BY <1>0, <4>1, <4>3, <5>1
      <4>5. Increasing(page.queue) /\ DOMAIN page.queue = 1..Len(page.queue) /\ n \in 1..Len(page.queue)
        BY <1>0, <2>2 DEF Sane, QueueSound
      <4>6. page.queue[n] < page.queue[q[1] - page.server]
        BY <4>1, <4>4, <4>5 DEF Increasing
      <4>7. page.queue[n] \in Nat /\ what[Len(what)] = page.queue[n]
        <5>1. page.queue[n] \in Nat
          BY <1>0, <2>2, ElementOfSeq
        <5>2. n \in 1..n
          BY <2>2, <4>1
        <5> QED
          BY <2>3, <5>1, <5>2
      <4>8. q[2] \in Nat
        BY PlacedType DEF Sane
      <4> QED
        BY <4>3, <4>6, <4>7, <4>8
    <3> QED
      BY <2>3, <2>4, <3>1, <3>2, <3>3, <3>4 DEF Sound
  <2>9. BatchesSound'
    <3> SUFFICES ASSUME NEW x \in Alive' PROVE Sound(x)'
      BY DEF BatchesSound
    <3>1. Sound(x)
      BY <2>7, <2>8 DEF Sane, BatchesSound
    <3> QED
      BY <1>0, <2>7, <3>1 DEF Sound, LastOf, Increasing, Recorded
  <2>10. StreamSound' /\ RowsSound'
    BY <1>0, <2>1, <2>6, <2>7 DEF Sane, StreamSound, RowsSound, Above, RowsOrdered, Increasing, Recorded
  <2>11. QueueSound'
    <3>1. Len(what) <= Len(page.queue) /\ what = SubSeq(page.queue, 1, Len(what))
      BY <1>0, <2>2, <2>3 DEF what
    <3> QED
      BY <1>0, <2>1, <2>4, <2>6, <2>7, <3>1 DEF Sane, QueueSound, Live, Increasing, Recorded
  <2>12. PageSound' /\ NetSound'
    BY <1>0, <2>1, <2>4, <2>6 DEF Sane, PageSound, NetSound, Live
  <2>13. Sane'
    BY <2>7, <2>9, <2>10, <2>11, <2>12 DEF Sane
  <2>14. Cuts(b)
    BY <1>0, <2>1, <2>2, <2>3, <2>4, <2>5, <2>6, <2>7 DEF Cuts
  <2> QED
    BY <2>13, <2>14
<1> QED
  BY <1>1, <1>2
-----------------------------------------------------------------------------
(* Appending a batch *)

\* The stream after k of the missing events of b.
After(b, k) == store.raw \o SubSeq(Missing(store, b), 1, k)

\* A batch that fits continues the stream from where it is.
LEMMA FitsFacts ==
  ASSUME store.raw \in Seq(Nat), NEW b \in BatchRow, b.first # 0, Fits(store.raw, b),
         NEW k \in 0..Len(Missing(store, b))
  PROVE  /\ After(b, k) \in Seq(Nat) /\ Len(After(b, k)) = Len(store.raw) + k /\ LastOf(b) \in Nat
         /\ b.first - 1 <= Len(store.raw) /\ Len(store.raw) <= LastOf(b)
         /\ Len(After(b, k)) <= LastOf(b)
         /\ k = Len(Missing(store, b)) => Len(After(b, k)) = LastOf(b)
         /\ \A i \in 1..Len(store.raw) : After(b, k)[i] = store.raw[i]
         /\ \A i \in b.first..Len(After(b, k)) : After(b, k)[i] = b.what[i - b.first + 1]
<1> DEFINE raw == store.raw
           r == After(b, k)
           h == Len(raw)
           f == b.first
           l == Len(b.what)
           missing == Missing(store, b)
           some == SubSeq(missing, 1, k)
<1>0. raw \in Seq(Nat) /\ store.raw = raw
  OBVIOUS
<1>1. h \in Nat /\ f \in Nat /\ f # 0 /\ l \in Nat /\ b.what \in Seq(Nat)
  BY DEF BatchRow
<1>2. LastOf(b) = f + l - 1 /\ h \in f - 1 .. f + l - 1 /\ \A i \in f..h : raw[i] = b.what[i - f + 1]
  BY DEF Fits, LastOf
<1>3. missing = SubSeq(b.what, h - f + 2, l)
  BY DEF Missing
<1> HIDE DEF h, f, l, missing
<1>4. /\ missing \in Seq(Nat) /\ Len(missing) = f + l - 1 - h
      /\ \A i \in 1..Len(missing) : missing[i] = b.what[h - f + 1 + i]
  <2>1. h - f + 2 \in Int /\ l \in Int /\ \A i \in h - f + 2 .. l : i \in 1..l
    BY <1>1, <1>2
  <2>2. \A i \in 1..l : b.what[i] \in Nat
    BY <1>1, ElementOfSeq DEF l
  <2>3. /\ missing \in Seq(Nat)
        /\ Len(missing) = IF h - f + 2 <= l THEN l - (h - f + 2) + 1 ELSE 0
        /\ \A i \in 1..l - (h - f + 2) + 1 : missing[i] = b.what[h - f + 2 + i - 1]
    <3>1. \A i \in h - f + 2 .. l : b.what[i] \in Nat
      BY <2>1, <2>2
    <3> DEFINE from == h - f + 2
    <3>2. from \in Int /\ l \in Int /\ missing = SubSeq(b.what, from, l)
      BY <1>3, <2>1
    <3> HIDE DEF from
    <3>3. \A i \in from .. l : b.what[i] \in Nat
      BY <3>1 DEF from
    <3>4. /\ missing \in Seq(Nat)
          /\ Len(missing) = IF from <= l THEN l - from + 1 ELSE 0
          /\ \A i \in 1..l - from + 1 : missing[i] = b.what[from + i - 1]
      BY <3>2, <3>3, SubSeqProperties
    <3> QED
      BY <3>4 DEF from
  <2>4. Len(missing) = f + l - 1 - h /\ l - (h - f + 2) + 1 = f + l - 1 - h
    BY <1>1, <1>2, <2>3
  <2>5. \A i \in 1..Len(missing) : h - f + 2 + i - 1 = h - f + 1 + i
    BY <1>1, <2>4
  <2> QED
    BY <2>3, <2>4, <2>5
<1>5. k \in 0..Len(missing) /\ k \in Nat
  BY <1>4 DEF missing
<1>6. some \in Seq(Nat) /\ Len(some) = k /\ \A i \in 1..k : some[i] = missing[i]
  <2>1. \A i \in 1..k : i \in 1..Len(missing)
    BY <1>4, <1>5
  <2>2. \A i \in 1..k : missing[i] \in Nat
    BY <1>4, <2>1, ElementOfSeq
  <2>3. /\ some \in Seq(Nat) /\ Len(some) = IF 1 <= k THEN k - 1 + 1 ELSE 0
        /\ \A i \in 1..k - 1 + 1 : some[i] = missing[1 + i - 1]
    BY <1>5, <2>2, SubSeqProperties
  <2>4. k - 1 + 1 = k /\ \A i \in 1..k : 1 + i - 1 = i
    BY <1>5
  <2> QED
    BY <1>5, <2>3, <2>4
<1>7. r = raw \o some
  BY DEF missing, After
<1> HIDE DEF some, r
<1>8. /\ r \in Seq(Nat) /\ Len(r) = h + k
      /\ \A i \in 1..h + k : r[i] = IF i <= h THEN raw[i] ELSE some[i - h]
  <2>1. /\ raw \o some \in Seq(Nat) /\ Len(raw \o some) = Len(raw) + Len(some)
        /\ \A i \in 1..Len(raw) + Len(some) :
             (raw \o some)[i] = IF i <= Len(raw) THEN raw[i] ELSE some[i - Len(raw)]
    <3>1. raw \in Seq(Nat) /\ some \in Seq(Nat)
      BY <1>6
    <3> QED
      BY <3>1, ConcatProperties, Zenon
  <2>2. Len(raw) = h /\ Len(some) = k
    BY <1>6 DEF h
  <2> QED
    BY <1>7, <2>1, <2>2
<1>9. \A i \in 1..h : r[i] = raw[i]
  <2>1. \A i \in 1..h : i \in 1..h + k /\ i <= h
    BY <1>1, <1>5
  <2> QED
    BY <1>8, <2>1
<1>10. \A i \in f..h + k : r[i] = b.what[i - f + 1]
  <2> SUFFICES ASSUME NEW i \in f..h + k PROVE r[i] = b.what[i - f + 1]
    OBVIOUS
  <2>1. i \in Nat /\ i \in 1..h + k
    BY <1>1, <1>5
  <2>2. CASE i <= h
    <3>1. i \in 1..h /\ i \in f..h
      BY <1>1, <2>1, <2>2
    <3> QED
      BY <1>2, <1>9, <3>1
  <2>3. CASE i > h
    <3>0. i - h \in 1..k /\ ~(i <= h)
      <4>1. \A x, y, z \in Nat : x > y /\ x \in 1..y + z => x - y \in 1..z /\ ~(x <= y)
        OBVIOUS
      <4> QED
        BY <1>1, <1>5, <2>1, <2>3, <4>1
    <3>1. r[i] = some[i - h] /\ i - h \in 1..k
      BY <1>8, <2>1, <3>0
    <3>2. i - h \in 1..Len(missing) /\ h - f + 1 + (i - h) = i - f + 1
      BY <1>1, <1>4, <1>5, <2>1, <3>1
    <3> QED
      BY <1>4, <1>6, <3>1, <3>2
  <2>4. i <= h \/ i > h
    BY <1>1, <2>1
  <2> QED
    BY <2>2, <2>3, <2>4
<1>11. f + l - 1 \in Nat /\ h + k <= f + l - 1 /\ f - 1 <= h /\ h <= f + l - 1
       /\ (k = Len(missing) => h + k = f + l - 1)
  BY <1>1, <1>2, <1>4, <1>5
<1> QED
  BY <1>2, <1>8, <1>9, <1>10, <1>11 DEF h, f, missing, r, raw

\* The stream stays in order: the batch continues what is counted.
LEMMA FitsInOrder ==
  ASSUME Sane, NEW b \in Alive, Fits(store.raw, b), NEW k0 \in 0..Len(Missing(store, b))
  PROVE  Increasing(After(b, k0)) /\ Recorded(After(b, k0))
<1> DEFINE r == After(b, k0)
           h == Len(store.raw)
           f == b.first
           l == Len(b.what)
           m == Len(r)
<1>0. /\ r \in Seq(Nat) /\ m \in Nat /\ h <= m /\ m <= LastOf(b) /\ f - 1 <= h
      /\ \A i \in 1..h : r[i] = store.raw[i]
      /\ \A i \in f..m : r[i] = b.what[i - f + 1]
  <2>1. store.raw \in Seq(Nat) /\ b \in BatchRow /\ b.first # 0
    BY DEF Sane, Typed, StoreRow, BatchesSound, Sound
  <2>2. /\ r \in Seq(Nat) /\ m = h + k0 /\ m <= LastOf(b) /\ f - 1 <= h
        /\ \A i \in 1..h : r[i] = store.raw[i]
        /\ \A i \in f..m : r[i] = b.what[i - f + 1]
    BY <2>1, FitsFacts
  <2>3. m \in Nat /\ h \in Nat /\ k0 \in Nat
    BY <2>1, <2>2
  <2>4. h <= m
    BY <2>2, <2>3
  <2> QED
    BY <2>2, <2>3, <2>4
<1> HIDE DEF r
<1>1. /\ b.what \in Seq(Nat) /\ l \in Nat /\ f \in Nat /\ f # 0 /\ h \in Nat /\ m \in Nat
      /\ store.raw \in Seq(Nat) /\ DOMAIN r = 1..m /\ DOMAIN store.raw = 1..h /\ DOMAIN b.what = 1..l
      /\ Increasing(b.what) /\ Recorded(b.what) /\ Increasing(store.raw) /\ Recorded(store.raw)
      /\ f > 1 => store.raw[f - 1] < b.what[1]
  <2>1. b \in BatchRow /\ b.first # 0 /\ Increasing(b.what) /\ Recorded(b.what)
        /\ (b.first > 1 => store.raw[b.first - 1] < b.what[1])
    BY DEF Sane, BatchesSound, Sound
  <2>2. store.raw \in Seq(Nat) /\ Increasing(store.raw) /\ Recorded(store.raw)
    BY DEF Sane, Typed, StoreRow, StreamSound
  <2>3. b.what \in Seq(Nat) /\ b.first \in Nat
    BY <2>1 DEF BatchRow
  <2>4. \A s \in Seq(Nat) : Len(s) \in Nat /\ DOMAIN s = 1..Len(s)
    OBVIOUS
  <2> QED
    BY <1>0, <2>1, <2>2, <2>3, <2>4
<1>2. m <= f + l - 1 /\ h <= m /\ f - 1 <= h
  BY <1>0 DEF LastOf
<1>3. /\ \A i \in 1..h : r[i] = store.raw[i]
      /\ \A i \in f..m : r[i] = b.what[i - f + 1]
  BY <1>0
<1>4. /\ \A i \in 1..m : r[i] \in Nat
      /\ \A i \in 1..l : b.what[i] \in Nat
      /\ \A i \in 1..h : store.raw[i] \in Nat
  <2> HIDE DEF h, f, l, m
  <2>1. \A s \in Seq(Nat) : \A i \in DOMAIN s : s[i] \in Nat
    BY ElementOfSeq
  <2> QED
    BY <1>0, <1>1, <2>1
<1> HIDE DEF h, f, l, m
<1>5. \A i \in f..m : i - f + 1 \in 1..l
  <2>1. \A a, c, d \in Nat : \A i \in a..c : c <= a + d - 1 => i - a + 1 \in 1..d
    OBVIOUS
  <2> QED
    BY <1>1, <1>2, <2>1
<1>6. \A i \in 1..m : i \in f..m \/ (i \in 1..h /\ i < f /\ f > 1 /\ f - 1 \in 1..h)
  <2>1. \A a, c, d \in Nat : \A i \in 1..c :
          a # 0 /\ a - 1 <= d => i \in a..c \/ (i \in 1..d /\ i < a /\ a > 1 /\ a - 1 \in 1..d)
    OBVIOUS
  <2> QED
    BY <1>1, <1>2, <2>1
<1>7. Recorded(r)
  <2> SUFFICES ASSUME NEW i \in 1..m PROVE r[i] <= recorded
    BY <1>1 DEF Recorded
  <2>1. CASE i \in f..m
    BY <1>1, <1>3, <1>5, <2>1 DEF Recorded
  <2>2. CASE i \in 1..h
    BY <1>1, <1>3, <2>2 DEF Recorded
  <2> QED
    BY <1>6, <2>1, <2>2
<1>8. Increasing(r)
  <2> SUFFICES ASSUME NEW i \in 1..m, NEW k \in 1..m, i < k PROVE r[i] < r[k]
    BY <1>1 DEF Increasing
  <2>1. CASE i \in f..m
    <3>1. k \in f..m /\ i - f + 1 < k - f + 1
      BY <1>1, <2>1
    <3>2. b.what[i - f + 1] < b.what[k - f + 1]
      BY <1>1, <1>5, <2>1, <3>1 DEF Increasing
    <3> QED
      BY <1>3, <2>1, <3>1, <3>2
  <2>2. CASE i \in 1..h /\ i < f /\ f > 1 /\ f - 1 \in 1..h
    <3>1. CASE k \in f..m
      <4>1. r[i] = store.raw[i] /\ store.raw[i] \in Nat /\ store.raw[f - 1] \in Nat
        BY <1>3, <1>4, <2>2
      <4>2. i = f - 1 \/ store.raw[i] < store.raw[f - 1]
        <5>1. i = f - 1 \/ i < f - 1
          BY <1>1, <2>2
        <5>2. i < f - 1 => store.raw[i] < store.raw[f - 1]
          <6>1. i \in DOMAIN store.raw /\ f - 1 \in DOMAIN store.raw
            BY <1>1, <2>2
          <6> QED
            BY <1>1, <6>1 DEF Increasing
        <5> QED
          BY <5>1, <5>2
      <4>3. 1 \in 1..l /\ k - f + 1 \in 1..l /\ b.what[1] \in Nat
        <5>1. k - f + 1 \in 1..l
          BY <1>5, <3>1
        <5>2. \A x \in 1..l : 1 \in 1..l
          BY <1>1
        <5>3. 1 \in 1..l
          BY <5>1, <5>2
        <5> QED
          BY <1>4, <5>1, <5>3
      <4>4. b.what[1] <= b.what[k - f + 1]
        <5>1. CASE k - f + 1 = 1
          BY <4>3, <5>1
        <5>2. CASE 1 < k - f + 1
          <6>1. b.what[1] < b.what[k - f + 1]
            BY <1>1, <4>3, <5>2 DEF Increasing
          <6> QED
            BY <1>4, <4>3, <6>1
        <5> QED
          BY <4>3, <5>1, <5>2
      <4>5. r[k] = b.what[k - f + 1] /\ b.what[k - f + 1] \in Nat
        BY <1>3, <1>4, <3>1, <4>3
      <4>6. store.raw[f - 1] < b.what[1]
        BY <1>1, <2>2
      <4>7. store.raw[i] <= store.raw[f - 1]
        BY <4>1, <4>2
      <4>8. \A a, c, d, e \in Nat : a <= c /\ c < d /\ d <= e => a < e
        OBVIOUS
      <4> QED
        BY <4>1, <4>3, <4>4, <4>5, <4>6, <4>7, <4>8
    <3>2. CASE k \in 1..h
      BY <1>1, <1>3, <2>2, <3>2 DEF Increasing
    <3> QED
      BY <1>6, <3>1, <3>2
  <2> QED
    BY <1>6, <2>1, <2>2
<1> QED
  BY <1>7, <1>8 DEF r

\* What the store is after an append of b: the stream continues in order, and what
\* is counted is as before or ends with the batch.
Extends(b) ==
  /\ store' \in StoreRow /\ store'.status # "absent" /\ store'.journals \subseteq Alive
  /\ Grows
  /\ Increasing(store'.raw) /\ Recorded(store'.raw)
  /\ \/ store'.last = store.last
     \/ /\ store'.last = LastOf(b) /\ LastOf(b) <= Len(store'.raw)
        /\ store'.raw[LastOf(b)] = b.what[Len(b.what)]
  /\ \A i \in Len(store.raw) + 1 .. Len(store'.raw) :
       i \in b.first..LastOf(b) /\ store'.raw[i] = b.what[i - b.first + 1]

\* The batch is in the stream at its numbers, and counted.
Counts(b) ==
  /\ LastOf(b) <= store'.last
  /\ \A i \in 1..Len(b.what) : store'.raw[b.first + i - 1] = b.what[i]

\* Numbers of a batch.
LEMMA BatchNumbers ==
  ASSUME Sane, NEW b \in Alive
  PROVE  /\ b \in BatchRow /\ b.first \in Nat /\ b.first # 0 /\ b.what \in Seq(Nat) /\ Len(b.what) \in Nat
         /\ Len(b.what) \in 1..Len(b.what) /\ LastOf(b) \in Nat /\ LastOf(b) # 0
         /\ LastOf(b) - b.first + 1 = Len(b.what) /\ b.first <= LastOf(b)
         /\ \A i \in 1..Len(b.what) : /\ b.first + i - 1 \in b.first..LastOf(b)
                                      /\ b.first + i - 1 \in 1..LastOf(b)
                                      /\ b.first + i - 1 - b.first + 1 = i
<1>1. b \in BatchRow /\ b.first # 0 /\ b.what # <<>>
  BY DEF Sane, BatchesSound, Sound
<1>2. b.first \in Nat /\ b.what \in Seq(Nat)
  BY <1>1 DEF BatchRow
<1>3. Len(b.what) \in Nat /\ Len(b.what) # 0
  BY <1>1, <1>2
<1>4. \A f, l \in Nat : f # 0 /\ l # 0 =>
        /\ l \in 1..l /\ f + l - 1 \in Nat /\ f + l - 1 # 0 /\ f + l - 1 - f + 1 = l /\ f <= f + l - 1
        /\ \A i \in 1..l : f + i - 1 \in f..f + l - 1 /\ f + i - 1 \in 1..f + l - 1 /\ f + i - 1 - f + 1 = i
  OBVIOUS
<1> DEFINE f == b.first
           l == Len(b.what)
<1>5. f \in Nat /\ f # 0 /\ l \in Nat /\ l # 0 /\ LastOf(b) = f + l - 1
  BY <1>1, <1>2, <1>3 DEF LastOf
<1> HIDE DEF f, l
<1>6. /\ l \in 1..l /\ f + l - 1 \in Nat /\ f + l - 1 # 0 /\ f + l - 1 - f + 1 = l /\ f <= f + l - 1
      /\ \A i \in 1..l : f + i - 1 \in f..f + l - 1 /\ f + i - 1 \in 1..f + l - 1 /\ f + i - 1 - f + 1 = i
  BY <1>4, <1>5
<1> QED
  BY <1>1, <1>2, <1>3, <1>5, <1>6 DEF f, l

\* A batch that fits is appended, some of it or all.
LEMMA ExtendedBy ==
  ASSUME Sane, NEW b \in Alive, Fits(store.raw, b), NEW k \in 0..Len(Missing(store, b)),
         store' \in StoreRow, store'.status # "absent", store'.journals = store.journals \cup {b},
         store'.raw = After(b, k),
         store'.last = store.last \/ (store'.last = LastOf(b) /\ k = Len(Missing(store, b)))
  PROVE  /\ Extends(b)
         /\ store'.last = LastOf(b) /\ k = Len(Missing(store, b)) => Counts(b)
<1>1. /\ b \in BatchRow /\ b.first \in Nat /\ b.first # 0 /\ Len(b.what) \in 1..Len(b.what)
      /\ LastOf(b) \in Nat
      /\ LastOf(b) - b.first + 1 = Len(b.what) /\ b.first <= LastOf(b)
      /\ \A i \in 1..Len(b.what) : b.first + i - 1 \in b.first..LastOf(b) /\ b.first + i - 1 - b.first + 1 = i
  BY BatchNumbers
<1>2. /\ store.raw \in Seq(Nat) /\ Len(store.raw) \in Nat /\ store.last \in Nat
      /\ store.last <= Len(store.raw)
      /\ store.journals \subseteq Alive
  BY DEF Sane, Typed, StoreRow, StreamSound, Alive
<1> DEFINE r == store'.raw
<1>3. /\ r \in Seq(Nat) /\ Len(r) = Len(store.raw) + k
      /\ b.first - 1 <= Len(store.raw) /\ Len(store.raw) <= LastOf(b) /\ Len(r) <= LastOf(b)
      /\ k = Len(Missing(store, b)) => Len(r) = LastOf(b)
      /\ \A i \in 1..Len(store.raw) : r[i] = store.raw[i]
      /\ \A i \in b.first..Len(r) : r[i] = b.what[i - b.first + 1]
  <2>1. r = After(b, k)
    BY DEF r
  <2>2. store.raw \in Seq(Nat) /\ b \in BatchRow /\ b.first # 0
    BY <1>1, <1>2
  <2>3. /\ After(b, k) \in Seq(Nat) /\ Len(After(b, k)) = Len(store.raw) + k
        /\ b.first - 1 <= Len(store.raw) /\ Len(store.raw) <= LastOf(b)
        /\ Len(After(b, k)) <= LastOf(b)
        /\ k = Len(Missing(store, b)) => Len(After(b, k)) = LastOf(b)
        /\ \A i \in 1..Len(store.raw) : After(b, k)[i] = store.raw[i]
        /\ \A i \in b.first..Len(After(b, k)) : After(b, k)[i] = b.what[i - b.first + 1]
    BY <2>2, FitsFacts
  <2> HIDE DEF r
  <2> QED
    BY <2>1, <2>3
<1> HIDE DEF r
<1>4. k \in Nat /\ Len(store.raw) <= Len(r)
  <2>1. k \in Nat
    OBVIOUS
  <2>2. \A h, n, x \in Nat : x = h + n => h <= x
    OBVIOUS
  <2>3. Len(r) \in Nat /\ Len(r) = Len(store.raw) + k
    BY <1>3
  <2> QED
    BY <1>2, <2>1, <2>2, <2>3
<1>5. Increasing(r) /\ Recorded(r)
  <2>1. r = After(b, k)
    BY DEF r
  <2> QED
    BY <2>1, FitsInOrder
<1>6. store.last <= store'.last
  <2>1. store.last <= LastOf(b)
    <3>1. \A x, y, z \in Nat : x <= y /\ y <= z => x <= z
      OBVIOUS
    <3>2. store.last \in Nat /\ Len(store.raw) \in Nat /\ LastOf(b) \in Nat
      BY <1>1, <1>2
    <3>3. store.last <= Len(store.raw) /\ Len(store.raw) <= LastOf(b)
      BY <1>2, <1>3
    <3> QED
      BY <3>1, <3>2, <3>3
  <2>2. store.last <= store.last
    BY <1>2
  <2> QED
    BY <2>1, <2>2
<1>7. Grows
  BY <1>3, <1>4, <1>6 DEF Grows, r
<1>8. k = Len(Missing(store, b)) => r[LastOf(b)] = b.what[Len(b.what)] /\ LastOf(b) <= Len(r)
  <2> SUFFICES ASSUME k = Len(Missing(store, b)) PROVE r[LastOf(b)] = b.what[Len(b.what)] /\ LastOf(b) <= Len(r)
    OBVIOUS
  <2>1. Len(r) = LastOf(b) /\ LastOf(b) \in b.first..LastOf(b)
        /\ LastOf(b) <= LastOf(b)
    BY <1>1, <1>3
  <2> QED
    BY <1>1, <1>3, <2>1
<1>9. Extends(b)
  <2>1. ASSUME NEW i \in Len(store.raw) + 1 .. Len(r)
        PROVE  i \in b.first..LastOf(b) /\ r[i] = b.what[i - b.first + 1]
    <3>1. \A f, h, l, x \in Nat : f - 1 <= h /\ x <= l => \A y \in h + 1 .. x : y \in f..x /\ y \in f..l
      OBVIOUS
    <3>2. i \in b.first..Len(r) /\ i \in b.first..LastOf(b)
      <4>1. Len(r) \in Nat
        BY <1>3
      <4> QED
        BY <1>1, <1>2, <1>3, <3>1, <4>1
    <3> QED
      BY <1>3, <3>2
  <2> QED
    BY <1>2, <1>5, <1>7, <1>8, <2>1 DEF Extends, r
<1>10. ASSUME store'.last = LastOf(b), k = Len(Missing(store, b)) PROVE Counts(b)
  <2>1. Len(r) = LastOf(b) /\ LastOf(b) <= LastOf(b)
    BY <1>1, <1>3, <1>10
  <2>2. ASSUME NEW i \in 1..Len(b.what) PROVE r[b.first + i - 1] = b.what[i]
    <3>1. b.first + i - 1 \in b.first..Len(r) /\ b.first + i - 1 - b.first + 1 = i
      BY <1>1, <2>1
    <3> DEFINE n == b.first + i - 1
    <3>2. n \in b.first..Len(r) /\ n - b.first + 1 = i
      <4>1. \A f, l, m \in Nat : \A x \in 1..l :
              m - f + 1 = l => f + x - 1 \in f..m /\ f + x - 1 - f + 1 = x
        OBVIOUS
      <4> QED
        BY <1>1, <2>1, <4>1
    <3> HIDE DEF n
    <3>3. r[n] = b.what[n - b.first + 1]
      BY <1>3, <3>2
    <3> QED
      BY <3>2, <3>3 DEF n
  <2> QED
    BY <1>10, <2>1, <2>2 DEF Counts, r
<1> QED
  BY <1>9, <1>10

\* The store after some of the missing events.
LEMMA WithEventsFacts ==
  ASSUME Sane, NEW b \in Alive, Fits(store.raw, b), NEW k \in 0..Len(Missing(store, b)),
         NEW tail \in {"none", "torn", "bare"}
  PROVE  LET s == WithEvents(store, b, k, tail) IN
         /\ s \in StoreRow /\ s.status = store.status /\ s.journals = store.journals \cup {b}
         /\ s.last = store.last /\ s.receipts = store.receipts
         /\ s.raw = After(b, k)
<1> DEFINE r == After(b, k)
           s == WithEvents(store, b, k, tail)
<1>1. store \in StoreRow /\ b \in BatchRow /\ b.first # 0 /\ store.raw \in Seq(Nat)
  BY BatchNumbers DEF Sane, Typed, StoreRow
<1>2. r \in Seq(Nat)
  BY <1>1, FitsFacts
<1>3. s = [Journalled(store, b) EXCEPT !.raw = r, !.tail = tail]
  BY <1>1 DEF WithEvents, Journalled, StoreRow, After
<1> HIDE DEF r, s
<1>4. s = [[store EXCEPT !.journals = store.journals \cup {b}] EXCEPT !.raw = r, !.tail = tail]
  BY <1>3 DEF Journalled
<1> DEFINE j == [store EXCEPT !.journals = store.journals \cup {b}]
<1>5. /\ j \in StoreRow /\ j.status = store.status /\ j.journals = store.journals \cup {b}
      /\ j.last = store.last /\ j.receipts = store.receipts
  <2>1. store.journals \cup {b} \in SUBSET BatchRow
    BY <1>1 DEF StoreRow
  <2> QED
    BY <1>1, <2>1 DEF StoreRow
<1>6. s = [j EXCEPT !.raw = r, !.tail = tail]
  BY <1>4
<1> HIDE DEF j
<1>7. /\ s \in StoreRow /\ s.status = j.status /\ s.journals = j.journals
      /\ s.last = j.last /\ s.receipts = j.receipts /\ s.raw = r
  BY <1>2, <1>5, <1>6 DEF StoreRow
<1> QED
  BY <1>5, <1>7 DEF r, s

\* Whatever an append leaves when it is accepted, cut or not; and what a whole one
\* leaves.
LEMMA AppendExtends ==
  ASSUME Sane, NEW b \in Alive, Accepts(store, b),
         store' \in AppendCuts(store, b) \cup {Appended(store, b)}
  PROVE  Extends(b) /\ (store' = Appended(store, b) => Counts(b))
<1>0. /\ store \in StoreRow /\ store.raw \in Seq(Nat) /\ store.last \in Nat /\ b \in BatchRow /\ b.id \in Nat
      /\ store.status = "collecting" /\ store.journals \subseteq Alive
      /\ Increasing(store.raw) /\ Recorded(store.raw) /\ Len(store.raw) \in Nat
      /\ LastOf(b) \in Nat /\ store.receipts \subseteq Nat
  <2>1. b \in BatchRow /\ b.id \in Nat /\ LastOf(b) \in Nat
    BY BatchNumbers DEF BatchRow
  <2>2. store \in StoreRow /\ Increasing(store.raw) /\ Recorded(store.raw)
    BY DEF Sane, Typed, StreamSound
  <2>3. store.raw \in Seq(Nat) /\ store.last \in Nat /\ store.receipts \subseteq Nat
    BY <2>2 DEF StoreRow
  <2>4. Len(store.raw) \in Nat
    BY <2>3
  <2>5. store.status = "collecting" /\ store.journals \subseteq Alive
    BY DEF Accepts, Alive
  <2> QED
    BY <2>1, <2>2, <2>3, <2>4, <2>5
<1>1. CASE HasReceipt(store, b)
  <2>1. LastOf(b) <= Len(store.raw) /\ SubSeq(store.raw, b.first, LastOf(b)) = b.what
    BY <1>1 DEF Accepts, Holds
  <2>2. /\ store.raw[LastOf(b)] = b.what[Len(b.what)]
        /\ \A i \in 1..Len(b.what) : store.raw[b.first + i - 1] = b.what[i]
    <3>1. /\ b.first \in Nat /\ Len(b.what) \in 1..Len(b.what) /\ b.first + Len(b.what) - 1 = LastOf(b)
          /\ \A i \in b.first..LastOf(b) : i \in 1..Len(store.raw)
      <4>1. b.first \in Nat /\ b.first # 0 /\ Len(b.what) \in 1..Len(b.what)
        BY BatchNumbers
      <4>2. \A f, l, h \in Nat : f # 0 /\ l <= h => \A i \in f..l : i \in 1..h
        OBVIOUS
      <4>3. b.first + Len(b.what) - 1 = LastOf(b)
        BY DEF LastOf
      <4>4. \A i \in b.first..LastOf(b) : i \in 1..Len(store.raw)
        BY <1>0, <2>1, <4>1, <4>2
      <4> QED
        BY <4>1, <4>3, <4>4
    <3>2. \A i \in 1..Len(b.what) : SubSeq(store.raw, b.first, LastOf(b))[i] = store.raw[b.first + i - 1]
      <4>1. \A i \in b.first..LastOf(b) : store.raw[i] \in Nat
        BY <1>0, <3>1, ElementOfSeq
      <4>2. LastOf(b) - b.first + 1 = Len(b.what) /\ b.first \in Int /\ LastOf(b) \in Int
        BY BatchNumbers
      <4>3. \A i \in 1..LastOf(b) - b.first + 1 :
              SubSeq(store.raw, b.first, LastOf(b))[i] = store.raw[b.first + i - 1]
        BY <4>1, <4>2, SubSeqProperties
      <4> QED
        BY <4>2, <4>3
    <3> QED
      BY <2>1, <3>1, <3>2
  <2>3. Truncated(store) \in StoreRow /\ Truncated(store).raw = store.raw
        /\ Truncated(store).last = store.last
        /\ Truncated(store).journals = store.journals /\ Truncated(store).status = "collecting"
    BY <1>0, StoreFacts
  <2> DEFINE n == IF store.last < LastOf(b) THEN LastOf(b) ELSE store.last
  <2>4. n \in Nat /\ store.last <= n /\ store.last <= store.last /\ (n = store.last \/ n = LastOf(b)) /\ LastOf(b) <= n
    BY <1>0
  <2>5. /\ store' \in {Truncated(store), [Truncated(store) EXCEPT !.last = n]}
        /\ store' = Appended(store, b) => store' = [Truncated(store) EXCEPT !.last = n]
    BY <1>1, <2>3 DEF AppendCuts, Appended, StoreRow
  <2> HIDE DEF n
  <2>6. store' \in StoreRow /\ store'.raw = store.raw /\ store'.last \in {store.last, n}
        /\ store'.journals = store.journals /\ store'.status = "collecting"
        /\ (store' = Appended(store, b) => store'.last = n)
    BY <2>3, <2>4, <2>5 DEF StoreRow
  <2>7. Len(store.raw) <= Len(store.raw) /\ Len(store.raw) + 1 .. Len(store.raw) = {}
    BY <1>0
  <2> QED
    BY <1>0, <2>1, <2>2, <2>4, <2>6, <2>7 DEF Extends, Grows, Counts
<1>2. CASE ~HasReceipt(store, b)
  <2> DEFINE full == Len(Missing(store, b))
  <2>1. Fits(store.raw, b)
    BY <1>2 DEF Accepts
  <2>2. 0 \in 0..full /\ full \in 0..full /\ 0..full - 1 \subseteq 0..full
    <3>1. full \in Nat
      <4>1. /\ b.first \in Nat /\ Len(b.what) \in Nat
            /\ \A i \in Len(store.raw) - b.first + 2 .. Len(b.what) : i \in 1..Len(b.what)
        <5>1. b.first \in Nat /\ Len(b.what) \in Nat
          BY BatchNumbers
        <5>2. Len(store.raw) \in b.first - 1 .. LastOf(b)
          BY <2>1 DEF Fits
        <5> QED
          BY <1>0, <5>1, <5>2
      <4>2. \A i \in Len(store.raw) - b.first + 2 .. Len(b.what) : b.what[i] \in Nat
        BY <4>1, BatchNumbers, ElementOfSeq
      <4>3. Len(store.raw) - b.first + 2 \in Int /\ Len(b.what) \in Int
        BY <1>0, <4>1
      <4>4. Missing(store, b) \in Seq(Nat)
        BY <4>2, <4>3, SubSeqProperties DEF Missing
      <4> QED
        BY <4>4
    <3> QED
      BY <3>1
  <2> HIDE DEF full
  <2>3. ASSUME NEW k \in 0..full, NEW tail \in {"none", "torn", "bare"}, store' = WithEvents(store, b, k, tail)
        PROVE  Extends(b)
    <3>1. /\ store' \in StoreRow /\ store'.status = store.status /\ store'.journals = store.journals \cup {b}
          /\ store'.last = store.last /\ store'.raw = After(b, k)
      <4>1. k \in 0..Len(Missing(store, b))
        BY DEF full
      <4> QED
        BY <2>1, <2>3, <4>1, WithEventsFacts
    <3> QED
      BY <1>0, <2>1, <3>1, ExtendedBy DEF full
  <2>4. ASSUME store' = Journalled(store, b) PROVE Extends(b)
    <3>1. store' \in StoreRow /\ store'.raw = store.raw /\ store'.last = store.last
          /\ store'.journals = store.journals \cup {b} /\ store'.status = store.status
      BY <1>0, <2>4 DEF Journalled, StoreRow
    <3>2. Len(store.raw) <= Len(store.raw) /\ store.last <= store.last
          /\ Len(store.raw) + 1 .. Len(store.raw) = {}
      BY <1>0
    <3> QED
      BY <1>0, <3>1, <3>2 DEF Extends, Grows
  <2>5. CASE store' \in {WithReceipt(store, b), Appended(store, b)}
    <3> DEFINE s == WithEvents(store, b, full, "none")
               w == [s EXCEPT !.receipts = store.receipts \cup {b.id}]
               a == [w EXCEPT !.last = LastOf(b)]
    <3>1. /\ s \in StoreRow /\ s.status = store.status /\ s.journals = store.journals \cup {b}
          /\ s.last = store.last /\ s.receipts = store.receipts
          /\ s.raw = After(b, full)
      <4>1. full \in 0..Len(Missing(store, b))
        BY <2>2 DEF full
      <4>2. s = WithEvents(store, b, full, "none")
        OBVIOUS
      <4> HIDE DEF s
      <4> QED
        BY <2>1, <4>1, <4>2, WithEventsFacts
    <3>2. store' \in {w, a} /\ (store' = Appended(store, b) => store' = a)
      <4>1. WithReceipt(store, b) = [s EXCEPT !.receipts = s.receipts \cup {b.id}]
        <5> HIDE DEF s
        <5>1. WithReceipt(store, b) = [s EXCEPT !.receipts = @ \cup {b.id}]
          BY DEF WithReceipt, s, full
        <5> QED
          BY <5>1
      <4>2. WithReceipt(store, b) = w
        BY <3>1, <4>1
      <4>3. Appended(store, b) = [WithReceipt(store, b) EXCEPT !.last = LastOf(b)]
        BY <1>2 DEF Appended
      <4> QED
        BY <2>5, <4>2, <4>3
    <3> HIDE DEF s
    <3>3. store.receipts \cup {b.id} \subseteq Nat
      BY <1>0
    <3>4. /\ w \in StoreRow /\ w.status = s.status /\ w.journals = s.journals /\ w.last = s.last
          /\ w.raw = s.raw
      BY <3>1, <3>3 DEF StoreRow
    <3> HIDE DEF w
    <3>5. /\ a \in StoreRow /\ a.status = s.status /\ a.journals = s.journals /\ a.last = LastOf(b)
          /\ a.raw = s.raw
      BY <1>0, <3>4 DEF StoreRow
    <3> HIDE DEF a
    <3>6. /\ store' \in StoreRow /\ store'.status # "absent" /\ store'.journals = store.journals \cup {b}
          /\ store'.raw = After(b, full)
          /\ store'.last = store.last \/ store'.last = LastOf(b)
          /\ store' = Appended(store, b) => store'.last = LastOf(b)
      BY <1>0, <3>1, <3>2, <3>4, <3>5
    <3> QED
      BY <2>1, <2>2, <3>6, ExtendedBy DEF full
  <2> QED
    BY <1>2, <2>2, <2>3, <2>4, <2>5 DEF AppendCuts, full
<1> QED
  BY <1>1, <1>2

\* The stream and the rows after an append.
LEMMA StreamGrows ==
  ASSUME Sane, NEW b \in Alive, Extends(b), UNCHANGED recorded,
         \A p \in confirmed' : p \in confirmed \/ (p[1] \in 1..store'.last /\ store'.raw[p[1]] = p[2])
  PROVE  StreamSound'
<1>1. /\ store.last \in Nat /\ store.raw \in Seq(Nat) /\ store.last <= Len(store.raw)
      /\ Len(store.raw) \in Nat
      /\ store'.last \in Nat /\ store'.raw \in Seq(Nat) /\ Len(store'.raw) \in Nat
      /\ store.last <= store'.last /\ Len(store.raw) <= Len(store'.raw)
      /\ \A i \in 1..Len(store.raw) : store'.raw[i] = store.raw[i]
  <2>1. store \in StoreRow /\ store' \in StoreRow /\ Grows
    BY DEF Sane, Typed, Extends
  <2>2. store.raw \in Seq(Nat) /\ store'.raw \in Seq(Nat) /\ store.last \in Nat /\ store'.last \in Nat
    BY <2>1 DEF StoreRow
  <2> QED
    BY <2>1, <2>2 DEF Grows, Sane, StreamSound
<1>2. store'.last <= Len(store'.raw)
  BY <1>1 DEF Extends
<1>3. \A p \in confirmed' : p[1] \in 1..store'.last /\ store'.raw[p[1]] = p[2]
  <2> SUFFICES ASSUME NEW p \in confirmed PROVE p[1] \in 1..store'.last /\ store'.raw[p[1]] = p[2]
    OBVIOUS
  <2>1. p[1] \in 1..store.last /\ store.raw[p[1]] = p[2]
    BY DEF Sane, StreamSound
  <2>2. \A i \in 1..store.last : i \in 1..Len(store.raw) /\ i \in 1..store'.last
    <3>1. \A x, y \in Nat : x <= y => \A i \in 1..x : i \in 1..y
      OBVIOUS
    <3> QED
      BY <1>1, <3>1
  <2> QED
    BY <1>1, <2>1, <2>2
<1> QED
  BY <1>2, <1>3 DEF Extends, StreamSound, Increasing, Recorded

\* The rows stay sound when a batch extends the stream.
LEMMA RowsGrow ==
  ASSUME Sane, NEW b \in Alive, Extends(b), Placed' \subseteq Placed, \A k \in Number : rows'[k] \in {0, rows[k]},
         UNCHANGED recorded, page'.state = "resuming" => page.state = "resuming" /\ page'.server = page.server
  PROVE  RowsSound'
<1>1. /\ store.last \in Nat /\ store.raw \in Seq(Nat) /\ store.last <= Len(store.raw)
      /\ Len(store.raw) \in Nat
      /\ store'.last \in Nat /\ store.last <= store'.last /\ page.server \in Nat /\ page.server <= store.last
      /\ \A i \in 1..Len(store.raw) : store'.raw[i] = store.raw[i]
      /\ \A p \in Placed : p[1] \in Nat
  <2>1. store \in StoreRow /\ store' \in StoreRow /\ Grows /\ page \in PageRow
    BY DEF Sane, Typed, Extends
  <2>2. store.raw \in Seq(Nat) /\ store.last \in Nat /\ store'.last \in Nat /\ page.server \in Nat
    BY <2>1 DEF StoreRow, PageRow
  <2> QED
    BY <2>1, <2>2, PlacedType DEF Grows, Sane, StreamSound, QueueSound
<1>2. ASSUME NEW n \in Nat, n <= store.last, Above(n)
      PROVE  \A p \in Placed' : p[1] > n /\ n > 0 => p[2] > store'.raw[n]
  <2>1. n > 0 => n \in 1..Len(store.raw)
    BY <1>1, <1>2
  <2> QED
    BY <1>1, <1>2, <2>1 DEF Above
<1>3. ASSUME NEW n \in Nat, NEW o \in Nat, o <= n, RowsOrdered(o)
      PROVE  \A i, k \in Number : n < i /\ i < k /\ rows'[i] # 0 /\ rows'[k] # 0 => rows'[i] < rows'[k]
  <2> SUFFICES ASSUME NEW i \in Number, NEW k \in Number, n < i, i < k, rows'[i] # 0, rows'[k] # 0
               PROVE  rows'[i] < rows'[k]
    OBVIOUS
  <2>1. o < i /\ rows'[i] = rows[i] /\ rows'[k] = rows[k]
    BY <1>3 DEF Number
  <2> QED
    BY <1>3, <2>1 DEF RowsOrdered
<1>4. Above(store.last) /\ RowsOrdered(store.last) /\ store.last <= store.last
  BY <1>1 DEF Sane, RowsSound
<1>5. Above(store.last)'
  <2>1. CASE store'.last = store.last
    BY <1>1, <1>2, <1>4, <2>1 DEF Above
  <2>2. CASE store'.last = LastOf(b) /\ store'.raw[LastOf(b)] = b.what[Len(b.what)]
    <3>1. \A p \in Placed : p[1] > LastOf(b) => p[2] > b.what[Len(b.what)]
      BY DEF Sane, BatchesSound, Sound
    <3> QED
      BY <2>2, <3>1 DEF Above
  <2> QED
    BY <2>1, <2>2 DEF Extends
<1>6. RowsOrdered(store.last)'
  BY <1>1, <1>3, <1>4 DEF RowsOrdered
<1>7. page'.state = "resuming" => Above(page.server)' /\ RowsOrdered(page.server)'
  <2> SUFFICES ASSUME page'.state = "resuming" PROVE Above(page.server)' /\ RowsOrdered(page.server)'
    OBVIOUS
  <2>1. Above(page.server) /\ RowsOrdered(page.server) /\ page'.server = page.server
        /\ page.server <= page.server
    BY <1>1 DEF Sane, RowsSound
  <2> QED
    BY <1>1, <1>2, <1>3, <2>1 DEF Above, RowsOrdered
<1>8. \A p \in Placed' : p[2] <= recorded'
  BY DEF Sane, RowsSound
<1>9. store'.status # "absent"
  BY DEF Extends
<1> QED
  BY <1>5, <1>6, <1>7, <1>8, <1>9 DEF RowsSound

\* An append whose answer the page does not get, or does not wait for.
LEMMA AppendUnanswered ==
  ASSUME Sane, NEW b \in Alive, Extends(b), Rests(page'), NetRests,
         UNCHANGED <<rows, recorded, minted, confirmed>>
  PROVE  Sane'
<1>1. Grows /\ store' \in StoreRow /\ store'.status # "absent" /\ store'.journals \subseteq Alive
  BY DEF Extends
<1>2. Typed' /\ store'.last \in Nat
  BY <1>1 DEF Sane, Typed, Rests, StoreRow
<1>3. Alive' \subseteq Alive /\ Placed' \subseteq Placed
  BY <1>1, PlacedKeeps DEF Sane, NetRests, Alive, Rests
<1>4. BatchesSound' /\ StreamSound'
  BY <1>1, <1>2, <1>3, BatchesKeep, StreamGrows DEF Sane
<1>5. RowsSound'
  <2>1. page'.state = "resuming" => page.state = "resuming" /\ page'.server = page.server
    BY DEF Rests
  <2> QED
    BY <1>3, <2>1, RowsGrow
<1> QED
  BY <1>1, <1>2, <1>3, <1>4, <1>5, QueueKeeps, PageKeeps, NetKeeps DEF Sane

\* The page takes the receipt: the batch is in the stream and leaves the queue.
LEMMA AppendReceived ==
  ASSUME Sane, NEW m \in net, m.kind = "append", Awaits(m), Extends(m.batch), Counts(m.batch), ReceiveAppend(m),
         net' \subseteq net, UNCHANGED <<recorded, minted>>
  PROVE  Sane'
<1> DEFINE b == m.batch
           l == Len(b.what)
           queue == SubSeq(page.queue, l + 1, Len(page.queue))
           p == [page EXCEPT !.queue = queue, !.server = LastOf(b), !.pending = NoBatch, !.flush = "none", !.tries = 0]
<1>0. /\ page \in PageRow /\ page.flush = "sent" /\ b = page.pending /\ b \in Alive /\ page.queue # <<>>
      /\ Live /\ page.pending # NoBatch /\ page.stop # "finalizing" /\ page.state # "finalized"
      /\ page.queue \in Seq(Nat) /\ Len(page.queue) \in Nat /\ DOMAIN page.queue = 1..Len(page.queue)
      /\ page.server \in Nat /\ page.last \in Nat
      /\ b \in BatchRow /\ b.first \in Nat /\ l \in Nat /\ l \in 1..l /\ LastOf(b) \in Nat
      /\ rows' \in [Number -> Nat] /\ (\A k \in Number : rows'[k] \in {0, rows[k]})
  <2>1. page \in PageRow /\ page.flush = "sent" /\ b = page.pending
    BY DEF Sane, Typed, Awaits
  <2>2. /\ Live /\ page.queue # <<>> /\ page.pending # NoBatch /\ page.stop # "finalizing"
        /\ page.state # "finalized"
    BY <2>1 DEF Sane, PageSound
  <2>3. page.queue \in Seq(Nat) /\ page.server \in Nat /\ page.last \in Nat
    BY <2>1 DEF PageRow
  <2>4. Len(page.queue) \in Nat /\ DOMAIN page.queue = 1..Len(page.queue)
    BY <2>3
  <2>5. b \in Alive
    BY DEF Alive
  <2>6. b \in BatchRow /\ b.first \in Nat /\ l \in Nat /\ l \in 1..l /\ LastOf(b) \in Nat
    BY <2>5, BatchNumbers
  <2>7. rows' \in [Number -> Nat] /\ \A k \in Number : rows'[k] \in {0, rows[k]}
    BY RemovedFacts DEF ReceiveAppend
  <2> QED
    BY <2>1, <2>2, <2>3, <2>4, <2>5, <2>6, <2>7
<1>1. /\ page.last = page.server + Len(page.queue) /\ page.server <= store.last
      /\ Increasing(page.queue) /\ (\A i \in DOMAIN page.queue : page.queue[i] <= recorded)
      /\ \A q \in Placed : q[1] > page.server => q[1] <= page.last /\ q[2] = page.queue[q[1] - page.server]
      /\ b.first = page.server + 1 /\ l <= Len(page.queue) /\ b.what = SubSeq(page.queue, 1, l)
  BY <1>0 DEF Sane, QueueSound, Recorded
<1>2. LastOf(b) = page.server + l
  <2>1. \A f, n, s \in Nat : f = s + 1 => f + n - 1 = s + n
    OBVIOUS
  <2>2. LastOf(b) = b.first + l - 1
    BY DEF LastOf
  <2> HIDE DEF b, l
  <2> QED
    BY <1>0, <1>1, <2>1, <2>2
<1>3. page' = p /\ Removed(RemoveThrough(LastOf(b)))
      /\ confirmed' = confirmed \cup Pairs(b)
  BY DEF ReceiveAppend
<1>4. /\ queue \in Seq(Nat) /\ Len(queue) = Len(page.queue) - l /\ DOMAIN queue = 1..Len(page.queue) - l
      /\ \A i \in 1..Len(page.queue) - l : queue[i] = page.queue[l + i] /\ l + i \in 1..Len(page.queue)
  <2> HIDE DEF l
  <2>1. \A n, k \in Nat : k <= n =>
          /\ k + 1 \in Int /\ n \in Int /\ (\A i \in k + 1 .. n : i \in 1..n)
          /\ n - (k + 1) + 1 = n - k /\ (IF k + 1 <= n THEN n - (k + 1) + 1 ELSE 0) = n - k /\ n - k \in Nat
          /\ \A i \in 1..n - k : k + 1 + i - 1 = k + i /\ k + i \in 1..n
    OBVIOUS
  <2> DEFINE n == Len(page.queue)
  <2>2. n \in Nat /\ l \in Nat /\ l <= n /\ (\A i \in 1..n : page.queue[i] \in Nat)
    BY <1>0, <1>1, ElementOfSeq
  <2> HIDE DEF n
  <2>3. \A i \in l + 1 .. n : page.queue[i] \in Nat
    BY <2>1, <2>2
  <2>4. /\ queue \in Seq(Nat) /\ Len(queue) = IF l + 1 <= n THEN n - (l + 1) + 1 ELSE 0
        /\ \A i \in 1..n - (l + 1) + 1 : queue[i] = page.queue[l + 1 + i - 1]
    <3>1. l + 1 \in Int /\ n \in Int
      BY <2>2
    <3> QED
      BY <2>3, <3>1, SubSeqProperties DEF n
  <2> HIDE DEF queue
  <2>5. /\ n - (l + 1) + 1 = n - l /\ Len(queue) = n - l
        /\ \A i \in 1..n - l : l + 1 + i - 1 = l + i /\ l + i \in 1..n
    BY <2>1, <2>2, <2>4
  <2>6. DOMAIN queue = 1..Len(queue)
    BY <2>4
  <2> QED
    BY <2>4, <2>5, <2>6 DEF n
<1> HIDE DEF queue
<1>5. p \in PageRow /\ p.life = page.life /\ p.queue = queue /\ p.last = page.last
      /\ p.server = LastOf(b) /\ p.pending = NoBatch /\ p.writes = page.writes
      /\ p.flush = "none" /\ p.stop = page.stop /\ p.state = page.state /\ p.accepting = page.accepting
  <2>1. NoBatch \in BatchRow
    BY DEF NoBatch, BatchRow
  <2> HIDE DEF b
  <2> QED
    BY <1>0, <1>4, <2>1 DEF PageRow
<1> HIDE DEF p
<1>6. Grows /\ store' \in StoreRow /\ store'.last \in Nat /\ store'.status # "absent"
      /\ store'.journals \subseteq Alive /\ LastOf(b) <= store'.last
  BY DEF Extends, Counts, StoreRow
<1> USE DEF ReceiveAppend
<1>14. Extends(b) /\ Counts(b) /\ net' \subseteq net /\ UNCHANGED <<recorded, minted>> /\ Len(b.what) = l
  OBVIOUS
<1> HIDE DEF b, l, ReceiveAppend
<1>15. /\ page'.queue = queue /\ page'.last = page.last /\ page'.server = LastOf(b)
       /\ page'.pending = NoBatch
       /\ page'.life = page.life /\ page'.flush = "none" /\ page'.stop = page.stop /\ page'.state = page.state
       /\ page'.accepting = page.accepting /\ page' \in PageRow /\ page'.writes = page.writes
  BY <1>3, <1>5
<1>7. Typed' /\ Alive' \subseteq Alive
  <2>1. Typed'
    BY <1>0, <1>6, <1>14, <1>15 DEF Sane, Typed
  <2>2. Alive' \subseteq Alive
    BY <1>6, <1>14, <1>15 DEF Alive
  <2> QED
    BY <2>1, <2>2
<1>8. Placed' \subseteq Placed
  BY <1>3, <1>15, RemovedFacts
<1>9. BatchesSound'
  BY <1>6, <1>7, <1>8, <1>14, BatchesKeep DEF Sane
<1>10. StreamSound'
  <2>1. ASSUME NEW q \in Pairs(b) PROVE q[1] \in 1..store'.last /\ store'.raw[q[1]] = q[2]
    <3>1. PICK i \in 1..Len(b.what) : q = <<b.first + i - 1, b.what[i]>>
      BY <2>1 DEF Pairs
    <3>2. b.first + i - 1 \in 1..LastOf(b)
      BY <1>0, BatchNumbers
    <3>3. \A x, y \in Nat : x <= y => \A k \in 1..x : k \in 1..y
      OBVIOUS
    <3>4. b.first + i - 1 \in 1..store'.last
      BY <1>0, <1>6, <3>2, <3>3
    <3>5. store'.raw[b.first + i - 1] = b.what[i]
      BY <1>14 DEF Counts
    <3> QED
      BY <3>1, <3>4, <3>5
  <2> QED
    BY <1>0, <1>3, <1>14, <2>1, StreamGrows
<1>11. RowsSound'
  <2>1. page'.state # "resuming"
    BY <1>0, <1>15 DEF Live
  <2> QED
    BY <1>0, <1>8, <1>14, <2>1, RowsGrow
<1>12. QueueSound'
  <2>1. Increasing(queue)
    <3> SUFFICES ASSUME NEW i \in 1..Len(page.queue) - l, NEW k \in 1..Len(page.queue) - l, i < k
                 PROVE  queue[i] < queue[k]
      BY <1>4 DEF Increasing
    <3>1. l + i < l + k
      BY <1>0
    <3>2. l + i \in DOMAIN page.queue /\ l + k \in DOMAIN page.queue
      BY <1>0, <1>4
    <3>3. page.queue[l + i] < page.queue[l + k]
      BY <1>1, <3>1, <3>2 DEF Increasing
    <3> QED
      BY <1>4, <3>3
  <2>2. \A i \in DOMAIN queue : queue[i] <= recorded'
    <3> SUFFICES ASSUME NEW i \in 1..Len(page.queue) - l PROVE queue[i] <= recorded
      BY <1>4, <1>14
    <3>1. queue[i] = page.queue[l + i] /\ l + i \in DOMAIN page.queue
      BY <1>0, <1>4
    <3> QED
      BY <1>1, <3>1
  <2>3. page.last = LastOf(b) + Len(queue)
    <3>1. \A a, s, n, k \in Nat : a = s + n /\ k <= n => a = s + k + (n - k)
      OBVIOUS
    <3>2. page.last = page.server + l + (Len(page.queue) - l)
      BY <1>0, <1>1, <3>1
    <3> QED
      BY <1>2, <1>4, <3>2
  <2>4. queue # <<>> => store'.raw[LastOf(b)] < queue[1]
    <3> SUFFICES ASSUME queue # <<>> PROVE store'.raw[LastOf(b)] < queue[1]
      OBVIOUS
    <3>1. store'.raw[LastOf(b)] = b.what[l]
      <4>1. \A i \in 1..l : store'.raw[b.first + i - 1] = b.what[i]
        BY <1>14 DEF Counts
      <4>2. LastOf(b) = b.first + l - 1
        BY <1>14 DEF LastOf
      <4> QED
        BY <1>0, <4>1, <4>2
    <3>2. l \in 1..Len(page.queue) /\ 1 \in 1..Len(page.queue) - l /\ l < l + 1
      <4>1. Len(queue) # 0 /\ Len(queue) \in Nat
        BY <1>4
      <4>2. \A n, k \in Nat : k <= n /\ n - k # 0 /\ n - k \in Nat /\ k \in 1..k =>
              k \in 1..n /\ 1 \in 1..n - k /\ k < k + 1
        OBVIOUS
      <4> QED
        BY <1>0, <1>1, <1>4, <4>1, <4>2
    <3>3. b.what[l] = page.queue[l]
      <4>1. \A i \in 1..l : page.queue[i] \in Nat
        <5>1. \A i \in 1..l : i \in 1..Len(page.queue)
          <6>1. \A x, y \in Nat : x <= y => \A i \in 1..x : i \in 1..y
            OBVIOUS
          <6> QED
            BY <1>0, <1>1, <6>1
        <5> QED
          BY <1>0, <5>1, ElementOfSeq
      <4>2. \A i \in 1..l - 1 + 1 : SubSeq(page.queue, 1, l)[i] = page.queue[1 + i - 1]
        BY <1>0, <4>1, SubSeqProperties
      <4>3. l \in 1..l - 1 + 1 /\ 1 + l - 1 = l
        BY <1>0
      <4> QED
        BY <1>1, <4>2, <4>3
    <3>4. queue[1] = page.queue[l + 1] /\ l + 1 \in 1..Len(page.queue)
      BY <1>4, <3>2
    <3>5. page.queue[l] < page.queue[l + 1]
      BY <1>0, <1>1, <3>2, <3>4 DEF Increasing
    <3> QED
      BY <3>1, <3>3, <3>4, <3>5
  <2>5. \A q \in Placed' : q[1] > LastOf(b) => q[1] <= page.last /\ q[2] = queue[q[1] - LastOf(b)]
    <3> SUFFICES ASSUME NEW q \in Placed, q[1] > LastOf(b)
                 PROVE  q[1] <= page.last /\ q[2] = queue[q[1] - LastOf(b)]
      BY <1>8
    <3>1. q[1] \in Nat /\ q[1] > page.server + l
      BY <1>2, PlacedType DEF Sane
    <3>2. q[1] > page.server
      BY <1>0, <3>1
    <3>3. q[1] <= page.last /\ q[2] = page.queue[q[1] - page.server]
      BY <1>1, <3>2
    <3>4. q[1] - LastOf(b) \in 1..Len(page.queue) - l
          /\ l + (q[1] - LastOf(b)) = q[1] - page.server
      <4>1. \A x, s, n, k, a, t \in Nat : a = s + n /\ x > s + k /\ x <= a /\ t = s + k =>
              x - t \in 1..n - k /\ k + (x - t) = x - s
        OBVIOUS
      <4>2. /\ page.last \in Nat /\ page.server \in Nat /\ Len(page.queue) \in Nat /\ l \in Nat
            /\ q[1] \in Nat
            /\ LastOf(b) \in Nat /\ page.last = page.server + Len(page.queue)
            /\ LastOf(b) = page.server + l
        BY <1>0, <1>1, <1>2, <3>1
      <4> DEFINE x == q[1]
                 t == LastOf(b)
                 n == Len(page.queue)
      <4>3. /\ page.last \in Nat /\ page.server \in Nat /\ n \in Nat /\ l \in Nat /\ x \in Nat /\ t \in Nat
            /\ page.last = page.server + n /\ t = page.server + l /\ x > page.server + l /\ x <= page.last
        BY <3>1, <3>3, <4>2
      <4> HIDE DEF x, t, n
      <4>4. x - t \in 1..n - l /\ l + (x - t) = x - page.server
        BY <4>1, <4>3
      <4> QED
        BY <4>4 DEF x, t, n
    <3> QED
      BY <1>4, <3>3, <3>4
  <2> QED
    BY <1>6, <1>14, <1>15, <2>1, <2>2, <2>3, <2>4, <2>5 DEF QueueSound, Increasing, Recorded
<1>13. PageSound' /\ NetSound'
  <2>1. page'.last = page.last /\ page'.life = page.life /\ page'.state = page.state /\ page'.flush = "none"
        /\ page'.stop = page.stop /\ page'.accepting = page.accepting /\ Live'
    BY <1>0, <1>15 DEF Live
  <2>2. PageSound'
    BY <1>0, <1>6, <2>1 DEF Sane, PageSound, Live
  <2>3. NetSound'
    BY <1>0, <1>14, <2>1 DEF Sane, NetSound
  <2> QED
    BY <2>2, <2>3
<1> QED
  BY <1>7, <1>9, <1>10, <1>11, <1>12, <1>13 DEF Sane

\* A batch is appended, wholly or in part.
LEMMA AppendKeeps ==
  ASSUME Sane, NEW m \in net, ServeAppend(m) \/ CutAppend(m)
  PROVE  Sane'
<1>0. m.kind = "append" /\ Accepts(store, m.batch) /\ m.batch \in Alive /\ net' \subseteq net
  BY DEF ServeAppend, CutAppend, Alive
<1>1. NetRests
  BY <1>0 DEF NetRests
<1>2. CASE CutAppend(m)
  <2>1. Extends(m.batch) /\ Rests(page') /\ UNCHANGED <<rows, recorded, minted, confirmed>>
    BY <1>0, <1>2, AppendExtends, FailedRests DEF CutAppend, history
  <2> QED
    BY <1>0, <1>1, <2>1, AppendUnanswered
<1>3. CASE ServeAppend(m)
  <2>1. Extends(m.batch) /\ Counts(m.batch) /\ UNCHANGED <<recorded, minted>>
    BY <1>0, <1>3, AppendExtends DEF ServeAppend
  <2>2. CASE ReceiveAppend(m) /\ Awaits(m)
    BY <1>0, <2>1, <2>2, AppendReceived
  <2>3. CASE ReceiveAppend(m) /\ ~Awaits(m)
    <3>1. Rests(page') /\ UNCHANGED <<rows, confirmed>>
      BY <2>3, PageRests DEF ReceiveAppend
    <3> QED
      BY <1>0, <1>1, <2>1, <3>1, AppendUnanswered
  <2>4. CASE page' = Failed(m, TRUE) /\ UNCHANGED <<rows, confirmed>>
    <3>1. Rests(page')
      BY <2>4, FailedRests
    <3> QED
      BY <1>0, <1>1, <2>1, <2>4, <3>1, AppendUnanswered
  <2> QED
    BY <1>3, <2>2, <2>3, <2>4 DEF ServeAppend
<1> QED
  BY <1>2, <1>3

\* The session is finalized at what the page has: it has nothing else.
Finishes ==
  /\ Live /\ page'.last = page.server /\ UNCHANGED <<recorded, kept, ahead>>
  /\ Rests(page') /\ SameChain(page') /\ StoreRests /\ Grows
  /\ Alive' \subseteq Alive /\ Placed' \subseteq Placed /\ \A k \in Number : rows'[k] \in {0, rows[k]}

\* A finalization that is served keeps the invariant.
LEMMA FinalizeKeeps ==
  ASSUME Sane, NEW m \in net, ServeFinalize(m)
  PROVE  Sane' /\ (Resting \/ Finishes)
<1> USE DEF history
<1>0. /\ page \in PageRow /\ store \in StoreRow /\ Rests(page) /\ SameChain(page) /\ m.kind = "finalize"
      /\ CanFinalize(store, m.last)
      /\ store.last = m.last /\ store.last \in Nat
      /\ UNCHANGED <<recorded, minted, kept, confirmed, ahead>>
  BY PageRests DEF Sane, Typed, StoreRow, ServeFinalize, CanFinalize
<1>1. StoreRests /\ NetRests /\ (store.status # "absent" => store'.status # "absent")
  <2>1. store.status # "absent"
    BY <1>0 DEF CanFinalize
  <2>2. StoreRests
    BY <2>1, StoreRestsWhenAs DEF ServeFinalize, Finalized
  <2> QED
    BY <2>1, <2>2 DEF ServeFinalize, NetRests, StoreRests
<1>2. CASE Rests(page') /\ SameChain(page') /\ UNCHANGED rows
  BY <1>0, <1>1, <1>2, RestKeeps DEF Resting
<1>3. CASE /\ Awaits(m) /\ page' = [page EXCEPT !.state = "finalized", !.stop = "none", !.server = m.last]
           /\ Removed([n \in Number |-> 0])
  <2>1. page.stop = "finalizing" /\ m.life = page.life
    BY <1>0, <1>3 DEF Awaits
  <2>2. Live /\ page.queue = <<>> /\ ~page.accepting
    BY <2>1 DEF Sane, PageSound
  <2>3. page.server = m.last
    <3>1. page.server \in Nat /\ page.last = page.server /\ m.last <= page.last /\ page.server <= m.last
      BY <1>0, <2>1, <2>2 DEF Sane, QueueSound, NetSound, PageRow
    <3> QED
      BY <1>0, <3>1
  <2> DEFINE p == [page EXCEPT !.state = "finalized", !.stop = "none"]
  <2>4. page' = p
    BY <1>0, <1>3, <2>3 DEF PageRow
  <2>5. /\ p \in PageRow /\ p.life = page.life /\ p.queue = page.queue /\ p.last = page.last
        /\ p.server = page.server /\ p.pending = page.pending /\ p.writes = page.writes
        /\ p.flush = page.flush
        /\ p.stop = "none" /\ p.state = "finalized" /\ p.accepting = page.accepting
        /\ p.broken = page.broken
    BY <1>0 DEF PageRow
  <2> HIDE DEF p
  <2>6. Rests(page') /\ SameChain(page')
    BY <1>0, <2>2, <2>4, <2>5 DEF Rests, SameChain
  <2>7. rows' \in [Number -> Nat] /\ (\A k \in Number : rows'[k] \in {0, rows[k]}) /\ Placed' \subseteq Placed
    <3>1. rows' = [n \in Number |-> 0] \/ rows' = rows
      BY <1>3 DEF Removed
    <3>2. rows \in [Number -> Nat]
      BY DEF Sane, Typed
    <3>3. rows' \in [Number -> Nat] /\ \A k \in Number : rows'[k] \in {0, rows[k]}
      BY <3>1, <3>2
    <3> QED
      BY <2>4, <2>5, <3>3 DEF Placed
  <2>8. Typed' /\ Alive' \subseteq Alive
    BY <1>0, <1>1, <2>4, <2>5, <2>7, AliveKeeps DEF Sane, Typed, StoreRests
  <2>9. Grows /\ store'.last \in Nat
    BY <1>0, <1>1 DEF Grows, StoreRests, StoreRow
  <2>10. BatchesSound' /\ StreamSound'
    BY <1>0, <1>1, <2>7, <2>8, <2>9, BatchesKeep DEF Sane, StreamSound, StoreRests, Increasing, Recorded
  <2>11. RowsSound'
    BY <1>0, <1>1, <2>4, <2>5, <2>7, RowsKeep DEF StoreRests
  <2>12. page'.last = page.server
    BY <2>2, <2>4, <2>5 DEF Sane, Typed, PageRow, QueueSound
  <2> QED
    <3>1. Sane'
      BY <1>0, <1>1, <2>6, <2>7, <2>8, <2>9, <2>10, <2>11, QueueKeeps, PageKeeps, NetKeeps DEF Sane
    <3>2. Finishes
      BY <1>0, <1>1, <2>2, <2>6, <2>7, <2>8, <2>9, <2>12 DEF Finishes
    <3> QED
      BY <3>1, <3>2
<1>4. \/ Rests(page') /\ SameChain(page') /\ UNCHANGED rows
      \/ /\ Awaits(m) /\ page' = [page EXCEPT !.state = "finalized", !.stop = "none", !.server = m.last]
         /\ Removed([n \in Number |-> 0])
  BY <1>0, FailedRests DEF ServeFinalize
<1> QED
  BY <1>2, <1>3, <1>4

-----------------------------------------------------------------------------
(* The theorem *)

\* The invariant holds at the beginning.
LEMMA SaneInit == Init => Sane
<1> SUFFICES ASSUME Init PROVE Sane
  OBVIOUS
<1>1. <<>> \in Seq(Nat) /\ Len(<<>>) = 0 /\ DOMAIN <<>> = {}
  OBVIOUS
<1>2. /\ page = [Closed(0) EXCEPT !.state = "closed"] /\ page \in PageRow /\ page.life = 0
      /\ page.queue = <<>>
      /\ page.last = 0 /\ page.server = 0 /\ page.pending = NoBatch /\ page.writes = <<>>
      /\ page.flush = "none" /\ page.stop = "none" /\ page.state = "closed" /\ ~Live
  <2>1. Closed(0) = [Closed(0) EXCEPT !.state = "closed"]
    BY ClosedFacts
  <2>2. page = [Closed(0) EXCEPT !.state = "closed"]
    BY <2>1 DEF Init
  <2> QED
    BY <2>2, ClosedFacts DEF Live
<1>3. store \in StoreRow /\ store.last = 0 /\ store.raw = <<>> /\ store.journals = {}
      /\ store = NoSession
  BY <1>1 DEF Init, NoSession, StoreRow
<1>4. Typed /\ Placed = {} /\ Alive = {}
  BY <1>1, <1>2, <1>3 DEF Init, Typed, Placed, Alive, Number
<1>5. StreamSound /\ QueueSound
  BY <1>1, <1>2, <1>3, <1>4 DEF Init, StreamSound, QueueSound, Increasing, Recorded
<1>6. RowsSound
  BY <1>2, <1>3, <1>4 DEF Init, RowsSound, Above, RowsOrdered
<1>7. BatchesSound /\ PageSound /\ NetSound
  BY <1>2, <1>4 DEF Init, BatchesSound, PageSound, NetSound
<1> QED
  BY <1>4, <1>5, <1>6, <1>7 DEF Sane

\* Every step keeps the invariant.
LEMMA SaneStep == Sane /\ [Next]_vars => Sane'
<1> SUFFICES ASSUME Sane, [Next]_vars PROVE Sane'
  OBVIOUS
<1>0. MaxSegment \in Nat /\ MaxBatchSize \in Nat \ {0}
  BY BoundsAssumption
<1>1. CASE Next
  BY <1>0, <1>1, TakeUp, RestKeeps, PageEnds, PageBegins, ResumeKeeps, PageTurns, EnqueueKeeps, AppendRowKeeps, CreateBatchKeeps, RequestsTurn,
     AppendKeeps, FinalizeKeeps DEF Next, PageStep
<1>2. CASE UNCHANGED vars
  BY <1>2, PageRests, Still, RestKeeps DEF vars
<1> QED
  BY <1>1, <1>2

\* The events of a session are in the stream once and in the order in which they
\* were recorded, and what the page let go after a receipt is there for good:
\* whatever request is lost, repeated, late or cut, however often the page is
\* reloaded, and whatever the sizes of batches, queues and numbers of attempts.
THEOREM StreamAlwaysHoldsReceipts == Spec => []StreamHoldsReceipts
<1>1. Sane => StreamHoldsReceipts
  <2> SUFFICES ASSUME Sane PROVE StreamHoldsReceipts
    OBVIOUS
  <2>1. StreamInOrder
    BY DEF Sane, StreamSound, Increasing, StreamInOrder
  <2>2. ReceiptsHold
    BY DEF Sane, Typed, StoreRow, StreamSound, QueueSound, ReceiptsHold
  <2> QED
    BY <2>1, <2>2 DEF StreamHoldsReceipts
<1> QED
  BY <1>1, SaneInit, SaneStep, PTL DEF Spec

-----------------------------------------------------------------------------
(* What a page that is reloaded finds *)

\* Nothing has a number that was not given, and batches are small.
Numbered ==
  /\ recorded <= MaxSegment /\ Len(store.raw) <= recorded
  /\ Live => page.last <= recorded
  /\ \A b \in Alive : LastOf(b) <= recorded /\ Len(b.what) <= MaxBatchSize
  /\ \A p \in Placed : p[1] \in 1..recorded /\ p[2] # 0

\* The appends under way are those of the page's last numbers; as long as none has
\* failed, every number before them that the server has not confirmed has its row.
ChainSound ==
  /\ page.broken => page.writes = <<>>
  /\ \A i \in DOMAIN page.writes : page.writes[i][1] = page.last - Len(page.writes) + i
  /\ Live /\ ~page.broken =>
       \A k \in Number : page.server < k /\ k <= page.last - Len(page.writes) => rows[k] # 0

\* The rows after the count of session.json have no gap, and a segment that was
\* written is there until it is counted.
RowsKept ==
  /\ \A i, k \in Number : store.last < i /\ i < k /\ rows[k] # 0 => rows[i] # 0
  /\ kept \subseteq Nat \X (Nat \ {0})
  /\ \A p \in kept : p[1] > store.last => p[1] \in Number /\ rows[p[1]] = p[2]

\* What the stream has and session.json does not count, or what it may still get,
\* is in the rows, as long as no batch outran them.
StreamKept ==
  /\ Len(store.raw) <= store.last + MaxBatchSize
  /\ ~ahead => \A n \in Number : store.last < n /\ n <= Len(store.raw) => rows[n] = store.raw[n] /\ rows[n] # 0
  /\ ~ahead => \A b \in Alive : \A n \in Number :
       store.last < n /\ n \in b.first..LastOf(b) => rows[n] = b.what[n - b.first + 1] /\ rows[n] # 0

Recoverable == Numbered /\ ChainSound /\ RowsKept /\ StreamKept

\* A step that removes only rows that are counted.
KeepsRows == \A k \in Number : rows'[k] \in {0, rows[k]} /\ (k > store'.last => rows'[k] = rows[k])

\* One after which the page has no session, a new one, or the same with its chain.
KeepsChain ==
  \/ page'.writes = <<>> /\ (Live' => page'.last = 0 /\ page'.server = 0)
  \/ /\ Live /\ page'.last = page.last /\ page.server <= page'.server /\ SameChain(page')
     /\ \A k \in Number : page'.server < k /\ k <= page'.last => rows'[k] = rows[k]

\* One that adds to the stream at most the events of one batch.
KeepsStream == Grows /\ (store'.raw = store.raw \/ \E b \in Alive : Extends(b))

\* The end of a batch.
LEMMA BatchEnd ==
  ASSUME MaxBatchSize \in Nat, Sane, Numbered, NEW b \in Alive
  PROVE  LastOf(b) \in Nat /\ LastOf(b) <= recorded /\ LastOf(b) <= store.last + MaxBatchSize
<1>1. b.first \in Nat /\ Len(b.what) \in Nat /\ LastOf(b) \in Nat /\ store.last \in Nat
  BY BatchNumbers DEF Sane, Typed, StoreRow
<1>2. b.first <= store.last + 1 /\ Len(b.what) <= MaxBatchSize /\ LastOf(b) <= recorded
  BY DEF Sane, BatchesSound, Sound, Numbered
<1>3. \A f, l, s, m \in Nat : f <= s + 1 /\ l <= m => f + l - 1 <= s + m
  OBVIOUS
<1>4. b.first + Len(b.what) - 1 <= store.last + MaxBatchSize
  BY <1>1, <1>2, <1>3
<1> QED
  BY <1>1, <1>2, <1>4 DEF LastOf

\* Such a step leaves in the rows what is not counted.
LEMMA KeptKeeps ==
  ASSUME MaxBatchSize \in Nat, Sane, Sane', Recoverable, KeepsRows, KeepsStream,
         Alive' \subseteq Alive, UNCHANGED <<kept, ahead>>
  PROVE  RowsKept' /\ StreamKept' /\ Len(store'.raw) <= recorded
<1>0. /\ store.last \in Nat /\ store'.last \in Nat /\ store.last <= store'.last
      /\ store.raw \in Seq(Nat) /\ store'.raw \in Seq(Nat)
      /\ Len(store.raw) \in Nat /\ Len(store'.raw) \in Nat
      /\ Len(store.raw) <= Len(store'.raw) /\ \A i \in 1..Len(store.raw) : store'.raw[i] = store.raw[i]
      /\ recorded \in Nat
  <2>1. store \in StoreRow /\ store' \in StoreRow /\ Grows /\ recorded \in Nat
    BY DEF Sane, Typed, KeepsStream
  <2>2. store.raw \in Seq(Nat) /\ store'.raw \in Seq(Nat) /\ store.last \in Nat /\ store'.last \in Nat
    BY <2>1 DEF StoreRow
  <2> QED
    BY <2>1, <2>2 DEF Grows
<1>1. \A i \in Len(store.raw) + 1 .. Len(store'.raw) :
        \E b \in Alive : i \in b.first..LastOf(b) /\ store'.raw[i] = b.what[i - b.first + 1]
  <2>1. CASE store'.raw = store.raw
    BY <1>0, <2>1
  <2>2. CASE \E b \in Alive : Extends(b)
    BY <2>2 DEF Extends
  <2> QED
    BY <2>1, <2>2 DEF KeepsStream
<1>2. Len(store'.raw) <= recorded /\ Len(store'.raw) <= store'.last + MaxBatchSize
  <2>1. CASE Len(store'.raw) = Len(store.raw)
    BY <1>0, <2>1 DEF Recoverable, Numbered, StreamKept
  <2>2. CASE Len(store'.raw) # Len(store.raw)
    <3>1. Len(store'.raw) \in Len(store.raw) + 1 .. Len(store'.raw)
      BY <1>0, <2>2
    <3>2. PICK b \in Alive : Len(store'.raw) \in b.first..LastOf(b)
      BY <1>1, <3>1
    <3>3. LastOf(b) \in Nat /\ LastOf(b) <= recorded /\ LastOf(b) <= store.last + MaxBatchSize
      BY BatchEnd DEF Recoverable
    <3> QED
      BY <1>0, <3>2, <3>3
  <2> QED
    BY <2>1, <2>2
<1>3. RowsKept'
  <2>1. ASSUME NEW i \in Number, NEW k \in Number, store'.last < i, i < k, rows'[k] # 0
        PROVE  rows'[i] # 0
    <3>1. i \in Nat /\ k \in Nat
      BY DEF Number
    <3>2. store.last < i /\ k > store'.last /\ i > store'.last
      BY <1>0, <2>1, <3>1
    <3>3. rows'[i] = rows[i] /\ rows'[k] = rows[k]
      BY <3>2 DEF KeepsRows
    <3> QED
      BY <2>1, <3>2, <3>3 DEF Recoverable, RowsKept
  <2>2. ASSUME NEW p \in kept', p[1] > store'.last
        PROVE  p[1] \in Number /\ rows'[p[1]] = p[2]
    <3>1. p \in kept /\ p[1] \in Nat
      BY DEF Recoverable, RowsKept
    <3>2. p[1] > store.last
      BY <1>0, <2>2, <3>1
    <3>3. p[1] \in Number /\ rows[p[1]] = p[2]
      BY <3>1, <3>2 DEF Recoverable, RowsKept
    <3> QED
      BY <2>2, <3>3 DEF KeepsRows
  <2>3. kept' \subseteq Nat \X (Nat \ {0})
    BY DEF Recoverable, RowsKept
  <2> QED
    BY <2>1, <2>2, <2>3 DEF RowsKept
<1>4. StreamKept'
  <2> SUFFICES ASSUME ~ahead, NEW n \in Number, store'.last < n
               PROVE  /\ n <= Len(store'.raw) => rows'[n] = store'.raw[n] /\ rows'[n] # 0
                      /\ \A b \in Alive' : n \in b.first..LastOf(b) =>
                           rows'[n] = b.what[n - b.first + 1] /\ rows'[n] # 0
    BY <1>2 DEF StreamKept, LastOf
  <2>1. n \in Nat /\ n # 0 /\ store.last < n /\ rows'[n] = rows[n]
    <3>1. n \in Nat /\ n # 0
      BY DEF Number
    <3> QED
      BY <1>0, <3>1 DEF KeepsRows
  <2>2. \A b \in Alive : n \in b.first..LastOf(b) => rows'[n] = b.what[n - b.first + 1] /\ rows'[n] # 0
    BY <2>1 DEF Recoverable, StreamKept
  <2>3. ASSUME n <= Len(store'.raw) PROVE rows'[n] = store'.raw[n] /\ rows'[n] # 0
    <3>1. CASE n <= Len(store.raw)
      <4>1. n \in 1..Len(store.raw)
        BY <1>0, <2>1, <3>1
      <4>2. rows[n] = store.raw[n] /\ rows[n] # 0
        BY <2>1, <3>1 DEF Recoverable, StreamKept
      <4> QED
        BY <1>0, <2>1, <4>1, <4>2
    <3>2. CASE ~(n <= Len(store.raw))
      <4>1. n \in Len(store.raw) + 1 .. Len(store'.raw)
        BY <1>0, <2>1, <2>3, <3>2
      <4> QED
        BY <1>1, <2>2, <4>1
    <3> QED
      BY <3>1, <3>2
  <2> QED
    BY <2>2, <2>3
<1> QED
  BY <1>2, <1>3, <1>4

\* Such a step leaves the page what it needs to go on.
LEMMA RecoverableKeeps ==
  ASSUME MaxBatchSize \in Nat, Sane, Sane', Recoverable, KeepsRows, KeepsChain, KeepsStream,
         Alive' \subseteq Alive, Placed' \subseteq Placed, UNCHANGED <<recorded, kept, ahead>>
  PROVE  Recoverable'
<1>0. recorded \in Nat /\ RowsKept' /\ StreamKept' /\ Len(store'.raw) <= recorded
  BY KeptKeeps DEF Sane, Typed
<1>1. Numbered'
  <2>1. Live' => page'.last <= recorded
    BY <1>0 DEF KeepsChain, Recoverable, Numbered
  <2>2. \A b \in Alive' : LastOf(b) <= recorded' /\ Len(b.what) <= MaxBatchSize
    BY DEF Recoverable, Numbered
  <2>3. \A p \in Placed' : p[1] \in 1..recorded' /\ p[2] # 0
    BY DEF Recoverable, Numbered
  <2>4. recorded' <= MaxSegment /\ recorded' = recorded
    BY DEF Recoverable, Numbered
  <2> QED
    BY <1>0, <2>1, <2>2, <2>3, <2>4 DEF Numbered, LastOf
<1>2. ChainSound'
  <2>1. CASE page'.writes = <<>> /\ (Live' => page'.last = 0 /\ page'.server = 0)
    <3>1. \A k \in Number : ~(0 < k /\ k <= 0 - 0)
      BY DEF Number
    <3>2. DOMAIN <<>> = {} /\ Len(<<>>) = 0
      OBVIOUS
    <3> QED
      BY <2>1, <3>1, <3>2 DEF ChainSound
  <2>2. CASE /\ Live /\ page'.last = page.last /\ page.server <= page'.server /\ SameChain(page')
             /\ \A k \in Number : page'.server < k /\ k <= page'.last => rows'[k] = rows[k]
    <3>1. /\ page.writes \in Seq(Nat \X Nat) /\ page.server \in Nat /\ page'.server \in Nat /\ page.last \in Nat
      BY DEF Sane, Typed, PageRow
    <3>2. CASE page'.writes = <<>> /\ page'.broken
      BY <3>2 DEF ChainSound
    <3>3. CASE page'.writes = page.writes /\ page'.broken = page.broken
      <4>1. page'.broken => page'.writes = <<>>
        BY <3>3 DEF Recoverable, ChainSound
      <4>2. \A i \in DOMAIN page'.writes : page'.writes[i][1] = page'.last - Len(page'.writes) + i
        BY <2>2, <3>3 DEF Recoverable, ChainSound
      <4>3. ASSUME ~page'.broken, NEW k \in Number, page'.server < k, k <= page'.last - Len(page'.writes)
            PROVE  rows'[k] # 0
        <5>1. Len(page.writes) \in Nat /\ k \in Nat
          BY <3>1 DEF Number
        <5>2. page.server < k /\ k <= page.last - Len(page.writes) /\ k <= page'.last
          BY <2>2, <3>1, <3>3, <4>3, <5>1
        <5>3. rows[k] # 0
          BY <2>2, <3>3, <4>3, <5>2 DEF Recoverable, ChainSound
        <5> QED
          BY <2>2, <4>3, <5>2, <5>3
      <4> QED
        BY <4>1, <4>2, <4>3 DEF ChainSound
    <3> QED
      BY <2>2, <3>2, <3>3 DEF SameChain
  <2> QED
    BY <2>1, <2>2 DEF KeepsChain
<1> QED
  BY <1>0, <1>1, <1>2 DEF Recoverable

\* Page, stream and rows go on as they were.
LEMMA RestRecovers ==
  ASSUME MaxBatchSize \in Nat, Sane, Sane', Recoverable, Resting
  PROVE  Recoverable'
<1>0. /\ Rests(page') /\ SameChain(page') /\ StoreRests /\ NetRests
      /\ UNCHANGED <<rows, recorded, kept, ahead>>
  BY DEF Resting
<1>1. Alive' \subseteq Alive /\ Placed' \subseteq Placed
  BY <1>0, AliveKeeps, PlacedKeeps DEF Rests, Sane
<1>2. KeepsRows
  BY <1>0 DEF KeepsRows
<1>3. KeepsStream
  BY <1>0 DEF KeepsStream, Grows, StoreRests, Sane, Typed, StoreRow
<1>4. KeepsChain
  <2>1. CASE Live
    BY <1>0, <2>1 DEF KeepsChain, Rests, Sane, Typed, PageRow
  <2>2. CASE ~Live
    <3>1. ~Live'
      BY <1>0, <2>2 DEF Rests, Live
    <3> QED
      BY <3>1 DEF KeepsChain, Sane, PageSound
  <2> QED
    BY <2>1, <2>2
<1> QED
  BY <1>0, <1>1, <1>2, <1>3, <1>4, RecoverableKeeps

\* The page's life ends, or it takes up what the server has.
LEMMA TakeUpRecovers ==
  ASSUME MaxBatchSize \in Nat, Sane, Sane', Recoverable, Ends \/ Begins
  PROVE  Recoverable'
<1>1. /\ page'.writes = <<>> /\ Alive' \subseteq Alive /\ Placed' \subseteq Placed
      /\ Live' => page'.last = 0 /\ page'.server = 0
  <2>1. CASE Ends
    BY <2>1, PageEnds
  <2>2. CASE Begins
    <3>1. Live' => page'.last = 0 /\ page'.server = 0
      BY <2>2 DEF Begins, Live
    <3> QED
      BY <2>2, <3>1, PageBegins
  <2> QED
    BY <2>1, <2>2
<1>2. UNCHANGED <<rows, recorded, kept, ahead>> /\ store'.raw = store.raw /\ store'.last = store.last
  BY DEF Ends, Begins
<1>3. KeepsStream
  BY <1>2 DEF KeepsStream, Grows, Sane, Typed, StoreRow
<1> QED
  BY <1>1, <1>2, <1>3, RecoverableKeeps DEF KeepsRows, KeepsChain

\* A batch is appended, whole or cut, and the page hears of it or not.
LEMMA AppendRecovers ==
  ASSUME MaxBatchSize \in Nat, Sane, Sane', Recoverable, NEW m \in net, ServeAppend(m) \/ CutAppend(m)
  PROVE  Recoverable'
<1> DEFINE b == m.batch
<1>0. /\ m.kind = "append" /\ Accepts(store, b) /\ b \in Alive /\ net' \subseteq net
      /\ UNCHANGED <<recorded, kept, ahead>>
  BY DEF ServeAppend, CutAppend, Alive, history
<1>1. Extends(b)
  BY <1>0, AppendExtends DEF ServeAppend, CutAppend
<1>2. KeepsStream /\ store'.journals \subseteq Alive
  BY <1>0, <1>1 DEF Extends, KeepsStream
<1>3. CASE Rests(page') /\ SameChain(page') /\ UNCHANGED rows
  <2>1. Alive' \subseteq Alive /\ Placed' \subseteq Placed
    BY <1>0, <1>2, <1>3, PlacedKeeps DEF Alive, Rests, Sane
  <2>2. KeepsChain
    <3>1. CASE Live
      BY <1>3, <3>1 DEF KeepsChain, Rests, Sane, Typed, PageRow
    <3>2. CASE ~Live
      <4>1. ~Live'
        BY <1>3, <3>2 DEF Rests, Live
      <4> QED
        BY <4>1 DEF KeepsChain, Sane, PageSound
    <3> QED
      BY <3>1, <3>2
  <2>3. KeepsRows
    BY <1>3 DEF KeepsRows
  <2> QED
    BY <1>0, <1>2, <2>1, <2>2, <2>3, RecoverableKeeps
<1>4. CASE ServeAppend(m) /\ Awaits(m) /\ ReceiveAppend(m)
  <2>0. page \in PageRow /\ page.server \in Nat /\ b = page.pending /\ Live /\ page.pending # NoBatch
    BY <1>0, <1>4 DEF Awaits, Sane, Typed, PageRow, PageSound
  <2>1. /\ page'.writes = page.writes /\ page'.broken = page.broken /\ page'.last = page.last
        /\ page'.server = LastOf(b) /\ page'.pending = NoBatch
    BY <1>4, <2>0 DEF ReceiveAppend, PageRow
  <2>2. page.server <= LastOf(b)
    <3>1. b.first = page.server + 1 /\ b.first <= LastOf(b) /\ LastOf(b) \in Nat
      BY <1>0, <2>0, BatchNumbers DEF Sane, QueueSound
    <3> QED
      BY <2>0, <3>1
  <2>3. LastOf(b) <= store'.last /\ LastOf(b) \in Nat /\ store'.last \in Nat
    <3>1. store' = Appended(store, b)
      BY <1>4 DEF ServeAppend
    <3> QED
      BY <1>0, <3>1, AppendExtends, BatchNumbers DEF Counts, Sane, Typed, StoreRow
  <2>4. Removed(RemoveThrough(LastOf(b)))
    BY <1>4 DEF ReceiveAppend
  <2>5. \A k \in Number : rows'[k] \in {0, rows[k]} /\ (k > LastOf(b) => rows'[k] = rows[k])
    <3>1. rows' = RemoveThrough(LastOf(b)) \/ rows' = rows
      BY <2>4 DEF Removed
    <3>2. \A k \in Number : k > LastOf(b) => ~(k <= LastOf(b))
      BY <2>3 DEF Number
    <3> QED
      BY <3>1, <3>2 DEF RemoveThrough
  <2>6. \A k \in Number : k > store'.last => k > LastOf(b)
    BY <2>3 DEF Number
  <2>7. KeepsRows
    BY <2>5, <2>6 DEF KeepsRows
  <2>8. KeepsChain
    <3>1. \A k \in Number : LastOf(b) < k => k > LastOf(b)
      BY <2>3 DEF Number
    <3> QED
      BY <2>0, <2>1, <2>2, <2>5, <3>1 DEF KeepsChain, SameChain
  <2>9. Alive' \subseteq Alive /\ Placed' \subseteq Placed
    BY <1>0, <1>2, <2>1, <2>4, RemovedFacts DEF Alive
  <2> QED
    BY <1>0, <1>2, <2>7, <2>8, <2>9, RecoverableKeeps
<1> QED
  <2>1. \/ ReceiveAppend(m) /\ Awaits(m) /\ ServeAppend(m)
        \/ UNCHANGED <<page, rows>>
        \/ page' = Failed(m, TRUE) /\ UNCHANGED rows
    BY DEF ServeAppend, CutAppend, ReceiveAppend
  <2>2. CASE UNCHANGED <<page, rows>>
    BY <1>3, <2>2, PageRests
  <2>3. CASE page' = Failed(m, TRUE) /\ UNCHANGED rows
    BY <1>3, <2>3, FailedRests
  <2> QED
    BY <1>4, <2>1, <2>2, <2>3

\* The session is finalized: the rows of a page that has nothing else to send go.
LEMMA FinalizeRecovers ==
  ASSUME MaxBatchSize \in Nat, Sane, Sane', Recoverable, Finishes
  PROVE  Recoverable'
<1>0. /\ Live /\ page'.last = page.server /\ UNCHANGED <<recorded, kept, ahead>>
      /\ Rests(page') /\ SameChain(page') /\ StoreRests /\ Grows
      /\ Alive' \subseteq Alive /\ Placed' \subseteq Placed /\ \A k \in Number : rows'[k] \in {0, rows[k]}
  BY DEF Finishes
<1>1. /\ page'.last = page.last /\ page'.server = page.server /\ page.last = page.server
      /\ page.server \in Nat /\ page.server <= store'.last /\ store'.last \in Nat
  BY <1>0 DEF Rests, Sane, Typed, PageRow, StoreRow, QueueSound, StoreRests
<1>2. KeepsRows
  <2> SUFFICES ASSUME NEW k \in Number, k > store'.last PROVE rows[k] = 0
    BY <1>0 DEF KeepsRows
  <2>1. k \in Nat /\ k > page.server /\ ~(k <= page.last)
    BY <1>1 DEF Number
  <2>2. rows[k] # 0 => <<k, rows[k]>> \in Placed
    BY DEF Placed
  <2>3. \A p \in Placed : p[1] > page.server => p[1] <= page.last
    BY <1>0 DEF Sane, QueueSound
  <2> QED
    BY <2>1, <2>2, <2>3
<1>3. KeepsChain
  <2>1. \A k \in Number : ~(page.server < k /\ k <= page.server)
    BY <1>1 DEF Number
  <2> QED
    BY <1>0, <1>1, <2>1 DEF KeepsChain
<1> QED
  BY <1>0, <1>2, <1>3, RecoverableKeeps DEF KeepsStream, StoreRests

\* The rows become the queue, and no append is under way.
LEMMA ResumeRecovers ==
  ASSUME MaxSegment \in Nat, MaxBatchSize \in Nat, Sane, Sane', Recoverable, Resume
  PROVE  Recoverable'
<1> DEFINE n == Cardinality(Remaining)
           queue == [i \in 1..n |-> rows[page.server + i]]
           p == [page EXCEPT !.state = "active", !.accepting = TRUE, !.last = page.server + n, !.queue = queue]
<1>0. /\ page \in PageRow /\ page.server \in Nat /\ page.state = "resuming" /\ page.writes = <<>>
      /\ store.last \in Nat /\ page.server <= store.last /\ Len(store.raw) \in Nat /\ store.last <= Len(store.raw)
      /\ recorded \in Nat /\ UNCHANGED <<store, net, recorded, kept, ahead>>
  <2>1. page \in PageRow /\ store \in StoreRow /\ recorded \in Nat
    BY DEF Sane, Typed
  <2>2. store.raw \in Seq(Nat) /\ store.last \in Nat /\ page.server \in Nat
    BY <2>1 DEF StoreRow, PageRow
  <2>3. page.state = "resuming" /\ page.writes = <<>>
    BY DEF Resume, Sane, PageSound, Live
  <2>4. UNCHANGED <<store, net, recorded, kept, ahead>>
    BY DEF Resume, history
  <2> QED
    BY <2>1, <2>2, <2>3, <2>4 DEF Sane, StreamSound, QueueSound
<1>1. CASE Continuous /\ page' = p /\ Removed(RemoveThrough(page.server))
  <2>1. /\ page'.last = page.server + n /\ page'.server = page.server /\ page'.writes = <<>>
        /\ page'.pending = page.pending
    BY <1>0, <1>1 DEF PageRow
  <2> HIDE DEF p, queue
  <2>2. n \in Nat /\ \A i \in 1..n : rows[page.server + i] # 0 /\ <<page.server + i, rows[page.server + i]>> \in Placed
    BY <1>0, <1>1, RemainingFacts
  <2> HIDE DEF n
  <2>3. Alive' \subseteq Alive /\ Placed' \subseteq Placed
    BY <1>0, <1>1, <2>1, RemovedFacts DEF Alive
  <2>4. \A k \in Number : rows'[k] \in {0, rows[k]} /\ (k > page.server => rows'[k] = rows[k])
    <3>1. rows' = RemoveThrough(page.server) \/ rows' = rows
      BY <1>1 DEF Removed
    <3>2. \A k \in Number : k > page.server => ~(k <= page.server)
      BY <1>0 DEF Number
    <3> QED
      BY <3>1, <3>2 DEF RemoveThrough
  <2>5. KeepsRows /\ KeepsStream
    <3>1. \A k \in Number : k > store.last => k > page.server
      BY <1>0 DEF Number
    <3>2. Grows
      BY <1>0 DEF Grows
    <3> QED
      BY <1>0, <2>4, <3>1, <3>2 DEF KeepsRows, KeepsStream
  <2>6. RowsKept' /\ StreamKept'
    BY <1>0, <2>3, <2>5, KeptKeeps
  <2>7. page'.last <= recorded
    <3>1. CASE n = 0
      <4>1. page'.last = page.server
        BY <1>0, <2>1, <3>1
      <4>2. Len(store.raw) <= recorded
        BY DEF Recoverable, Numbered
      <4> QED
        BY <1>0, <4>1, <4>2
    <3>2. CASE n # 0
      <4>1. <<page.server + n, rows[page.server + n]>> \in Placed
        BY <2>2, <3>2
      <4>2. page.server + n \in 1..recorded
        BY <4>1 DEF Recoverable, Numbered
      <4> QED
        BY <1>0, <2>1, <4>2
    <3> QED
      BY <3>1, <3>2
  <2>8. Numbered'
    BY <1>0, <2>3, <2>7 DEF Recoverable, Numbered, LastOf
  <2>9. ChainSound'
    <3>1. ASSUME NEW k \in Number, page.server < k, k <= page.server + n - 0
          PROVE  rows'[k] # 0
      <4>1. k - page.server \in 1..n /\ page.server + (k - page.server) = k /\ k > page.server
        BY <1>0, <2>2, <3>1 DEF Number
      <4>2. rows[k] # 0
        BY <2>2, <4>1
      <4> QED
        BY <2>4, <4>1, <4>2
    <3>2. DOMAIN page'.writes = {} /\ Len(page'.writes) = 0
      BY <2>1
    <3>3. page'.last - Len(page'.writes) = page.server + n - 0
      BY <1>0, <2>1, <2>2, <3>2
    <3>4. \A k \in Number : page'.server < k /\ k <= page'.last - Len(page'.writes) => rows'[k] # 0
      BY <2>1, <3>1, <3>3
    <3> QED
      BY <2>1, <3>2, <3>4 DEF ChainSound
  <2> QED
    BY <2>6, <2>8, <2>9 DEF Recoverable
<1>2. CASE page' = [Closed(page.life) EXCEPT !.state = "failed"] /\ UNCHANGED rows
  BY <1>2, ResumeFails, TakeUpRecovers
<1> QED
  BY <1>1, <1>2 DEF Resume

\* A segment gets the next number and, unless the chain has failed, an append.
LEMMA EnqueueRecovers ==
  ASSUME MaxSegment \in Nat, MaxBatchSize \in Nat, Sane, Sane', Recoverable, Enqueue
  PROVE  Recoverable'
<1> DEFINE row == <<page.last + 1, recorded + 1>>
<1>0. /\ page.last \in Nat /\ recorded \in Nat /\ page.server \in Nat /\ page.writes \in Seq(Nat \X Nat)
      /\ recorded < MaxSegment /\ Live /\ recorded' = recorded + 1 /\ Len(store.raw) \in Nat
      /\ Len(page.writes) \in Nat
      /\ UNCHANGED <<store, net, rows, kept, ahead>>
  <2>1. page \in PageRow /\ store \in StoreRow /\ recorded \in Nat
    BY DEF Sane, Typed
  <2>2. page.last \in Nat /\ page.server \in Nat /\ page.writes \in Seq(Nat \X Nat) /\ store.raw \in Seq(Nat)
    BY <2>1 DEF StoreRow, PageRow
  <2>3. Len(store.raw) \in Nat /\ Len(page.writes) \in Nat
    BY <2>2
  <2> QED
    BY <2>1, <2>2, <2>3 DEF Enqueue, Active, Live
<1>1. /\ Alive' = Alive /\ \A q \in Placed' : q \in Placed \/ q = row
      /\ page'.last = page.last + 1 /\ page'.server = page.server /\ page'.broken = page.broken
      /\ page'.writes = IF page.broken THEN page.writes ELSE Append(page.writes, row)
  BY EnqueueKeeps
<1>2. RowsKept' /\ StreamKept'
  <2>1. KeepsRows /\ KeepsStream
    <3>1. store.last \in Nat
      BY DEF Sane, Typed, StoreRow
    <3> QED
      BY <1>0, <3>1 DEF KeepsRows, KeepsStream, Grows
  <2> QED
    BY <1>0, <1>1, <2>1, KeptKeeps
<1>3. Numbered'
  <2>1. page.last <= recorded /\ Len(store.raw) <= recorded
    BY <1>0 DEF Recoverable, Numbered
  <2>2. page'.last <= recorded' /\ Len(store'.raw) <= recorded' /\ recorded' <= MaxSegment
    BY <1>0, <1>1, <2>1
  <2>3. \A q \in Placed' : q[1] \in 1..recorded' /\ q[2] # 0
    <3>1. \A q \in Placed : q[1] \in 1..recorded /\ q[2] # 0
      BY DEF Recoverable, Numbered
    <3>2. \A i \in 1..recorded : i \in 1..recorded + 1
      BY <1>0
    <3>3. row[1] \in 1..recorded + 1 /\ row[2] # 0
      BY <1>0, <2>1
    <3> HIDE DEF row
    <3> QED
      BY <1>0, <1>1, <3>1, <3>2, <3>3
  <2>4. \A b \in Alive' : LastOf(b) <= recorded' /\ Len(b.what) <= MaxBatchSize
    <3> SUFFICES ASSUME NEW b \in Alive PROVE LastOf(b) <= recorded' /\ Len(b.what) <= MaxBatchSize
      BY <1>1
    <3>1. LastOf(b) \in Nat /\ LastOf(b) <= recorded /\ Len(b.what) <= MaxBatchSize
      BY BatchEnd DEF Recoverable, Numbered
    <3> QED
      BY <1>0, <3>1
  <2> QED
    BY <2>2, <2>3, <2>4 DEF Numbered, LastOf
<1>4. ChainSound'
  <2>1. CASE page.broken
    <3>1. page.writes = <<>> /\ page'.writes = <<>> /\ page'.broken
      BY <1>1, <2>1 DEF Recoverable, ChainSound
    <3> QED
      BY <3>1 DEF ChainSound
  <2>2. CASE ~page.broken
    <3> DEFINE l == Len(page.writes)
    <3>1. page'.writes = Append(page.writes, row) /\ ~page'.broken
      BY <1>1, <2>2
    <3>2. row \in Nat \X Nat
      BY <1>0
    <3> HIDE DEF row
    <3>3. /\ Len(page'.writes) = l + 1 /\ DOMAIN page'.writes = 1..l + 1
          /\ page'.writes[l + 1] = row /\ \A i \in 1..l : page'.writes[i] = page.writes[i]
      BY <1>0, <3>1, <3>2
    <3>4. l \in Nat /\ DOMAIN page.writes = 1..l /\ page.last \in Nat
      BY <1>0
    <3> HIDE DEF l
    <3>5. \A x, y, j \in Nat : x - y + j = x + 1 - (y + 1) + j /\ x + 1 - (y + 1) + (y + 1) = x + 1
      OBVIOUS
    <3>6. ASSUME NEW i \in 1..l + 1
          PROVE  page'.writes[i][1] = page.last + 1 - (l + 1) + i
      <4>1. CASE i \in 1..l
        <5>1. page.writes[i][1] = page.last - l + i
          BY <3>4, <4>1 DEF Recoverable, ChainSound, l
        <5>2. page'.writes[i] = page.writes[i]
          BY <3>3, <4>1
        <5>3. i \in Nat
          BY <3>4
        <5>4. page.last - l + i = page.last + 1 - (l + 1) + i
          BY <3>4, <3>5, <5>3
        <5> QED
          BY <5>1, <5>2, <5>4
      <4>2. CASE i = l + 1
        <5>1. page'.writes[i][1] = page.last + 1
          BY <3>3, <4>2 DEF row
        <5>2. page.last + 1 - (l + 1) + i = page.last + 1
          BY <1>0, <3>4, <3>5, <4>2
        <5> QED
          BY <5>1, <5>2
      <4> QED
        BY <3>4, <4>1, <4>2
    <3>7. ASSUME NEW k \in Number, page.server < k, k <= page.last + 1 - (l + 1)
          PROVE  rows[k] # 0
      <4>1. \A x, y, j \in Nat : j <= x + 1 - (y + 1) => j <= x - y
        OBVIOUS
      <4>2. k \in Nat
        BY DEF Number
      <4>3. k <= page.last - l
        BY <1>0, <3>4, <3>7, <4>1, <4>2
      <4>4. k <= page.last - Len(page.writes)
        BY <4>3 DEF l
      <4> QED
        BY <1>0, <2>2, <3>7, <4>4 DEF Recoverable, ChainSound
    <3>8. page'.last - Len(page'.writes) = page.last + 1 - (l + 1)
      <4>1. page'.last = page.last + 1
        BY <1>1
      <4>2. Len(page'.writes) = l + 1
        BY <3>3
      <4> QED
        BY <3>4, <4>1, <4>2
    <3>9. \A i \in DOMAIN page'.writes : page'.writes[i][1] = page'.last - Len(page'.writes) + i
      BY <3>3, <3>6, <3>8
    <3>10. ASSUME NEW k \in Number, page'.server < k, k <= page'.last - Len(page'.writes)
           PROVE  rows'[k] # 0
      <4>1. page.server < k /\ k <= page.last + 1 - (l + 1)
        BY <1>1, <3>8, <3>10
      <4> QED
        BY <1>0, <3>7, <4>1
    <3> QED
      BY <3>1, <3>9, <3>10 DEF ChainSound
  <2> QED
    BY <2>1, <2>2
<1> QED
  BY <1>2, <1>3, <1>4 DEF Recoverable

\* A row is written: all the numbers before it have theirs.
LEMMA AppendRowRecovers ==
  ASSUME MaxSegment \in Nat, MaxBatchSize \in Nat, Sane, Sane', Recoverable, AppendRow
  PROVE  Recoverable'
<1> DEFINE n == Head(page.writes)[1]
           c == Head(page.writes)[2]
           l == Len(page.writes)
<1>0. /\ page.writes \in Seq(Nat \X Nat) /\ page.writes # <<>> /\ page.last \in Nat /\ page.server \in Nat
      /\ store.last \in Nat /\ recorded \in Nat /\ rows \in [Number -> Nat] /\ page.server <= store.last
      /\ rows[n] \in {0, c} /\ rows' = [rows EXCEPT ![n] = c] /\ kept' = kept \cup {<<n, c>>}
      /\ UNCHANGED <<store, net, recorded, ahead>>
  <2>1. page \in PageRow /\ store \in StoreRow /\ rows \in [Number -> Nat] /\ recorded \in Nat
    BY DEF Sane, Typed
  <2>2. /\ page.writes \in Seq(Nat \X Nat) /\ page.last \in Nat /\ page.server \in Nat
        /\ store.last \in Nat
    BY <2>1 DEF PageRow, StoreRow
  <2> QED
    BY <2>1, <2>2 DEF AppendRow, Sane, QueueSound
<1>1. /\ Live /\ Alive' \subseteq Alive /\ Placed' \subseteq Placed
      /\ page'.writes = Tail(page.writes) /\ page'.broken = page.broken
      /\ page'.last = page.last /\ page'.server = page.server
  BY AppendRowKeeps
<1>2. /\ Head(page.writes) = page.writes[1] /\ 1 \in DOMAIN page.writes
      /\ \A i \in DOMAIN Tail(page.writes) : i + 1 \in DOMAIN page.writes /\ Tail(page.writes)[i] = page.writes[i + 1]
  BY <1>0, TailFacts
<1>3. l \in Nat /\ Len(Tail(page.writes)) = l - 1 /\ DOMAIN Tail(page.writes) = 1..l - 1
  BY <1>0, HeadTailProperties, LenProperties
<1>4. n = page.last - l + 1 /\ n \in Number /\ n \in Nat /\ c # 0 /\ c \in Nat /\ ~page.broken
  <2>1. Head(page.writes) \in Placed /\ Head(page.writes) \in Nat \X Nat
    BY <1>0, <1>2 DEF Placed
  <2>2. n \in 1..recorded /\ c # 0 /\ recorded <= MaxSegment
    BY <2>1 DEF Recoverable, Numbered
  <2>3. n = page.last - l + 1
    BY <1>2 DEF Recoverable, ChainSound
  <2>4. ~page.broken
    BY <1>0 DEF Recoverable, ChainSound
  <2> QED
    BY <1>0, <2>1, <2>2, <2>3, <2>4 DEF Number
<1>5. \A k \in Number : page.server < k /\ k < n => rows[k] # 0
  <2> SUFFICES ASSUME NEW k \in Number, page.server < k, k < n PROVE rows[k] # 0
    OBVIOUS
  <2>1. \A x, y, j \in Nat : j < x - y + 1 => j <= x - y
    OBVIOUS
  <2>2. k \in Nat
    BY DEF Number
  <2>3. k <= page.last - l
    BY <1>0, <1>3, <1>4, <2>1, <2>2
  <2> QED
    BY <1>1, <1>4, <2>3 DEF Recoverable, ChainSound
<1> HIDE DEF n, c, l
<1>6. \A k \in Number : rows'[k] = IF k = n THEN c ELSE rows[k]
  BY <1>0, <1>4
<1>7. \A k \in Number : rows[k] # 0 => rows'[k] = rows[k]
  BY <1>0, <1>6
<1>8. Numbered'
  BY <1>0, <1>1 DEF Recoverable, Numbered, LastOf
<1>9. ChainSound'
  <2>1. ASSUME NEW i \in DOMAIN Tail(page.writes)
        PROVE  Tail(page.writes)[i][1] = page.last - (l - 1) + i
    <3>1. /\ Tail(page.writes)[i] = page.writes[i + 1] /\ i + 1 \in DOMAIN page.writes
      BY <1>2
    <3>2. page.writes[i + 1][1] = page.last - l + (i + 1)
      BY <3>1 DEF Recoverable, ChainSound, l
    <3>3. \A x, y, j \in Nat : x - y + (j + 1) = x - (y - 1) + j
      OBVIOUS
    <3>4. i \in Nat /\ l \in Nat /\ page.last \in Nat
      BY <1>0, <1>3
    <3>5. page.last - l + (i + 1) = page.last - (l - 1) + i
      BY <3>3, <3>4
    <3> QED
      BY <3>1, <3>2, <3>5
  <2>2. ASSUME NEW k \in Number, page.server < k, k <= page.last - (l - 1) PROVE rows'[k] # 0
    <3>1. \A x, y, j, a \in Nat : j <= x - (y - 1) /\ a = x - y + 1 => j < a \/ j = a
      OBVIOUS
    <3>2. k \in Nat /\ page.last \in Nat /\ l \in Nat /\ n \in Nat /\ n = page.last - l + 1
      BY <1>0, <1>3, <1>4 DEF Number
    <3>3. k < n \/ k = n
      BY <2>2, <3>1, <3>2
    <3> QED
      BY <1>4, <1>5, <1>6, <2>2, <3>3
  <2>3. page'.last - Len(page'.writes) = page.last - (l - 1)
    BY <1>0, <1>1, <1>3
  <2>4. \A i \in DOMAIN page'.writes : page'.writes[i][1] = page'.last - Len(page'.writes) + i
    BY <1>1, <2>1, <2>3
  <2>5. \A k \in Number : page'.server < k /\ k <= page'.last - Len(page'.writes) => rows'[k] # 0
    BY <1>1, <2>2, <2>3
  <2>6. ~page'.broken
    BY <1>1, <1>4
  <2> QED
    BY <2>4, <2>5, <2>6 DEF ChainSound
<1>10. RowsKept'
  <2>1. ASSUME NEW i \in Number, NEW k \in Number, store.last < i, i < k, rows'[k] # 0
        PROVE  rows'[i] # 0
    <3>1. CASE k = n
      <4>1. page.server < i
        BY <1>0, <2>1 DEF Number
      <4> QED
        BY <1>5, <1>7, <2>1, <3>1, <4>1
    <3>2. CASE k # n
      <4>1. rows[k] # 0
        BY <1>6, <2>1, <3>2
      <4>2. rows[i] # 0
        BY <2>1, <4>1 DEF Recoverable, RowsKept
      <4> QED
        BY <1>7, <4>2
    <3> QED
      BY <3>1, <3>2
  <2>2. ASSUME NEW p \in kept', p[1] > store.last
        PROVE  p[1] \in Number /\ rows'[p[1]] = p[2]
    <3>1. CASE p \in kept
      <4>1. p[1] \in Number /\ rows[p[1]] = p[2] /\ p[2] # 0
        BY <2>2, <3>1 DEF Recoverable, RowsKept
      <4> QED
        BY <1>7, <4>1
    <3>2. CASE p = <<n, c>>
      BY <1>4, <1>6, <3>2
    <3> QED
      BY <1>0, <3>1, <3>2
  <2>3. kept' \subseteq Nat \X (Nat \ {0})
    BY <1>0, <1>4 DEF Recoverable, RowsKept
  <2> QED
    BY <1>0, <2>1, <2>2, <2>3 DEF RowsKept
<1>11. StreamKept'
  <2>1. ~ahead => \A k \in Number : store.last < k /\ k <= Len(store.raw) => rows'[k] = store.raw[k] /\ rows'[k] # 0
    BY <1>7 DEF Recoverable, StreamKept
  <2>2. ~ahead => \A b \in Alive : \A k \in Number :
          store.last < k /\ k \in b.first..LastOf(b) => rows'[k] = b.what[k - b.first + 1] /\ rows'[k] # 0
    BY <1>7 DEF Recoverable, StreamKept
  <2>3. Len(store.raw) <= store.last + MaxBatchSize
    BY DEF Recoverable, StreamKept
  <2> QED
    BY <1>0, <1>1, <2>1, <2>2, <2>3 DEF StreamKept, LastOf
<1> QED
  BY <1>8, <1>9, <1>10, <1>11 DEF Recoverable

\* A batch is cut: what it holds was numbered, and unless it outran IndexedDB its
\* segments are in the rows.
LEMMA CreateBatchRecovers ==
  ASSUME MaxBatchSize \in Nat, Sane, Sane', Recoverable, NEW b, Cuts(b)
  PROVE  Recoverable'
<1> DEFINE l == Len(b.what)
<1>0. /\ page.server \in Nat /\ page.last \in Nat /\ recorded \in Nat /\ Len(page.queue) \in Nat
      /\ page.last = page.server + Len(page.queue) /\ page.last <= recorded /\ store.last \in Nat
      /\ l \in 1..Len(page.queue) /\ LastOf(b) = page.server + l /\ l <= MaxBatchSize
      /\ b.first = page.server + 1 /\ FirstQueued = b.first
  <2>1. page \in PageRow /\ store \in StoreRow /\ recorded \in Nat
    BY DEF Sane, Typed
  <2>2. page.server \in Nat /\ page.last \in Nat /\ page.queue \in Seq(Nat) /\ store.last \in Nat
    BY <2>1 DEF PageRow, StoreRow
  <2>3. Len(page.queue) \in Nat
    BY <2>2
  <2> QED
    BY <2>1, <2>2, <2>3 DEF Cuts, Sane, QueueSound, Recoverable, Numbered
<1>1. /\ Live /\ page'.writes = page.writes /\ page'.broken = page.broken
      /\ page'.last = page.last /\ page'.server = page.server
      /\ Alive' \subseteq Alive \cup {b} /\ Placed' = Placed
      /\ ahead' = (ahead \/ ~Written(b.what)) /\ UNCHANGED <<store, rows, recorded, kept>>
  BY DEF Cuts
<1>2. LastOf(b) <= recorded
  <2>1. \A s, x, q, r \in Nat : s + q <= r /\ x <= q => s + x <= r
    OBVIOUS
  <2> QED
    BY <1>0, <2>1
<1>3. Numbered'
  <2>1. \A d \in Alive' : LastOf(d) <= recorded /\ Len(d.what) <= MaxBatchSize
    BY <1>0, <1>1, <1>2 DEF Recoverable, Numbered
  <2> QED
    BY <1>1, <2>1 DEF Recoverable, Numbered, LastOf
<1>4. ChainSound'
  BY <1>1 DEF Recoverable, ChainSound
<1>5. RowsKept'
  BY <1>1 DEF Recoverable, RowsKept
<1>6. ASSUME Written(b.what), NEW n \in Number, store.last < n, n \in b.first..LastOf(b)
      PROVE  rows[n] = b.what[n - b.first + 1] /\ rows[n] # 0
  <2> DEFINE i == n - b.first + 1
  <2>1. n \in Nat /\ i \in 1..l /\ b.first + i - 1 = n
    <3>1. \A s, x, m \in Nat : m \in s + 1 .. s + x => m - (s + 1) + 1 \in 1..x /\ s + 1 + (m - (s + 1) + 1) - 1 = m
      OBVIOUS
    <3>2. n \in Nat /\ l \in Nat /\ n \in page.server + 1 .. page.server + l
      BY <1>0, <1>6 DEF Number
    <3> QED
      BY <1>0, <3>1, <3>2
  <2>2. <<n, b.what[i]>> \in kept
    <3>1. \A j \in 1..l : <<b.first + j - 1, b.what[j]>> \in kept
      BY <1>0, <1>6 DEF Written
    <3> QED
      BY <2>1, <3>1
  <2> HIDE DEF i
  <2>3. n > store.last
    BY <1>0, <1>6, <2>1
  <2>4. rows[n] = b.what[i] /\ b.what[i] # 0
    BY <2>2, <2>3 DEF Recoverable, RowsKept
  <2> QED
    BY <2>4 DEF i
<1>7. StreamKept'
  <2>1. /\ Len(store.raw) <= store.last + MaxBatchSize
        /\ ~ahead' => \A k \in Number : store.last < k /\ k <= Len(store.raw) => rows[k] = store.raw[k] /\ rows[k] # 0
    BY <1>1 DEF Recoverable, StreamKept
  <2>2. ~ahead' => \A d \in Alive' : \A k \in Number :
          store.last < k /\ k \in d.first..LastOf(d) => rows[k] = d.what[k - d.first + 1] /\ rows[k] # 0
    BY <1>1, <1>6 DEF Recoverable, StreamKept
  <2> QED
    BY <1>1, <2>1, <2>2 DEF StreamKept, LastOf
<1> QED
  BY <1>3, <1>4, <1>5, <1>7 DEF Recoverable

\* What is recorded can be recovered at the beginning.
LEMMA RecoverableInit ==
  ASSUME MaxSegment \in Nat, MaxBatchSize \in Nat, Init, Sane
  PROVE  Recoverable
<1>1. <<>> \in Seq(Nat) /\ Len(<<>>) = 0 /\ DOMAIN <<>> = {}
  OBVIOUS
<1>2. /\ page.last = 0 /\ page.server = 0 /\ page.pending = NoBatch /\ page.writes = <<>>
      /\ page.state = "closed" /\ ~Live
  <2>1. page = Closed(0)
    BY DEF Init
  <2> QED
    BY <2>1 DEF Closed, Live
<1>3. store.last = 0 /\ store.raw = <<>> /\ store.journals = {} /\ net = {} /\ recorded = 0
      /\ kept = {} /\ rows = [n \in Number |-> 0]
  BY DEF Init, NoSession
<1>4. Placed = {} /\ Alive = {}
  BY <1>1, <1>2, <1>3 DEF Placed, Alive
<1>5. Numbered /\ ChainSound /\ RowsKept
  BY <1>1, <1>2, <1>3, <1>4 DEF Numbered, ChainSound, RowsKept
<1>6. StreamKept
  <2>1. \A n \in Number : ~(0 < n /\ n <= 0)
    BY DEF Number
  <2> QED
    BY <1>1, <1>3, <1>4, <2>1 DEF StreamKept
<1> QED
  BY <1>5, <1>6 DEF Recoverable

\* Every step keeps what is recorded recoverable.
LEMMA RecoverableStep == Sane /\ Recoverable /\ [Next]_vars => Recoverable'
<1> SUFFICES ASSUME Sane, Recoverable, [Next]_vars PROVE Recoverable'
  OBVIOUS
<1>0. MaxSegment \in Nat /\ MaxBatchSize \in Nat \ {0} /\ Sane'
  BY BoundsAssumption, SaneStep
<1>1. CASE UNCHANGED vars
  <2>1. Resting
    BY <1>1, PageRests, Still DEF vars
  <2> QED
    BY <1>0, <2>1, RestRecovers
<1>2. CASE PageStep
  <2>1. CASE Overflow \/ AppendRowFails \/ Flush \/ FlushRejected \/ Stop \/ Send \/ SendFinalize
    <3>1. Resting
      BY <2>1, PageTurns, RequestsTurn
    <3> QED
      BY <1>0, <3>1, RestRecovers
  <2>2. CASE Start \/ ReadSession \/ Bootstrap \/ Reload
    <3>1. Resting \/ Begins \/ Ends
      BY <2>2, TakeUp
    <3> QED
      BY <1>0, <3>1, RestRecovers, TakeUpRecovers
  <2>3. CASE CreateBatch
    <3>1. Resting \/ \E b : Cuts(b)
      BY <1>0, <2>3, CreateBatchKeeps
    <3> QED
      BY <1>0, <3>1, RestRecovers, CreateBatchRecovers
  <2>4. CASE Resume \/ Enqueue \/ AppendRow
    BY <1>0, <2>4, ResumeRecovers, EnqueueRecovers, AppendRowRecovers
  <2> QED
    BY <1>2, <2>1, <2>2, <2>3, <2>4 DEF PageStep
<1>3. CASE \/ \E m \in net : Disconnect(m) \/ RefuseAppend(m) \/ RefuseFinalize(m) \/ CutFinalize(m)
           \/ AbandonStale \/ AbandonPending \/ Deadline \/ Recover
  <2>1. Resting
    BY <1>3, RequestsTurn
  <2> QED
    BY <1>0, <2>1, RestRecovers
<1>4. CASE \E m \in net : ServeAppend(m) \/ CutAppend(m)
  BY <1>0, <1>4, AppendRecovers
<1>5. CASE \E m \in net : ServeFinalize(m)
  <2>1. Resting \/ Finishes
    BY <1>5, FinalizeKeeps
  <2> QED
    BY <1>0, <2>1, RestRecovers, FinalizeRecovers
<1> QED
  BY <1>1, <1>2, <1>3, <1>4, <1>5 DEF Next

\* Finitely many numbers after s without a gap are the next ones.
LEMMA GapFree ==
  ASSUME NEW s \in Nat, NEW m \in Nat, NEW R \in SUBSET (s + 1 .. m),
         \A k \in R : s + 1 .. k \subseteq R
  PROVE  R = s + 1 .. s + Cardinality(R)
<1> DEFINE c == Cardinality(R)
<1>0. \A a, b \in Int : IsFiniteSet(a..b) /\ Cardinality(a..b) = IF a > b THEN 0 ELSE b - a + 1
  BY FS_Interval
<1>1. IsFiniteSet(R) /\ c \in Nat
  <2>1. s + 1 \in Int /\ m \in Int
    OBVIOUS
  <2>2. IsFiniteSet(s + 1 .. m)
    BY <1>0, <2>1
  <2> QED
    BY <2>2, FS_Subset, FS_CardinalityType
<1>2. \A k \in Nat : s <= k => IsFiniteSet(s + 1 .. k) /\ Cardinality(s + 1 .. k) = k - s
  <2> SUFFICES ASSUME NEW k \in Nat, s <= k
               PROVE  IsFiniteSet(s + 1 .. k) /\ Cardinality(s + 1 .. k) = k - s
    OBVIOUS
  <2>1. s + 1 \in Int /\ k \in Int /\ k - s = IF s + 1 > k THEN 0 ELSE k - (s + 1) + 1
    OBVIOUS
  <2> QED
    BY <1>0, <2>1
<1>3. ASSUME NEW k \in R PROVE k \in s + 1 .. s + c
  <2>1. Cardinality(s + 1 .. k) <= c
    BY <1>1, FS_Subset
  <2>2. Cardinality(s + 1 .. k) = k - s
    BY <1>2
  <2> QED
    BY <1>1, <2>1, <2>2
<1>4. IsFiniteSet(s + 1 .. s + c) /\ Cardinality(s + 1 .. s + c) = c
  <2> DEFINE e == s + c
  <2> HIDE DEF c
  <2>1. e \in Nat /\ s <= e /\ e - s = c
    BY <1>1
  <2> HIDE DEF e
  <2>2. IsFiniteSet(s + 1 .. e) /\ Cardinality(s + 1 .. e) = c
    BY <1>2, <2>1
  <2> QED
    BY <2>2 DEF e
<1>5. R \subseteq s + 1 .. s + c
  BY <1>3
<1> QED
  BY <1>4, <1>5, FS_Subset

\* As long as no batch outran IndexedDB, a page that is reloaded finds rows that
\* continue the session, and they begin with what an unfinished append has left in
\* the stream: whatever is cut, lost or late, and however often the page is reloaded.
THEOREM ReloadAlwaysRecovers == Spec => []ReloadRecovers
<1>1. ASSUME Sane, Recoverable PROVE ReloadRecovers
  <2> SUFFICES ASSUME ~ahead PROVE
        LET rest == {n \in Number : n > store.last /\ rows[n] # 0} IN
        /\ rest = store.last + 1 .. store.last + Cardinality(rest)
        /\ Len(store.raw) - store.last \in 0..MaxBatchSize
        /\ \A n \in store.last + 1 .. Len(store.raw) : rows[n] = store.raw[n]
    BY DEF ReloadRecovers
  <2> DEFINE rest == {n \in Number : n > store.last /\ rows[n] # 0}
  <2>0. /\ MaxSegment \in Nat /\ MaxBatchSize \in Nat /\ store.last \in Nat /\ Len(store.raw) \in Nat
        /\ store.last <= Len(store.raw) /\ recorded \in Nat
    <3>1. store \in StoreRow /\ recorded \in Nat
      BY <1>1 DEF Sane, Typed
    <3>2. store.last \in Nat /\ store.raw \in Seq(Nat)
      BY <3>1 DEF StoreRow
    <3> QED
      BY <1>1, <3>1, <3>2, BoundsAssumption DEF Sane, StreamSound
  <2>1. rest = store.last + 1 .. store.last + Cardinality(rest)
    <3>1. rest \subseteq store.last + 1 .. MaxSegment
      BY <2>0 DEF Number
    <3>2. ASSUME NEW k \in rest, NEW i \in store.last + 1 .. k PROVE i \in rest
      <4>1. k \in Number /\ i \in Number /\ store.last < i /\ (i < k \/ i = k)
        BY <2>0, <3>2 DEF Number
      <4> QED
        BY <1>1, <4>1 DEF Recoverable, RowsKept
    <3> HIDE DEF rest
    <3> QED
      BY <2>0, <3>1, <3>2, GapFree
  <2>2. Len(store.raw) - store.last \in 0..MaxBatchSize
    <3>1. Len(store.raw) <= store.last + MaxBatchSize
      BY <1>1 DEF Recoverable, StreamKept
    <3> QED
      BY <2>0, <3>1
  <2>3. ASSUME NEW n \in store.last + 1 .. Len(store.raw) PROVE rows[n] = store.raw[n]
    <3>1. Len(store.raw) <= recorded /\ recorded <= MaxSegment
      BY <1>1 DEF Recoverable, Numbered
    <3>2. n \in Number /\ store.last < n /\ n <= Len(store.raw)
      BY <2>0, <3>1 DEF Number
    <3> QED
      BY <1>1, <3>2 DEF Recoverable, StreamKept
  <2> QED
    BY <2>1, <2>2, <2>3
<1>2. Init => Sane /\ Recoverable
  BY SaneInit, RecoverableInit, BoundsAssumption
<1>3. Sane /\ Recoverable /\ [Next]_vars => (Sane /\ Recoverable)'
  BY SaneStep, RecoverableStep
<1> QED
  BY <1>1, <1>2, <1>3, PTL DEF Spec
=============================================================================
