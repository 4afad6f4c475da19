----------------------- MODULE StatelessServerProofs -----------------------
(***************************************************************************)
(* Theorems about the stateless server, for every set of threads, texts    *)
(* and deltas, every cache size and every length of chains.                *)
(***************************************************************************)
EXTENDS StatelessServer, Counting, SequenceTheorems, TLAPS

-----------------------------------------------------------------------------
(* Hashes *)

\* The delta sequences of a hash are the ones of at most MaxChain deltas.
LEMMA DeltaSequences ==
    /\ \A ds \in Deltas : ds \in Seq(DeltaText) /\ Len(ds) \in 0..MaxChain
    /\ \A ds \in Seq(DeltaText) : Len(ds) <= MaxChain => ds \in Deltas
    /\ << >> \in Deltas
<1>1. ASSUME NEW ds \in Deltas
      PROVE  ds \in Seq(DeltaText) /\ Len(ds) \in 0..MaxChain
  BY <1>1, BoundAssumption DEF Deltas
<1>2. ASSUME NEW ds \in Seq(DeltaText), Len(ds) <= MaxChain
      PROVE  ds \in Deltas
  <2>1. Len(ds) \in 0..MaxChain /\ ds \in [1..Len(ds) -> DeltaText]
    BY <1>2, LenProperties, BoundAssumption
  <2> QED BY <2>1 DEF Deltas
<1>3. << >> \in Deltas
  <2>1. << >> \in Seq(DeltaText) /\ Len(<< >>) <= MaxChain
    BY EmptySeq, BoundAssumption
  <2> QED BY <1>2, <2>1
<1> QED BY <1>1, <1>2, <1>3

\* What POST /states, /infer and /merge, and /compact name a state by is a
\* hash, and stands for the parent's text with the new deltas behind it.
LEMMA CreateTarget ==
    ASSUME NEW t \in Text
    PROVE  /\ ChainHash(t, << >>) \in Hash
           /\ Content(ChainHash(t, << >>)) =
                 After(Content(ChainHash(t, << >>)), << >>)
<1>1. << >> \in Deltas /\ 0 \in 0..MaxChain
  BY DeltaSequences, BoundAssumption
<1>2. << >> \o << >> = << >>
  BY EmptySeq, ConcatEmptySeq
<1> QED BY <1>1, <1>2 DEF Hash, ChainHash, Content, After

\* So is what /infer and /merge name the new state by.
LEMMA AdvanceTarget ==
    ASSUME NEW h \in Hash, NEW d \in DeltaText, Len(h.deltas) < MaxChain
    PROVE  LET new == ChainHash(h.base, Append(h.deltas, d))
           IN  /\ new \in Hash
               /\ <<d>> \in Deltas
               /\ Content(new) = After(Content(h), <<d>>)
<1>1. h.deltas \in Seq(DeltaText) /\ h.base \in Text
  BY DeltaSequences DEF Hash
<1>2. Append(h.deltas, d) \in Deltas
  <2>1. /\ Append(h.deltas, d) \in Seq(DeltaText)
        /\ Len(Append(h.deltas, d)) = Len(h.deltas) + 1
    BY <1>1, AppendProperties
  <2>2. Len(h.deltas) + 1 <= MaxChain
    BY <1>1, LenProperties, BoundAssumption
  <2> QED BY <2>1, <2>2, DeltaSequences
<1>3. <<d>> \in Deltas
  <2>1. <<d>> \in Seq(DeltaText) /\ Len(<<d>>) = 1
    OBVIOUS
  <2>2. 1 <= MaxChain
    BY <1>1, LenProperties, BoundAssumption
  <2> QED BY <2>1, <2>2, DeltaSequences
<1>4. Append(h.deltas, d) = h.deltas \o <<d>>
  BY <1>1, AppendIsConcat
<1>5. 0 \in 0..MaxChain
  BY BoundAssumption
<1> QED BY <1>1, <1>2, <1>3, <1>4, <1>5 DEF Hash, ChainHash, Content, After

\* So are the hash /compact answers with and the one it stores under.
LEMMA CompactTarget ==
    ASSUME NEW h \in Hash, NEW ds \in Deltas, ds # << >>,
           Len(h.deltas) + Len(ds) <= MaxChain
    PROVE  /\ FoldHash(h, ds) \in Hash
           /\ CountHash(h, ds) \in Hash
           /\ Content(FoldHash(h, ds)) = After(Content(h), ds)
<1>1. /\ h.deltas \in Deltas /\ h.deltas \in Seq(DeltaText)
      /\ ds \in Seq(DeltaText) /\ h.base \in Text
  BY DeltaSequences DEF Hash
<1>2. Len(ds) \in 1..MaxChain /\ Len(h.deltas) \in Nat
  BY <1>1, DeltaSequences, EmptySeq, LenProperties, BoundAssumption
<1>3. /\ h.deltas \o ds \in Seq(DeltaText)
      /\ Len(h.deltas \o ds) = Len(h.deltas) + Len(ds)
  BY <1>1, ConcatProperties
<1>4. h.deltas \o ds \in Deltas
  BY <1>3, DeltaSequences
<1> QED BY <1>1, <1>2, <1>3, <1>4, BoundAssumption
        DEF Hash, FoldHash, CountHash, Content, After

-----------------------------------------------------------------------------
(* Type correctness *)

\* Contents of a hash, and a cache with more text behind it, are caches.
LEMMA CacheTypes ==
    /\ \A h \in Hash : Content(h) \in Kv
    /\ \A kv \in Kv, ds \in Seq(DeltaText) : After(kv, ds) \in Kv
<1>1. \A h \in Hash : Content(h) \in Kv
  BY DeltaSequences DEF Hash, Content, Kv
<1>2. ASSUME NEW kv \in Kv, NEW ds \in Seq(DeltaText)
      PROVE  After(kv, ds) \in Kv
  <2>1. kv.deltas \o ds \in Seq(DeltaText)
    BY ConcatProperties DEF Kv
  <2> QED BY <2>1 DEF After, Kv
<1> QED BY <1>1, <1>2

\* _hot and its insertion order: a key set keeps the two in step ...
LEMMA SetHotOrder ==
    ASSUME TypeOK, NEW h \in Hash, NEW o \in Obj, SetHot(h, o)
    PROVE  /\ order' \in Seq(Hash)
           /\ hot' \in [Hash -> Obj \cup {None}]
           /\ Keys(order') = {g \in Hash : hot'[g] # None}
           /\ \A k, l \in 1..Len(order') : order'[k] = order'[l] => k = l
<1> USE DEF TypeOK
<1>1. hot' = [hot EXCEPT ![h] = o] /\ o # None
  BY ValueAssumption DEF SetHot
<1>2. CASE IsHot(h)
  BY <1>1, <1>2 DEF SetHot, IsHot
<1>3. CASE ~IsHot(h)
  <2>1. order' = Append(order, h)
    BY <1>3 DEF SetHot
  <2>2. /\ order' \in Seq(Hash)
        /\ Len(order') = Len(order) + 1
        /\ \A k \in 1..Len(order) : order'[k] = order[k]
        /\ order'[Len(order) + 1] = h
        /\ Len(order) \in Nat
    BY <2>1, AppendProperties, LenProperties
  <2>3. h \notin Keys(order)
    BY <1>3
  <2>4. Keys(order') = Keys(order) \cup {h}
    <3>1. ASSUME NEW g \in Keys(order)
          PROVE  g \in Keys(order')
      <4>1. PICK k \in 1..Len(order) : g = order[k]
        BY DEF Keys
      <4>2. k \in 1..Len(order') /\ order'[k] = g
        BY <2>2, <4>1
      <4> QED BY <4>2 DEF Keys
    <3>2. h \in Keys(order')
      <4>1. Len(order) + 1 \in 1..Len(order')
        BY <2>2
      <4> QED BY <2>2, <4>1 DEF Keys
    <3>3. ASSUME NEW g \in Keys(order')
          PROVE  g \in Keys(order) \cup {h}
      <4>1. PICK k \in 1..Len(order') : g = order'[k]
        BY DEF Keys
      <4>2. CASE k = Len(order) + 1
        BY <2>2, <4>1, <4>2
      <4>3. CASE k \in 1..Len(order)
        BY <2>2, <4>1, <4>3 DEF Keys
      <4> QED BY <2>2, <4>2, <4>3
    <3> QED BY <3>1, <3>2, <3>3
  <2>5. {g \in Hash : hot'[g] # None} = {g \in Hash : IsHot(g)} \cup {h}
    BY <1>1 DEF IsHot
  <2>6. \A k, l \in 1..Len(order') : order'[k] = order'[l] => k = l
    BY <2>2, <2>3 DEF Keys
  <2> QED BY <1>1, <2>2, <2>4, <2>5, <2>6
<1> QED BY <1>2, <1>3

\* ... and so does the eviction of the oldest.
LEMMA EvictOrder ==
    ASSUME TypeOK, order # << >>, order' = Tail(order),
           hot' = [hot EXCEPT ![Head(order)] = None]
    PROVE  /\ order' \in Seq(Hash)
           /\ hot' \in [Hash -> Obj \cup {None}]
           /\ Keys(order') = {g \in Hash : hot'[g] # None}
           /\ \A k, l \in 1..Len(order') : order'[k] = order'[l] => k = l
<1> USE DEF TypeOK
<1>1. /\ order' \in Seq(Hash)
      /\ Len(order') = Len(order) - 1
      /\ \A k \in 1..Len(order') : order'[k] = order[k + 1]
      /\ Len(order) \in Nat \ {0}
      /\ Head(order) = order[1]
  BY HeadTailProperties, EmptySeq
<1>2. \A k, l \in 1..Len(order') : order'[k] = order'[l] => k = l
  BY <1>1
<1>3. Keys(order') = Keys(order) \ {Head(order)}
  <2>1. ASSUME NEW g \in Keys(order) \ {Head(order)}
        PROVE  g \in Keys(order')
    <3>1. PICK k \in 1..Len(order) : g = order[k]
      BY DEF Keys
    <3>2. k # 1
      BY <1>1, <3>1
    <3>3. k - 1 \in 1..Len(order') /\ order'[k - 1] = g
      BY <1>1, <3>1, <3>2
    <3> QED BY <3>3 DEF Keys
  <2>2. ASSUME NEW g \in Keys(order')
        PROVE  g \in Keys(order) \ {Head(order)}
    <3>1. PICK k \in 1..Len(order') : g = order'[k]
      BY DEF Keys
    <3>2. k + 1 \in 1..Len(order) /\ order[k + 1] = g
      BY <1>1, <3>1
    <3>3. order[k + 1] # order[1]
      BY <1>1, <3>2
    <3> QED BY <1>1, <3>2, <3>3 DEF Keys
  <2> QED BY <2>1, <2>2
<1>4. {g \in Hash : hot'[g] # None} = {g \in Hash : IsHot(g)} \ {Head(order)}
  BY DEF IsHot
<1> QED BY <1>1, <1>2, <1>3, <1>4

\* What a request asks for is a request.
Asked(r) == r \in Req /\ r.obj = None /\ {r.from, r.addr, r.file} \subseteq Hash

\* A request goes on being one when its cache is in hand or being loaded.
LEMMA AskedTypes ==
    /\ Idle \in Req
    /\ \A g, h, f \in Hash, ds \in Deltas : Asked(Asks(g, h, f, ds))
    /\ \A r : Asked(r) =>
          /\ \A o \in Obj :
                [r EXCEPT !.pc = "run", !.obj = o, !.snap = None] \in Req
          /\ \A kv \in Kv : [r EXCEPT !.pc = "load", !.snap = kv] \in Req
<1>1. Idle \in Req
  BY DeltaSequences DEF Idle, Req, Pc
<1>2. ASSUME NEW g \in Hash, NEW h \in Hash, NEW f \in Hash, NEW ds \in Deltas
      PROVE  Asked(Asks(g, h, f, ds))
  BY DEF Asked, Asks, Idle, Req, Pc
<1>3. ASSUME NEW r, Asked(r), NEW o \in Obj
      PROVE  [r EXCEPT !.pc = "run", !.obj = o, !.snap = None] \in Req
  BY <1>3, ValueAssumption DEF Asked, Req, Pc
<1>4. ASSUME NEW r, Asked(r), NEW kv \in Kv
      PROVE  [r EXCEPT !.pc = "load", !.snap = kv] \in Req
  BY <1>4 DEF Asked, Req, Pc
<1> QED BY <1>1, <1>2, <1>3, <1>4

\* Going on from _get_kv keeps the types of the requests.
LEMMA ProceedTypes ==
    ASSUME TypeOK, NEW i \in Thread, NEW r, Asked(r), NEW o \in Obj,
           Proceed(i, r, o)
    PROVE  /\ req' \in [Thread -> Req]
           /\ acked' \subseteq Hash
           /\ \A j \in Thread : req'[j].obj \in {req[j].obj, o, None}
<1> DEFINE run == [r EXCEPT !.pc = "run", !.obj = o, !.snap = None]
<1>1. run \in Req /\ Idle \in Req
  BY AskedTypes
<1>2. run.obj = o /\ Idle.obj = None
  BY DEF Asked, Req, Idle
<1>3. \/ req' = [req EXCEPT ![i] = run] /\ acked' = acked
      \/ req' = [req EXCEPT ![i] = Idle] /\ acked' \subseteq acked \cup {r.addr}
  BY DEF Proceed
<1> QED BY <1>1, <1>2, <1>3 DEF TypeOK, Asked

\* The heap holds the objects somebody refers to, whoever stops doing so.
LEMMA HeapKeptTypes ==
    ASSUME TypeOK, HeapKept, hot' = hot,
           \A i \in Thread : req'[i].obj \in Held \cup {None}
    PROVE  heap' \in [Held' -> Kv]
BY DEF TypeOK, HeapKept, Held

\* So it does when one object gets new contents.
LEMMA HeapWithTypes ==
    ASSUME TypeOK, NEW o, NEW kv \in Kv, HeapWith(o, kv),
           \A h \in Hash : hot'[h] \in {hot[h], o, None},
           \A i \in Thread : req'[i].obj \in {req[i].obj, o, None}
    PROVE  heap' \in [Held' -> Kv]
<1>1. Held' \subseteq Held \cup {o}
  BY DEF Held
<1> QED BY <1>1 DEF TypeOK, HeapWith

\* _get_kv keeps the types, from memory and from disk ...
LEMMA GetKvType ==
    ASSUME TypeOK, NEW i \in Thread, req[i] = Idle,
           NEW r, Asked(r), GetKv(i, r)
    PROVE  TypeOK'
<1>1. CASE IsHot(r.from)
  <2>1. /\ UNCHANGED <<order, hot, blob, man>> /\ HeapKept
        /\ Proceed(i, r, hot[r.from])
    BY <1>1 DEF GetKv
  <2>2. hot[r.from] \in Obj /\ hot[r.from] \in Held
    BY <1>1 DEF IsHot, TypeOK, Asked, Held
  <2>3. /\ req' \in [Thread -> Req] /\ acked' \subseteq Hash
        /\ \A j \in Thread : req'[j].obj \in {req[j].obj, hot[r.from], None}
    BY <2>1, <2>2, ProceedTypes
  <2>4. \A j \in Thread : req[j].obj \in Held \cup {None}
    BY DEF Held
  <2>5. heap' \in [Held' -> Kv]
    BY <2>1, <2>2, <2>3, <2>4, HeapKeptTypes
  <2> QED BY <2>1, <2>3, <2>5 DEF TypeOK, IsHot
<1>2. CASE ~IsHot(r.from)
  <2>1. /\ UNCHANGED <<order, hot, blob, man, heap, acked>>
        /\ blob[r.from] \in Kv
        /\ req' = [req EXCEPT ![i] = [r EXCEPT !.pc = "load",
                                             !.snap = blob[r.from]]]
    BY <1>2 DEF GetKv, TypeOK, Asked
  <2>2. req' \in [Thread -> Req]
    BY <2>1, AskedTypes DEF TypeOK
  <2>3. \A j \in Thread : req'[j].obj = req[j].obj
    BY <2>1 DEF TypeOK, Asked, Req, Idle
  <2>4. Held' = Held
    BY <2>1, <2>3 DEF Held
  <2> QED BY <2>1, <2>2, <2>4 DEF TypeOK, IsHot
<1> QED BY <1>1, <1>2

\* ... and when the loaded state enters _hot.
LEMMA WarmType ==
    ASSUME TypeOK, NEW i \in Thread, Warm(i)
    PROVE  TypeOK'
<1>1. PICK o \in Fresh(req[i].from) :
         /\ SetHot(req[i].from, o)
         /\ Proceed(i, req[i], o)
         /\ HeapWith(o, req[i].snap)
  BY DEF Warm
<1>2. /\ req[i] \in Req /\ req[i].pc = "load"
      /\ {req[i].from, req[i].addr, req[i].file} \subseteq Hash
      /\ req[i].snap \in Kv /\ req[i].obj = None
  BY DEF Warm, TypeOK, Req
<1>3. o \in Obj
  BY <1>2 DEF Fresh, Obj
<1>4. /\ order' \in Seq(Hash)
      /\ hot' \in [Hash -> Obj \cup {None}]
      /\ Keys(order') = {g \in Hash : hot'[g] # None}
      /\ \A k, l \in 1..Len(order') : order'[k] = order'[l] => k = l
  BY <1>1, <1>2, <1>3, SetHotOrder
<1>5. \A h \in Hash : hot'[h] \in {hot[h], o, None}
  BY <1>1 DEF SetHot, TypeOK
<1>6. /\ req' \in [Thread -> Req] /\ acked' \subseteq Hash
      /\ \A j \in Thread : req'[j].obj \in {req[j].obj, o, None}
  BY <1>1, <1>2, <1>3, ProceedTypes DEF Asked
<1>7. heap' \in [Held' -> Kv]
  BY <1>1, <1>2, <1>5, <1>6, HeapWithTypes
<1> QED BY <1>4, <1>6, <1>7 DEF Warm, TypeOK, IsHot

\* The requests and the steps of one.
LEMMA RequestType ==
    ASSUME TypeOK, NEW i \in Thread,
           \/ \E t \in Text : CreateKnown(i, t)
           \/ \E h \in acked, d \in DeltaText : Advance(i, h, d)
           \/ \E h \in acked : \E ds \in Deltas :
                 Len(ds) \in 1..MaxFold /\ Compact(i, h, ds)
    PROVE  TypeOK'
<1>1. ASSUME NEW t \in Text, CreateKnown(i, t)
      PROVE  TypeOK'
  BY <1>1, CreateTarget, DeltaSequences, AskedTypes, GetKvType DEF CreateKnown
<1>2. ASSUME NEW h \in acked, NEW d \in DeltaText, Advance(i, h, d)
      PROVE  TypeOK'
  <2>1. h \in Hash
    BY DEF TypeOK
  <2> QED BY <1>2, <2>1, AdvanceTarget, AskedTypes, GetKvType DEF Advance
<1>3. ASSUME NEW h \in acked, NEW ds \in Deltas, Len(ds) \in 1..MaxFold,
             Compact(i, h, ds)
      PROVE  TypeOK'
  <2>1. h \in Hash /\ ds # << >>
    BY <1>3, EmptySeq DEF TypeOK
  <2> QED BY <1>3, <2>1, CompactTarget, AskedTypes, GetKvType DEF Compact
<1> QED BY <1>1, <1>2, <1>3

\* A new text is read into a cache of its own.
LEMMA CreateNewType ==
    ASSUME TypeOK, NEW i \in Thread, NEW t \in Text, CreateNew(i, t)
    PROVE  TypeOK'
<1> DEFINE h == ChainHash(t, << >>)
<1>1. h \in Hash /\ Content(h) \in Kv
  BY CreateTarget, CacheTypes
<1>2. PICK o \in Fresh(i) :
         /\ req' = [req EXCEPT ![i] = [Asks(h, h, h, << >>) EXCEPT
                                         !.pc = "run", !.obj = o]]
         /\ HeapWith(o, Content(h))
  BY DEF CreateNew
<1>3. o \in Obj
  BY DEF Fresh, Obj
<1>4. [Asks(h, h, h, << >>) EXCEPT !.pc = "run", !.obj = o] \in Req
  BY <1>1, <1>3, DeltaSequences, ValueAssumption DEF Asks, Idle, Req, Pc
<1>5. req' \in [Thread -> Req]
  BY <1>2, <1>4 DEF TypeOK
<1>6. \A j \in Thread : req'[j].obj \in {req[j].obj, o, None}
  BY <1>2 DEF TypeOK, Asks, Idle
<1>7. heap' \in [Held' -> Kv]
  BY <1>1, <1>2, <1>6, HeapWithTypes DEF CreateNew
<1> QED BY <1>5, <1>7 DEF CreateNew, TypeOK, IsHot

\* A forward pass, in place or not, leaves the thread with a cache in hand.
LEMMA ForwardType ==
    ASSUME TypeOK, NEW i \in Thread, Forward(i)
    PROVE  TypeOK'
<1> DEFINE out == After(heap[req[i].obj], <<Head(req[i].todo)>>)
<1>1. /\ req[i] \in Req /\ req[i].obj \in Held \cap Obj
      /\ req[i].todo \in Deltas /\ req[i].todo # << >> /\ req[i].pc = "run"
  BY DEF Forward, TypeOK, Req, Held
<1>2. Head(req[i].todo) \in DeltaText /\ Tail(req[i].todo) \in Deltas
  <2> DEFINE ds == req[i].todo
  <2>1. ds \in Seq(DeltaText) /\ Len(ds) \in 0..MaxChain
    BY <1>1, DeltaSequences
  <2>2. /\ Head(ds) \in DeltaText /\ Tail(ds) \in Seq(DeltaText)
        /\ Len(Tail(ds)) = Len(ds) - 1
    BY <1>1, <2>1, HeadTailProperties
  <2>3. Len(Tail(ds)) <= MaxChain
    BY <2>1, <2>2, BoundAssumption
  <2> QED BY <2>2, <2>3, DeltaSequences
<1>3. out \in Kv
  <2>1. heap[req[i].obj] \in Kv /\ <<Head(req[i].todo)>> \in Seq(DeltaText)
    BY <1>1, <1>2 DEF TypeOK
  <2> QED BY <2>1, CacheTypes
<1>4. PICK o \in IF InPlace THEN {req[i].obj} ELSE Fresh(i) :
         /\ req' = [req EXCEPT ![i].obj = o, ![i].todo = Tail(@)]
         /\ HeapWith(o, out)
  BY DEF Forward
<1>5. o \in Obj
  BY <1>1, <1>4 DEF Fresh, Obj
<1>6. [req[i] EXCEPT !.obj = o, !.todo = Tail(@)] \in Req
  BY <1>1, <1>2, <1>5, ValueAssumption DEF Req
<1>7. /\ req' \in [Thread -> Req]
      /\ \A j \in Thread : req'[j].obj \in {req[j].obj, o, None}
  BY <1>1, <1>4, <1>6 DEF TypeOK, Req
<1>8. heap' \in [Held' -> Kv]
  BY <1>3, <1>4, <1>7, HeapWithTypes DEF Forward
<1> QED BY <1>7, <1>8 DEF Forward, TypeOK, IsHot

\* The first half of _put_kv.
LEMMA EvictType ==
    ASSUME TypeOK, NEW i \in Thread, Evict(i)
    PROVE  TypeOK'
<1>1. /\ req[i] \in Req /\ req[i].pc = "run"
      /\ heap[req[i].obj] \in Kv
  BY DEF Evict, TypeOK, Req, Held
<1>2. [req[i] EXCEPT !.pc = "put", !.obj = None,
                     !.snap = heap[req[i].obj]] \in Req
  BY <1>1 DEF Req, Pc
<1>3. /\ req' \in [Thread -> Req]
      /\ \A j \in Thread : req'[j].obj \in {req[j].obj, None}
  BY <1>1, <1>2 DEF Evict, TypeOK, Req
<1>4. /\ order' \in Seq(Hash)
      /\ hot' \in [Hash -> Obj \cup {None}]
      /\ Keys(order') = {g \in Hash : hot'[g] # None}
      /\ \A k, l \in 1..Len(order') : order'[k] = order'[l] => k = l
  <2>1. CASE Len(order) >= HotMax
    <3>1. order # << >>
      BY <2>1, EmptySeq, BoundAssumption
    <3> QED BY <2>1, <3>1, EvictOrder DEF Evict
  <2>2. CASE ~(Len(order) >= HotMax)
    BY <2>2 DEF Evict, TypeOK, IsHot
  <2> QED BY <2>1, <2>2
<1>5. heap' \in [Held' -> Kv]
  <2>1. \A h \in Hash : hot'[h] \in {hot[h], None}
    BY DEF Evict, TypeOK
  <2>2. Held' \subseteq Held
    BY <1>3, <2>1 DEF Held
  <2> QED BY <2>2 DEF Evict, HeapKept, TypeOK
<1> QED BY <1>3, <1>4, <1>5 DEF Evict, TypeOK, IsHot

\* PacketStore.create: the blob and the manifest.
LEMMA PutType ==
    ASSUME TypeOK, NEW i \in Thread,
           OpenBlob(i) \/ SaveBlob(i) \/ SaveManifest(i)
    PROVE  TypeOK'
<1>1. /\ req[i] \in Req /\ req[i].obj = None /\ req[i].file \in Hash
      /\ req[i].snap \in Kv
  BY DEF OpenBlob, SaveBlob, SaveManifest, TypeOK, Req
<1>2. /\ req' \in [Thread -> Req]
      /\ \A j \in Thread : req'[j].obj = req[j].obj
  <2>1. CASE OpenBlob(i)
    <3>1. ASSUME NEW j \in Thread
          PROVE  req'[j] \in Req /\ req'[j].obj = req[j].obj
      <4>1. req[j] \in Req
        BY DEF TypeOK
      <4>2. CASE j = i
        BY <1>1, <2>1, <4>2 DEF OpenBlob, Req, Pc
      <4>3. CASE j # i
        BY <2>1, <4>1, <4>3 DEF OpenBlob, Req, Pc
      <4> QED BY <4>2, <4>3
    <3> QED BY <2>1, <3>1 DEF OpenBlob
  <2>2. CASE SaveBlob(i)
    BY <1>1, <2>2 DEF SaveBlob, TypeOK, Req, Pc
  <2>3. CASE SaveManifest(i)
    BY <1>1, <2>3 DEF SaveManifest, TypeOK, Req, Pc
  <2> QED BY <2>1, <2>2, <2>3
<1>3. Held' = Held
  <2>1. hot' = hot
    BY DEF OpenBlob, SaveBlob, SaveManifest
  <2> QED BY <1>2, <2>1 DEF Held
<1>4. blob' \in [Hash -> Kv \cup {Absent, Torn}]
  <2>1. Saved(i) \subseteq Kv \cup {Absent, Torn}
    BY <1>1 DEF Saved, TypeOK
  <2> QED BY <2>1 DEF OpenBlob, SaveBlob, SaveManifest, TypeOK
<1>5. man' \subseteq Hash
  BY <1>1 DEF OpenBlob, SaveBlob, SaveManifest, TypeOK
<1> QED BY <1>2, <1>3, <1>4, <1>5
        DEF OpenBlob, SaveBlob, SaveManifest, TypeOK, IsHot

\* The end of _put_kv.
LEMMA AnswerType ==
    ASSUME TypeOK, NEW i \in Thread, Answer(i)
    PROVE  TypeOK'
<1>1. /\ req[i].addr \in Hash /\ req[i].snap \in Kv
  BY DEF Answer, TypeOK, Req
<1>2. PICK o \in Fresh(req[i].addr) :
         SetHot(req[i].addr, o) /\ HeapWith(o, req[i].snap)
  BY DEF Answer
<1>3. o \in Obj
  BY <1>1 DEF Fresh, Obj
<1>4. /\ order' \in Seq(Hash)
      /\ hot' \in [Hash -> Obj \cup {None}]
      /\ Keys(order') = {g \in Hash : hot'[g] # None}
      /\ \A k, l \in 1..Len(order') : order'[k] = order'[l] => k = l
  BY <1>1, <1>2, <1>3, SetHotOrder
<1>5. /\ req' \in [Thread -> Req]
      /\ \A j \in Thread : req'[j].obj \in {req[j].obj, o, None}
  BY AskedTypes DEF Answer, TypeOK, Idle
<1>6. \A h \in Hash : hot'[h] \in {hot[h], o, None}
  BY <1>2 DEF SetHot, TypeOK
<1>7. heap' \in [Held' -> Kv]
  BY <1>1, <1>2, <1>5, <1>6, HeapWithTypes
<1> QED BY <1>1, <1>4, <1>5, <1>7 DEF Answer, TypeOK, IsHot

\* A restart forgets all but the store.
LEMMA RestartType ==
    ASSUME TypeOK, Restart
    PROVE  TypeOK'
<1>1. Held' = {}
  BY DEF Restart, Held, Idle
<1>2. /\ order' \in Seq(Hash) /\ Len(order') = 0 /\ Keys(order') = {}
      /\ {h \in Hash : hot'[h] # None} = {}
  BY EmptySeq DEF Restart, Keys
<1>3. heap' \in [Held' -> Kv]
  BY <1>1 DEF Restart
<1>4. \A k, l \in 1..Len(order') : order'[k] = order'[l] => k = l
  BY <1>2
<1>5. hot' \in [Hash -> Obj \cup {None}] /\ req' \in [Thread -> Req]
  BY AskedTypes DEF Restart
<1>6. /\ blob' \in [Hash -> Kv \cup {Absent, Torn}]
      /\ man' \subseteq Hash /\ acked' \subseteq Hash
  BY DEF Restart, TypeOK
<1> QED BY <1>2, <1>3, <1>4, <1>5, <1>6 DEF TypeOK, IsHot

\* The server starts with nothing hot.
LEMMA InitType == Init => TypeOK
<1> SUFFICES ASSUME Init PROVE TypeOK
  OBVIOUS
<1>1. Held = {}
  BY DEF Init, Held, Idle
<1>2. /\ order \in Seq(Hash) /\ Len(order) = 0 /\ Keys(order) = {}
      /\ {h \in Hash : IsHot(h)} = {}
  BY EmptySeq DEF Init, Keys, IsHot
<1>3. heap \in [Held -> Kv]
  BY <1>1 DEF Init
<1>4. \A k, l \in 1..Len(order) : order[k] = order[l] => k = l
  BY <1>2
<1>5. hot \in [Hash -> Obj \cup {None}] /\ req \in [Thread -> Req]
  BY AskedTypes DEF Init
<1> QED BY <1>2, <1>3, <1>4, <1>5 DEF Init, TypeOK, IsHot

\* No step of the server breaks the types.
LEMMA StepType == TypeOK /\ [Serve \/ Restart]_vars => TypeOK'
<1> SUFFICES ASSUME TypeOK, [Serve \/ Restart]_vars PROVE TypeOK'
  OBVIOUS
<1>1. CASE Serve
  BY <1>1, RequestType, CreateNewType, WarmType, ForwardType, EvictType,
     PutType,
     AnswerType DEF Serve
<1>2. CASE Restart
  BY <1>2, RestartType
<1>3. CASE UNCHANGED vars
  BY <1>3 DEF vars, TypeOK, IsHot, Held
<1> QED BY <1>1, <1>2, <1>3

\* Nothing the threads of the server do, in any order and across restarts,
\* lets _hot and its insertion order disagree, leaves a request in a phase
\* without the values it goes on to use, or puts a value of the wrong kind
\* into a file (stateless_server.py, every handler).
THEOREM ServerTypeCorrect == Spec => []TypeOK
<1> QED BY InitType, StepType, PTL DEF Spec

-----------------------------------------------------------------------------
(* Names and contents *)

\* The inductive invariant behind RunsOnNamedState, for a model that returns
\* a new cache: whatever is hot, on disk under a name that clients get, or in
\* the hands of a thread, is the text it is named for.  The files of a
\* compacted state are the exception: their name does not tell their text.
Targets(r) ==
    /\ r.from.kind # "count" /\ r.addr.kind # "count"
    /\ r.file = r.addr \/ r.file.kind = "count"

ReqNamed(r) ==
    /\ r.pc # "idle" => Targets(r)
    /\ r.pc = "load" => /\ r.snap = Content(r.from)
                        /\ Content(r.addr) = After(Content(r.from), r.todo)
    /\ r.pc = "run" => Content(r.addr) = After(heap[r.obj], r.todo)
    /\ r.pc \in {"put", "save", "manifest", "warm"} =>
          r.snap = Content(r.addr)

HotNamed  == \A h \in Hash : IsHot(h) => heap[hot[h]] = Content(h)
BlobNamed == \A h \in Hash :
                h.kind # "count" => blob[h] \in {Absent, Torn, Content(h)}
NamedInv ==
    /\ \A h \in acked : h.kind # "count"
    /\ HotNamed
    /\ BlobNamed
    /\ \A i \in Thread : ReqNamed(req[i])

\* The objects that stay referred to keep their contents.
HeapSame == \A x \in Held \cap Held' : heap'[x] = heap[x]

\* Steps of other threads leave the objects in use alone.
LEMMA HeapFrame ==
    /\ HeapKept => HeapSame
    /\ \A o, kv : HeapWith(o, kv) /\ o \notin Held =>
          HeapSame /\ (o \in Held' => heap'[o] = kv)
BY DEF HeapKept, HeapWith, HeapSame

\* Requests that do not move keep their names.
LEMMA ReqFrame ==
    ASSUME TypeOK, NamedInv, HeapSame, NEW j \in Thread, req'[j] = req[j]
    PROVE  ReqNamed(req[j])'
<1>1. CASE req[j].pc = "run"
  <2>1. req[j].obj \in Held /\ req'[j].obj \in Held'
    BY <1>1, ValueAssumption DEF TypeOK, Req, Held
  <2> QED BY <1>1, <2>1 DEF HeapSame, NamedInv, ReqNamed, Targets
<1>2. CASE req[j].pc # "run"
  BY <1>2 DEF NamedInv, ReqNamed, Targets
<1> QED BY <1>1, <1>2

\* _get_kv hands over the cache of the state that was asked for.
LEMMA ProceedNamed ==
    ASSUME TypeOK, NamedInv, HeapSame,
           NEW i \in Thread, NEW r, Asked(r), Targets(r),
           Content(r.addr) = After(Content(r.from), r.todo),
           NEW o \in Obj, Proceed(i, r, o),
           o \in Held' => heap'[o] = Content(r.from)
    PROVE  /\ \A h \in acked' : h.kind # "count"
           /\ \A j \in Thread : ReqNamed(req[j])'
<1> DEFINE run == [r EXCEPT !.pc = "run", !.obj = o, !.snap = None]
<1>1. \/ req' = [req EXCEPT ![i] = run] /\ acked' = acked
      \/ req' = [req EXCEPT ![i] = Idle] /\ acked' \subseteq acked \cup {r.addr}
  BY DEF Proceed
<1>2. \A h \in acked' : h.kind # "count"
  BY <1>1 DEF NamedInv, Targets
<1>3. ASSUME NEW j \in Thread \ {i}
      PROVE  ReqNamed(req[j])'
  BY <1>1, ReqFrame DEF TypeOK
<1>4. ReqNamed(req[i])'
  <2>1. CASE req'[i] = run
    <3>1. /\ run.pc = "run" /\ run.obj = o /\ run.todo = r.todo
          /\ run.from = r.from /\ run.addr = r.addr /\ run.file = r.file
      BY DEF Asked, Req
    <3>2. o \in Held'
      BY <2>1, <3>1, ValueAssumption DEF Held
    <3> QED BY <2>1, <3>1, <3>2 DEF ReqNamed, Targets
  <2>2. CASE req'[i] = Idle
    BY <2>2 DEF ReqNamed, Idle
  <2> QED BY <1>1, <2>1, <2>2 DEF TypeOK
<1> QED BY <1>2, <1>3, <1>4

\* From memory it is the hot one, from disk the one in the blob.
LEMMA GetKvNamed ==
    ASSUME TypeOK, NamedInv, NEW i \in Thread, req[i] = Idle,
           NEW r, Asked(r), r.pc = "idle", Targets(r),
           Content(r.addr) = After(Content(r.from), r.todo), GetKv(i, r)
    PROVE  NamedInv'
<1>1. CASE IsHot(r.from)
  <2>1. /\ UNCHANGED <<order, hot, blob, man>> /\ HeapKept
        /\ Proceed(i, r, hot[r.from])
    BY <1>1 DEF GetKv
  <2>2. HeapSame
    BY <2>1, HeapFrame
  <2>3. /\ hot[r.from] \in Obj
        /\ \A h \in Hash : IsHot(h) => hot[h] \in Held /\ hot[h] \in Held'
    BY <1>1, <2>1 DEF IsHot, TypeOK, Asked, Held
  <2>4. heap'[hot[r.from]] = Content(r.from)
    BY <1>1, <2>2, <2>3 DEF HeapSame, NamedInv, HotNamed, Asked
  <2>5. /\ \A h \in acked' : h.kind # "count"
        /\ \A j \in Thread : ReqNamed(req[j])'
    BY <2>1, <2>2, <2>3, <2>4, ProceedNamed
  <2>6. HotNamed'
    BY <2>1, <2>2, <2>3 DEF HeapSame, NamedInv, HotNamed, IsHot
  <2> QED BY <2>1, <2>5, <2>6 DEF NamedInv, BlobNamed
<1>2. CASE ~IsHot(r.from)
  <2> DEFINE ld == [r EXCEPT !.pc = "load", !.snap = blob[r.from]]
  <2>1. /\ UNCHANGED <<order, hot, blob, man, heap, acked>>
        /\ blob[r.from] \notin {Absent, Torn}
        /\ req' = [req EXCEPT ![i] = ld]
    BY <1>2 DEF GetKv
  <2>2. blob[r.from] = Content(r.from)
    BY <2>1 DEF NamedInv, BlobNamed, Asked, Targets
  <2>3. ReqNamed(req[i])'
    <3>1. /\ ld.pc = "load" /\ ld.snap = Content(r.from) /\ ld.todo = r.todo
          /\ ld.from = r.from /\ ld.addr = r.addr /\ ld.file = r.file
      BY <2>2 DEF Asked, Req
    <3>2. req'[i] = ld
      BY <2>1 DEF TypeOK
    <3> QED BY <3>1, <3>2 DEF ReqNamed, Targets
  <2>4. HeapSame
    BY <2>1 DEF HeapSame
  <2>5. \A j \in Thread : ReqNamed(req[j])'
    BY <2>1, <2>3, <2>4, ReqFrame DEF TypeOK
  <2> QED BY <2>1, <2>5 DEF NamedInv, HotNamed, BlobNamed, IsHot
<1> QED BY <1>1, <1>2

\* The objects Fresh offers are new.
LEMMA FreshIsNew ==
    \A w : \A o \in Fresh(w) : o \notin Held
BY DEF Fresh

\* What enters _hot under a name is the text of that name.
LEMMA WarmNamed ==
    ASSUME TypeOK, NamedInv, NEW i \in Thread, Warm(i)
    PROVE  NamedInv'
<1> DEFINE r == req[i]
<1>1. PICK o \in Fresh(r.from) :
         SetHot(r.from, o) /\ Proceed(i, r, o) /\ HeapWith(o, r.snap)
  BY DEF Warm
<1>2. /\ Asked(r) /\ r.pc = "load" /\ r.from \in Hash
  BY DEF Warm, TypeOK, Req, Asked
<1>3. /\ Targets(r) /\ r.snap = Content(r.from)
      /\ Content(r.addr) = After(Content(r.from), r.todo)
  BY <1>2 DEF NamedInv, ReqNamed
<1>4. o \in Obj /\ o \notin Held /\ o # None
  BY <1>2, FreshIsNew, ValueAssumption DEF Fresh, Obj
<1>5. HeapSame /\ (o \in Held' => heap'[o] = Content(r.from))
  BY <1>1, <1>3, <1>4, HeapFrame
<1>6. /\ \A h \in acked' : h.kind # "count"
      /\ \A j \in Thread : ReqNamed(req[j])'
  BY <1>1, <1>2, <1>3, <1>4, <1>5, ProceedNamed
<1>7. HotNamed'
  <2>1. hot' = [hot EXCEPT ![r.from] = o]
    BY <1>1 DEF SetHot
  <2>2. ASSUME NEW h \in Hash, hot'[h] # None
        PROVE  heap'[hot'[h]] = Content(h)
    <3>1. hot'[h] \in Held'
      BY <2>2 DEF Held
    <3>2. CASE h = r.from
      BY <1>5, <2>1, <3>1, <3>2 DEF TypeOK
    <3>3. CASE h # r.from
      <4>1. hot'[h] = hot[h] /\ hot[h] \in Held
        BY <2>1, <2>2, <3>3 DEF TypeOK, Held
      <4> QED BY <1>5, <2>2, <3>1, <4>1 DEF HeapSame, NamedInv, HotNamed, IsHot
    <3> QED BY <3>2, <3>3
  <2> QED BY <2>2 DEF HotNamed, IsHot
<1> QED BY <1>6, <1>7 DEF Warm, NamedInv, BlobNamed

\* Each request asks for the state its answer will name.
LEMMA RequestNamed ==
    ASSUME TypeOK, NamedInv, NEW i \in Thread,
           \/ \E t \in Text : CreateKnown(i, t)
           \/ \E h \in acked, d \in DeltaText : Advance(i, h, d)
           \/ \E h \in acked : \E ds \in Deltas :
                 Len(ds) \in 1..MaxFold /\ Compact(i, h, ds)
    PROVE  NamedInv'
<1> DEFINE Fields(g, h, f, ds) ==
             LET r == Asks(g, h, f, ds)
             IN  /\ r.pc = "idle" /\ r.from = g /\ r.addr = h
                 /\ r.file = f /\ r.todo = ds
<1>1. \A g, h, f, ds : Fields(g, h, f, ds)
  BY DEF Asks, Idle
<1>2. ASSUME NEW t \in Text, CreateKnown(i, t)
      PROVE  NamedInv'
  <2> DEFINE h == ChainHash(t, << >>)
             r == Asks(h, h, h, << >>)
  <2>1. h \in Hash /\ h.kind = "chain" /\ Content(h) = After(Content(h), << >>)
    BY CreateTarget DEF ChainHash
  <2>2. Asked(r)
    BY <2>1, DeltaSequences, AskedTypes
  <2>3. Targets(r) /\ Content(r.addr) = After(Content(r.from), r.todo)
    BY <1>1, <2>1 DEF Targets
  <2> QED BY <1>1, <1>2, <2>2, <2>3, GetKvNamed DEF CreateKnown
<1>3. ASSUME NEW h \in acked, NEW d \in DeltaText, Advance(i, h, d)
      PROVE  NamedInv'
  <2> DEFINE new == ChainHash(h.base, Append(h.deltas, d))
             r == Asks(h, new, new, <<d>>)
  <2>1. h \in Hash /\ h.kind # "count" /\ new.kind = "chain"
    BY DEF TypeOK, NamedInv, ChainHash
  <2>2. /\ new \in Hash /\ <<d>> \in Deltas
        /\ Content(new) = After(Content(h), <<d>>)
    BY <1>3, <2>1, AdvanceTarget DEF Advance
  <2>3. Asked(r)
    BY <2>1, <2>2, AskedTypes
  <2>4. Targets(r) /\ Content(r.addr) = After(Content(r.from), r.todo)
    BY <1>1, <2>1, <2>2 DEF Targets
  <2> QED BY <1>1, <1>3, <2>3, <2>4, GetKvNamed DEF Advance
<1>4. ASSUME NEW h \in acked, NEW ds \in Deltas, Len(ds) \in 1..MaxFold,
             Compact(i, h, ds)
      PROVE  NamedInv'
  <2> DEFINE r == Asks(h, FoldHash(h, ds), CountHash(h, ds), ds)
  <2>1. /\ h \in Hash /\ h.kind # "count" /\ ds # << >>
        /\ FoldHash(h, ds).kind = "fold" /\ CountHash(h, ds).kind = "count"
    BY <1>4, EmptySeq DEF TypeOK, NamedInv, FoldHash, CountHash
  <2>2. /\ FoldHash(h, ds) \in Hash /\ CountHash(h, ds) \in Hash
        /\ Content(FoldHash(h, ds)) = After(Content(h), ds)
    BY <1>4, <2>1, CompactTarget DEF Compact
  <2>3. Asked(r)
    BY <2>1, <2>2, AskedTypes
  <2>4. Targets(r) /\ Content(r.addr) = After(Content(r.from), r.todo)
    BY <1>1, <2>1, <2>2 DEF Targets
  <2> QED BY <1>1, <1>4, <2>3, <2>4, GetKvNamed DEF Compact
<1> QED BY <1>2, <1>3, <1>4

\* The model reads a new text into a cache nobody else holds.
LEMMA CreateNewNamed ==
    ASSUME TypeOK, NamedInv, NEW i \in Thread, NEW t \in Text, CreateNew(i, t)
    PROVE  NamedInv'
<1> DEFINE h == ChainHash(t, << >>)
           run(o) == [Asks(h, h, h, << >>) EXCEPT !.pc = "run", !.obj = o]
<1>1. h \in Hash /\ h.kind = "chain" /\ Content(h) = After(Content(h), << >>)
  BY CreateTarget DEF ChainHash
<1>2. PICK o \in Fresh(i) :
         req' = [req EXCEPT ![i] = run(o)] /\ HeapWith(o, Content(h))
  BY DEF CreateNew
<1>3. o \in Obj /\ o \notin Held /\ o # None
  BY FreshIsNew, ValueAssumption DEF Fresh, Obj
<1>4. HeapSame /\ (o \in Held' => heap'[o] = Content(h))
  BY <1>2, <1>3, HeapFrame
<1>5. ReqNamed(req[i])'
  <2>1. /\ req'[i].pc = "run" /\ req'[i].obj = o /\ req'[i].todo = << >>
        /\ req'[i].from = h /\ req'[i].addr = h /\ req'[i].file = h
    BY <1>2 DEF TypeOK, Asks, Idle
  <2>2. o \in Held'
    BY <1>3, <2>1 DEF Held
  <2> QED BY <1>1, <1>4, <2>1, <2>2 DEF ReqNamed, Targets
<1>6. \A j \in Thread : ReqNamed(req[j])'
  BY <1>2, <1>4, <1>5, ReqFrame DEF TypeOK
<1>7. HotNamed'
  <2>1. \A g \in Hash : hot[g] # None => hot[g] \in Held /\ hot[g] \in Held'
    BY DEF Held, CreateNew
  <2> QED BY <1>4, <2>1 DEF CreateNew, HeapSame, NamedInv, HotNamed, IsHot
<1> QED BY <1>6, <1>7 DEF CreateNew, NamedInv, BlobNamed

\* Running the first delta of a sequence and then the rest is running it all.
LEMMA AfterHeadTail ==
    ASSUME NEW kv \in Kv, NEW ds \in Seq(DeltaText), ds # << >>
    PROVE  After(After(kv, <<Head(ds)>>), Tail(ds)) = After(kv, ds)
<1>1. /\ Head(ds) \in DeltaText /\ Tail(ds) \in Seq(DeltaText)
      /\ Len(Tail(ds)) = Len(ds) - 1
      /\ \A k \in 1..Len(Tail(ds)) : Tail(ds)[k] = ds[k + 1]
  BY HeadTailProperties
<1>2. <<Head(ds)>> \in Seq(DeltaText) /\ Len(<<Head(ds)>>) = 1
  BY <1>1
<1>3. <<Head(ds)>> \o Tail(ds) = ds
  <2> DEFINE s == <<Head(ds)>> \o Tail(ds)
  <2>1. /\ s \in Seq(DeltaText) /\ Len(s) = 1 + Len(Tail(ds))
        /\ \A k \in 1..(1 + Len(Tail(ds))) :
              s[k] = IF k <= 1 THEN <<Head(ds)>>[k] ELSE Tail(ds)[k - 1]
    BY <1>1, <1>2, ConcatProperties
  <2>2. Len(s) = Len(ds) /\ Len(ds) \in Nat
    BY <1>1, <2>1, LenProperties
  <2>3. ASSUME NEW k \in 1..Len(s)
        PROVE  s[k] = ds[k]
    <3>1. CASE k = 1
      BY <2>1, <2>2, <3>1
    <3>2. CASE k # 1
      BY <1>1, <2>1, <2>2, <3>2
    <3> QED BY <3>1, <3>2
  <2> HIDE DEF s
  <2> QED BY <2>1, <2>2, <2>3, SeqEqual DEF s
<1>4. (kv.deltas \o <<Head(ds)>>) \o Tail(ds) = kv.deltas \o ds
  BY <1>1, <1>2, <1>3, ConcatAssociative DEF Kv
<1> QED BY <1>4 DEF After

\* A forward pass that returns a new cache changes no named state.
LEMMA ForwardNamed ==
    ASSUME InPlace = FALSE, TypeOK, NamedInv, NEW i \in Thread, Forward(i)
    PROVE  NamedInv'
<1> DEFINE r   == req[i]
           out == After(heap[r.obj], <<Head(r.todo)>>)
<1>1. PICK o \in Fresh(i) :
         /\ req' = [req EXCEPT ![i].obj = o, ![i].todo = Tail(@)]
         /\ HeapWith(o, out)
  BY DEF Forward
<1>2. /\ r \in Req /\ r.pc = "run" /\ r.todo \in Seq(DeltaText)
      /\ r.todo # << >> /\ heap[r.obj] \in Kv
  <2>1. r \in Req /\ r.pc = "run" /\ r.todo \in Deltas /\ r.obj \in Held
    BY DEF Forward, TypeOK, Req, Held
  <2> QED BY <2>1, DeltaSequences DEF Forward, TypeOK
<1>3. o \in Obj /\ o \notin Held /\ o # None
  BY <1>1, FreshIsNew, ValueAssumption DEF Fresh, Obj
<1>4. HeapSame /\ (o \in Held' => heap'[o] = out)
  BY <1>1, <1>3, HeapFrame
<1>5. ReqNamed(req[i])'
  <2>1. /\ req'[i].pc = "run" /\ req'[i].obj = o /\ req'[i].todo = Tail(r.todo)
        /\ req'[i].from = r.from /\ req'[i].addr = r.addr
        /\ req'[i].file = r.file
    BY <1>1, <1>2 DEF TypeOK, Req
  <2>2. o \in Held'
    BY <1>3, <2>1 DEF Held
  <2>3. Content(r.addr) = After(heap[r.obj], r.todo) /\ Targets(r)
    BY <1>2 DEF NamedInv, ReqNamed
  <2>4. After(out, Tail(r.todo)) = Content(r.addr)
    BY <1>2, <2>3, AfterHeadTail
  <2> QED BY <1>4, <2>1, <2>2, <2>3, <2>4 DEF ReqNamed, Targets
<1>6. \A j \in Thread : ReqNamed(req[j])'
  BY <1>1, <1>4, <1>5, ReqFrame DEF TypeOK
<1>7. HotNamed'
  <2>1. \A g \in Hash : hot[g] # None => hot[g] \in Held /\ hot[g] \in Held'
    BY DEF Held, Forward
  <2> QED BY <1>4, <2>1 DEF Forward, HeapSame, NamedInv, HotNamed, IsHot
<1> QED BY <1>6, <1>7 DEF Forward, NamedInv, BlobNamed

\* What is taken out to be stored is the text of the new name.
LEMMA EvictNamed ==
    ASSUME TypeOK, NamedInv, NEW i \in Thread, Evict(i)
    PROVE  NamedInv'
<1> DEFINE r == req[i]
<1>1. HeapSame
  BY HeapFrame DEF Evict
<1>2. /\ r \in Req /\ r.pc = "run" /\ r.todo = << >> /\ heap[r.obj] \in Kv
      /\ Targets(r) /\ Content(r.addr) = After(heap[r.obj], r.todo)
  BY DEF Evict, TypeOK, Req, Held, NamedInv, ReqNamed
<1>3. heap[r.obj] = Content(r.addr)
  <2>1. After(heap[r.obj], << >>) = heap[r.obj]
    <3>1. heap[r.obj].deltas \o << >> = heap[r.obj].deltas
      BY <1>2, ConcatEmptySeq DEF Kv
    <3> QED BY <1>2, <3>1 DEF After, Kv
  <2> QED BY <1>2, <2>1
<1>4. ReqNamed(req[i])'
  <2>1. /\ req'[i].pc = "put" /\ req'[i].snap = heap[r.obj]
        /\ req'[i].from = r.from /\ req'[i].addr = r.addr
        /\ req'[i].file = r.file
    BY <1>2 DEF Evict, TypeOK, Req
  <2> QED BY <1>2, <1>3, <2>1 DEF ReqNamed, Targets
<1>5. \A j \in Thread : ReqNamed(req[j])'
  BY <1>1, <1>4, ReqFrame DEF Evict, TypeOK
<1>6. HotNamed'
  <2>1. \A g \in Hash : hot'[g] # None =>
           hot'[g] = hot[g] /\ hot[g] \in Held /\ hot[g] \in Held'
    BY DEF Held, Evict, TypeOK
  <2> QED BY <1>1, <2>1 DEF HeapSame, NamedInv, HotNamed, IsHot
<1> QED BY <1>5, <1>6 DEF Evict, NamedInv, BlobNamed

\* Whatever a blob file ends up as, it is the text of its name or torn.
LEMMA PutNamed ==
    ASSUME TypeOK, NamedInv, NEW i \in Thread,
           OpenBlob(i) \/ SaveBlob(i) \/ SaveManifest(i)
    PROVE  NamedInv'
<1> DEFINE r == req[i]
<1>1. /\ r \in Req /\ r.pc \in {"put", "save", "manifest"}
      /\ {r.from, r.addr, r.file} \subseteq Hash
      /\ r.snap = Content(r.addr) /\ Targets(r)
  BY DEF OpenBlob, SaveBlob, SaveManifest, TypeOK, Req, NamedInv, ReqNamed
<1>2. UNCHANGED <<order, hot, heap, acked>>
  BY DEF OpenBlob, SaveBlob, SaveManifest
<1>3. ASSUME NEW j \in Thread
      PROVE  /\ req'[j].from = req[j].from /\ req'[j].addr = req[j].addr
             /\ req'[j].file = req[j].file /\ req'[j].snap = req[j].snap
             /\ req'[j].obj = req[j].obj /\ req'[j].todo = req[j].todo
             /\ req'[j].pc = req[j].pc \/ j = i
             /\ req'[i].pc \in {"save", "manifest", "warm"}
  <2>1. req[j] \in Req
    BY DEF TypeOK
  <2>2. CASE OpenBlob(i)
    BY <1>1, <2>1, <2>2 DEF OpenBlob, Req
  <2>3. CASE SaveBlob(i)
    BY <1>1, <2>1, <2>3 DEF SaveBlob, TypeOK, Req
  <2>4. CASE SaveManifest(i)
    BY <1>1, <2>1, <2>4 DEF SaveManifest, TypeOK, Req
  <2> QED BY <2>2, <2>3, <2>4
<1>4. \A j \in Thread : ReqNamed(req[j])'
  BY <1>1, <1>2, <1>3 DEF NamedInv, ReqNamed, Targets
<1>5. BlobNamed'
  <2>1. CASE OpenBlob(i)
    BY <1>1, <2>1 DEF OpenBlob, TypeOK, NamedInv, BlobNamed
  <2>2. CASE SaveBlob(i)
    <3>1. PICK b \in Saved(i) : blob' = [blob EXCEPT ![r.file] = b]
      BY <2>2 DEF SaveBlob
    <3>2. r.file.kind # "count" => b \in {Absent, Torn, Content(r.file)}
      BY <1>1, <3>1 DEF Saved, Targets, NamedInv, BlobNamed
    <3> QED BY <1>1, <3>1, <3>2 DEF TypeOK, NamedInv, BlobNamed
  <2>3. CASE SaveManifest(i)
    BY <2>3 DEF SaveManifest, NamedInv, BlobNamed
  <2> QED BY <2>1, <2>2, <2>3
<1> QED BY <1>2, <1>4, <1>5 DEF NamedInv, HotNamed, IsHot

\* The stored state enters _hot under its own name.
LEMMA AnswerNamed ==
    ASSUME TypeOK, NamedInv, NEW i \in Thread, Answer(i)
    PROVE  NamedInv'
<1> DEFINE r == req[i]
<1>1. PICK o \in Fresh(r.addr) : SetHot(r.addr, o) /\ HeapWith(o, r.snap)
  BY DEF Answer
<1>2. /\ r.addr \in Hash /\ Targets(r) /\ r.snap = Content(r.addr)
  BY DEF Answer, TypeOK, Req, NamedInv, ReqNamed
<1>3. o \notin Held
  BY FreshIsNew
<1>4. HeapSame /\ (o \in Held' => heap'[o] = Content(r.addr))
  BY <1>1, <1>2, <1>3, HeapFrame
<1>5. \A j \in Thread : ReqNamed(req[j])'
  <2>1. ReqNamed(req[i])'
    BY DEF Answer, TypeOK, ReqNamed, Idle
  <2> QED BY <1>4, <2>1, ReqFrame DEF Answer, TypeOK
<1>6. HotNamed'
  <2>1. hot' = [hot EXCEPT ![r.addr] = o]
    BY <1>1 DEF SetHot
  <2>2. ASSUME NEW h \in Hash, hot'[h] # None
        PROVE  heap'[hot'[h]] = Content(h)
    <3>1. hot'[h] \in Held'
      BY <2>2 DEF Held
    <3>2. CASE h = r.addr
      BY <1>4, <2>1, <3>1, <3>2 DEF TypeOK
    <3>3. CASE h # r.addr
      <4>1. hot'[h] = hot[h] /\ hot[h] \in Held
        BY <2>1, <2>2, <3>3 DEF TypeOK, Held
      <4> QED BY <1>4, <2>2, <3>1, <4>1 DEF HeapSame, NamedInv, HotNamed, IsHot
    <3> QED BY <3>2, <3>3
  <2> QED BY <2>2 DEF HotNamed, IsHot
<1> QED BY <1>2, <1>5, <1>6 DEF Answer, NamedInv, BlobNamed, Targets

\* No step, and no restart, breaks the names.
LEMMA StepNamed ==
    ASSUME InPlace = FALSE, TypeOK, NamedInv, [Serve \/ Restart]_vars
    PROVE  NamedInv'
<1>1. CASE Serve
  BY <1>1, RequestNamed, CreateNewNamed, WarmNamed, ForwardNamed, EvictNamed,
     PutNamed, AnswerNamed DEF Serve
<1>2. CASE Restart
  BY <1>2 DEF Restart, NamedInv, HotNamed, BlobNamed, ReqNamed, Idle, IsHot
<1>3. CASE UNCHANGED vars
  BY <1>3 DEF vars, NamedInv, HotNamed, BlobNamed, ReqNamed, Targets, IsHot
<1> QED BY <1>1, <1>2, <1>3

\* With a model that returns a new cache, every request is computed from the
\* text its hash names, whatever the other threads load, advance, evict and
\* store meanwhile and however often the server is restarted ("The same
\* state_hash from any client always returns the same result").
THEOREM NamesAreKept ==
    ASSUME InPlace = FALSE
    PROVE  Spec => []RunsOnNamedState
<1>1. Init => NamedInv
  BY DEF Init, NamedInv, HotNamed, BlobNamed, ReqNamed, Idle, IsHot
<1>2. TypeOK /\ NamedInv /\ [Serve \/ Restart]_vars => NamedInv'
  BY StepNamed
<1>3. NamedInv => RunsOnNamedState
  BY DEF NamedInv, ReqNamed, RunsOnNamedState
<1> QED BY <1>1, <1>2, <1>3, ServerTypeCorrect, PTL DEF Spec

-----------------------------------------------------------------------------
(* States stay stored *)

\* The inductive invariant behind StoredStates, for a server that stays up:
\* whoever stores a state that is not a compacted one writes the same bytes
\* as everybody else who stores it, so that the last one to have opened the
\* file ("sole") makes it whole, and nobody gets a hash before its manifest
\* is there.
StoredReq(r) ==
    /\ r.pc # "idle" /\ r.addr.kind = "chain" => r.file = r.addr
    /\ r.pc = "load" /\ r.todo = << >> => r.addr = r.from
    /\ r.pc \in {"save", "manifest", "warm"} => blob[r.file] # Absent
    /\ r.pc = "warm" => r.file \in man
    /\ r.pc = "save" /\ r.file.kind # "count" => r.fd \in {"sole", "clobbered"}

Mending(i, h) == req[i].pc = "save" /\ req[i].file = h /\ req[i].fd = "sole"

StoredInv ==
    /\ \A h \in man : blob[h] # Absent
    /\ \A h \in acked : h.kind = "chain" => h \in man
    /\ \A i \in Thread : StoredReq(req[i])
    /\ \A h \in Hash : h.kind # "count" /\ blob[h] = Torn =>
          \E i \in Thread : Mending(i, h)

\* A step of a thread that does not touch the store.
LEMMA QuietStored ==
    ASSUME TypeOK, StoredInv, NEW i \in Thread, UNCHANGED <<blob, man>>,
           \A j \in Thread \ {i} : req'[j] = req[j],
           req[i].pc # "save", StoredReq(req[i])',
           \A h \in acked' : h.kind = "chain" => h \in man
    PROVE  StoredInv'
<1>1. \A j \in Thread : StoredReq(req[j])'
  BY DEF StoredInv, StoredReq
<1>2. ASSUME NEW h \in Hash, h.kind # "count", blob'[h] = Torn
      PROVE  \E j \in Thread : Mending(j, h)'
  <2>1. PICK j \in Thread : Mending(j, h)
    BY <1>2 DEF StoredInv
  <2>2. Mending(j, h)'
    BY <2>1 DEF Mending
  <2> QED BY <2>2
<1> QED BY <1>1, <1>2 DEF StoredInv

\* A request that is answered from _get_kv has found the manifest.
LEMMA ProceedStored ==
    ASSUME TypeOK, StoredInv, NEW i \in Thread, req[i].pc # "save",
           NEW r, Asked(r), NEW o \in Obj, Proceed(i, r, o),
           r.addr.kind = "chain" => r.file = r.addr,
           r.todo = << >> => r.addr = r.from,
           UNCHANGED <<blob, man>>
    PROVE  StoredInv'
<1> DEFINE run == [r EXCEPT !.pc = "run", !.obj = o, !.snap = None]
<1>1. \/ req' = [req EXCEPT ![i] = run] /\ acked' = acked
      \/ /\ req' = [req EXCEPT ![i] = Idle]
         /\ \/ acked' = acked
            \/ acked' = acked \cup {r.addr} /\ r.addr \in man
  <2>1. PICK found \in ManifestReads(r.from) :
           IF found /\ r.todo # << >>
           THEN req' = [req EXCEPT ![i] = run] /\ UNCHANGED acked
           ELSE /\ req' = [req EXCEPT ![i] = Idle]
                /\ acked' = IF found THEN acked \cup {r.addr} ELSE acked
    BY DEF Proceed
  <2>2. found => r.from \in man
    BY DEF ManifestReads
  <2> QED BY <2>1, <2>2
<1>2. StoredReq(req[i])'
  <2>1. CASE req'[i] = run
    <3>1. run.pc = "run" /\ run.addr = r.addr /\ run.file = r.file
      BY DEF Asked, Req
    <3> QED BY <2>1, <3>1 DEF StoredReq
  <2>2. CASE req'[i] = Idle
    BY <2>2 DEF StoredReq, Idle
  <2> QED BY <1>1, <2>1, <2>2 DEF TypeOK
<1>3. \A h \in acked' : h.kind = "chain" => h \in man
  BY <1>1 DEF StoredInv
<1>4. \A j \in Thread \ {i} : req'[j] = req[j]
  BY <1>1 DEF TypeOK
<1> QED BY <1>2, <1>3, <1>4, QuietStored

\* Reading a state changes nothing in the store.
LEMMA GetKvStored ==
    ASSUME TypeOK, StoredInv, NEW i \in Thread, req[i] = Idle,
           NEW r, Asked(r), GetKv(i, r),
           r.addr.kind = "chain" => r.file = r.addr,
           r.todo = << >> => r.addr = r.from
    PROVE  StoredInv'
<1>1. req[i].pc # "save"
  BY DEF Idle
<1>2. CASE IsHot(r.from)
  <2>1. hot[r.from] \in Obj
    BY <1>2 DEF TypeOK, IsHot, Asked
  <2> QED BY <1>1, <1>2, <2>1, ProceedStored DEF GetKv
<1>3. CASE ~IsHot(r.from)
  <2> DEFINE ld == [r EXCEPT !.pc = "load", !.snap = blob[r.from]]
  <2>1. UNCHANGED <<blob, man, acked>> /\ req' = [req EXCEPT ![i] = ld]
    BY <1>3 DEF GetKv
  <2>2. /\ ld.pc = "load" /\ ld.todo = r.todo /\ ld.from = r.from
        /\ ld.addr = r.addr /\ ld.file = r.file
    BY DEF Asked, Req
  <2>3. req'[i] = ld
    BY <2>1 DEF TypeOK
  <2>4. StoredReq(req[i])'
    BY <2>2, <2>3 DEF StoredReq
  <2>5. /\ \A h \in acked' : h.kind = "chain" => h \in man
        /\ \A j \in Thread \ {i} : req'[j] = req[j]
    BY <2>1 DEF StoredInv, TypeOK
  <2> QED BY <1>1, <2>1, <2>4, <2>5, QuietStored
<1> QED BY <1>2, <1>3

\* Nor does putting it into _hot.
LEMMA WarmStored ==
    ASSUME TypeOK, StoredInv, NEW i \in Thread, Warm(i)
    PROVE  StoredInv'
<1> DEFINE r == req[i]
<1>1. PICK o \in Fresh(r.from) : Proceed(i, r, o) /\ UNCHANGED <<blob, man>>
  BY DEF Warm
<1>2. r.pc = "load" /\ Asked(r)
  BY DEF Warm, TypeOK, Req, Asked
<1>3. /\ r.addr.kind = "chain" => r.file = r.addr
      /\ r.todo = << >> => r.addr = r.from
  BY <1>2 DEF StoredInv, StoredReq
<1>4. o \in Obj
  BY <1>2 DEF Fresh, Obj, Asked
<1> QED BY <1>1, <1>2, <1>3, <1>4, ProceedStored

\* A request knows where it will store its result.
LEMMA RequestStored ==
    ASSUME TypeOK, StoredInv, NEW i \in Thread,
           \/ \E t \in Text : CreateKnown(i, t)
           \/ \E h \in acked, d \in DeltaText : Advance(i, h, d)
           \/ \E h \in acked : \E ds \in Deltas :
                 Len(ds) \in 1..MaxFold /\ Compact(i, h, ds)
    PROVE  StoredInv'
<1>1. \A g, h, f, ds : LET r == Asks(g, h, f, ds)
                       IN  /\ r.from = g /\ r.addr = h
                           /\ r.file = f /\ r.todo = ds
  BY DEF Asks, Idle
<1>2. ASSUME NEW t \in Text, CreateKnown(i, t)
      PROVE  StoredInv'
  <2> DEFINE h == ChainHash(t, << >>)
  <2>1. Asked(Asks(h, h, h, << >>))
    BY CreateTarget, DeltaSequences, AskedTypes
  <2> QED BY <1>1, <1>2, <2>1, GetKvStored DEF CreateKnown
<1>3. ASSUME NEW h \in acked, NEW d \in DeltaText, Advance(i, h, d)
      PROVE  StoredInv'
  <2> DEFINE new == ChainHash(h.base, Append(h.deltas, d))
  <2>1. h \in Hash /\ <<d>> # << >>
    BY DEF TypeOK
  <2>2. Asked(Asks(h, new, new, <<d>>))
    BY <1>3, <2>1, AdvanceTarget, AskedTypes DEF Advance
  <2> QED BY <1>1, <1>3, <2>1, <2>2, GetKvStored DEF Advance
<1>4. ASSUME NEW h \in acked, NEW ds \in Deltas, Len(ds) \in 1..MaxFold,
             Compact(i, h, ds)
      PROVE  StoredInv'
  <2>1. h \in Hash /\ ds # << >> /\ FoldHash(h, ds).kind # "chain"
    BY <1>4, EmptySeq DEF TypeOK, FoldHash
  <2>2. Asked(Asks(h, FoldHash(h, ds), CountHash(h, ds), ds))
    BY <1>4, <2>1, CompactTarget, AskedTypes DEF Compact
  <2> QED BY <1>1, <1>4, <2>1, <2>2, GetKvStored DEF Compact
<1> QED BY <1>2, <1>3, <1>4

\* The store is not touched while the model runs and _hot is trimmed.
LEMMA RunStored ==
    ASSUME TypeOK, StoredInv, NEW i \in Thread,
           (\E t \in Text : CreateNew(i, t)) \/ Forward(i) \/ Evict(i)
    PROVE  StoredInv'
<1>1. /\ UNCHANGED <<blob, man, acked>>
      /\ \A j \in Thread \ {i} : req'[j] = req[j]
      /\ req[i].pc # "save"
  <2>1. ASSUME NEW t \in Text, CreateNew(i, t)
        PROVE  /\ UNCHANGED <<blob, man, acked>>
               /\ \A j \in Thread \ {i} : req'[j] = req[j]
               /\ req[i].pc # "save"
    <3>1. UNCHANGED <<blob, man, acked>> /\ req[i].pc = "idle"
      <4>1. req[i] = Idle /\ UNCHANGED <<blob, man, acked>>
        BY <2>1 DEF CreateNew
      <4>2. Idle.pc = "idle"
        BY DEF Idle
      <4> QED BY <4>1, <4>2
    <3>2. PICK r : req' = [req EXCEPT ![i] = r]
      BY <2>1 DEF CreateNew
    <3> QED BY <3>1, <3>2 DEF TypeOK
  <2>2. CASE Forward(i)
    <3>1. UNCHANGED <<blob, man, acked>> /\ req[i].pc = "run"
      BY <2>2 DEF Forward
    <3>2. PICK o : req' = [req EXCEPT ![i].obj = o, ![i].todo = Tail(@)]
      BY <2>2 DEF Forward
    <3> QED BY <3>1, <3>2 DEF TypeOK
  <2>3. CASE Evict(i)
    BY <2>3 DEF Evict, TypeOK
  <2> QED BY <2>1, <2>2, <2>3
<1>2. StoredReq(req[i])'
  <2>1. ASSUME NEW t \in Text, CreateNew(i, t)
        PROVE  StoredReq(req[i])'
    <3>1. /\ req'[i].pc = "run" /\ req'[i].addr = ChainHash(t, << >>)
          /\ req'[i].file = ChainHash(t, << >>)
      BY <2>1 DEF CreateNew, TypeOK, Asks, Idle
    <3> QED BY <3>1 DEF StoredReq
  <2>2. CASE Forward(i) \/ Evict(i)
    <3>1. /\ req[i].pc = "run" /\ req'[i].pc \in {"run", "put"}
          /\ req'[i].addr = req[i].addr /\ req'[i].file = req[i].file
      <4>1. req[i] \in Req
        BY DEF TypeOK
      <4>2. CASE Forward(i)
        <5>1. req[i].pc = "run"
          BY <4>2 DEF Forward
        <5>2. PICK o : req' = [req EXCEPT ![i].obj = o, ![i].todo = Tail(@)]
          BY <4>2 DEF Forward
        <5> QED BY <4>1, <5>1, <5>2 DEF TypeOK, Req
      <4>3. CASE Evict(i)
        BY <4>1, <4>3 DEF Evict, TypeOK, Req
      <4> QED BY <2>2, <4>2, <4>3
    <3> QED BY <3>1 DEF StoredInv, StoredReq
  <2> QED BY <2>1, <2>2
<1>3. \A h \in acked' : h.kind = "chain" => h \in man
  BY <1>1 DEF StoredInv
<1> QED BY <1>1, <1>2, <1>3, QuietStored

\* A hash is answered after its manifest has been written.
LEMMA AnswerStored ==
    ASSUME TypeOK, StoredInv, NEW i \in Thread, Answer(i)
    PROVE  StoredInv'
<1>1. /\ UNCHANGED <<blob, man>> /\ req[i].pc = "warm"
      /\ req' = [req EXCEPT ![i] = Idle] /\ acked' = acked \cup {req[i].addr}
  BY DEF Answer
<1>2. req[i].addr.kind = "chain" => req[i].addr \in man
  BY <1>1 DEF StoredInv, StoredReq
<1>3. StoredReq(req[i])'
  BY <1>1 DEF TypeOK, StoredReq, Idle
<1>4. /\ \A j \in Thread \ {i} : req'[j] = req[j]
      /\ \A h \in acked' : h.kind = "chain" => h \in man
  BY <1>1, <1>2 DEF TypeOK, StoredInv
<1> QED BY <1>1, <1>3, <1>4, QuietStored

\* Opening a blob again makes its other writers depend on this one.
LEMMA OpenBlobStored ==
    ASSUME TypeOK, NamedInv, StoredInv, NEW i \in Thread, OpenBlob(i)
    PROVE  StoredInv'
<1> DEFINE f == req[i].file
           clash == \E j \in Savers(i, f) : req[j].snap # req[i].snap
<1>1. /\ req[i].pc = "put" /\ f \in Hash /\ UNCHANGED <<man, acked>>
      /\ blob' = [blob EXCEPT ![f] = Torn]
  BY DEF OpenBlob, TypeOK, Req
<1>2. f.kind # "count" => ~clash
  <2>1. ASSUME f.kind # "count", NEW j \in Savers(i, f)
        PROVE  req[j].snap = req[i].snap
    <3>1. j \in Thread /\ req[j].pc = "save" /\ req[j].file = f
      BY DEF Savers
    <3>2. \A k \in {i, j} : req[k].snap = Content(f)
      BY <1>1, <2>1, <3>1 DEF NamedInv, ReqNamed, Targets
    <3> QED BY <3>2
  <2> QED BY <2>1
<1>3. /\ req'[i].pc = "save" /\ req'[i].file = f /\ req'[i].addr = req[i].addr
      /\ req'[i].fd = IF clash THEN "mixed" ELSE "sole"
  BY DEF OpenBlob, TypeOK, Req
<1>4. ASSUME NEW j \in Thread \ {i}
      PROVE  /\ req'[j].pc = req[j].pc /\ req'[j].file = req[j].file
             /\ req'[j].addr = req[j].addr /\ req'[j].from = req[j].from
             /\ req'[j].todo = req[j].todo
             /\ j \notin Savers(i, f) => req'[j] = req[j]
             /\ j \in Savers(i, f) =>
                   req'[j].fd = IF clash THEN "mixed" ELSE "clobbered"
  <2>1. req[j] \in Req
    BY DEF TypeOK
  <2> QED BY <2>1 DEF OpenBlob, Req
<1>5. Torn # Absent /\ \A h \in Hash : blob[h] # Absent => blob'[h] # Absent
  BY <1>1, ValueAssumption DEF TypeOK
<1>6. blob'[f] = Torn
  BY <1>1 DEF TypeOK
<1>7. ASSUME NEW j \in Thread
      PROVE  StoredReq(req[j])'
  <2>1. CASE j = i
    BY <1>1, <1>2, <1>3, <1>5, <1>6, <2>1 DEF StoredInv, StoredReq
  <2>2. CASE j # i
    <3>1. req[j].pc # "idle" => req[j].file \in Hash
      BY DEF TypeOK, Req
    <3>2. j \in Savers(i, f) => req[j].file = f
      BY DEF Savers
    <3> QED BY <1>1, <1>2, <1>4, <1>5, <2>2, <3>1, <3>2 DEF StoredInv, StoredReq
  <2> QED BY <2>1, <2>2
<1>8. ASSUME NEW h \in Hash, h.kind # "count", blob'[h] = Torn
      PROVE  \E j \in Thread : Mending(j, h)'
  <2>1. CASE h = f
    BY <1>2, <1>3, <1>8, <2>1 DEF Mending
  <2>2. CASE h # f
    <3>1. blob[h] = Torn
      BY <1>1, <1>8, <2>2 DEF TypeOK
    <3>2. PICK j \in Thread : Mending(j, h)
      BY <1>8, <3>1 DEF StoredInv
    <3>3. j # i /\ j \notin Savers(i, f)
      BY <1>1, <2>2, <3>2 DEF Mending, Savers
    <3>4. Mending(j, h)'
      BY <1>4, <3>2, <3>3 DEF Mending
    <3> QED BY <3>4
  <2> QED BY <2>1, <2>2
<1>9. \A h \in man' : blob'[h] # Absent
  BY <1>1, <1>5 DEF StoredInv, TypeOK
<1> QED BY <1>1, <1>7, <1>8, <1>9 DEF StoredInv

\* The one they depend on leaves it whole.
LEMMA SaveBlobStored ==
    ASSUME TypeOK, NamedInv, StoredInv, NEW i \in Thread, SaveBlob(i)
    PROVE  StoredInv'
<1> DEFINE f == req[i].file
<1>1. PICK b \in Saved(i) : blob' = [blob EXCEPT ![f] = b]
  BY DEF SaveBlob
<1>2. /\ req[i].pc = "save" /\ f \in Hash /\ UNCHANGED <<man, acked>>
      /\ req[i].snap \in Kv
  BY DEF SaveBlob, TypeOK, Req
<1>3. /\ req'[i].pc = "manifest" /\ req'[i].file = f
      /\ req'[i].addr = req[i].addr
      /\ \A j \in Thread \ {i} : req'[j] = req[j]
  BY DEF SaveBlob, TypeOK, Req
<1>4. b # Absent
  BY <1>2, ValueAssumption DEF Saved, StoredInv, StoredReq
<1>5. \A h \in Hash : blob[h] # Absent => blob'[h] # Absent
  BY <1>1, <1>4 DEF TypeOK
<1>6. blob'[f] # Absent
  BY <1>1, <1>2, <1>4 DEF TypeOK
<1>7. ASSUME NEW j \in Thread
      PROVE  StoredReq(req[j])'
  <2>1. CASE j = i
    BY <1>2, <1>3, <1>6, <2>1 DEF StoredInv, StoredReq
  <2>2. CASE j # i
    <3>1. req[j].pc # "idle" => req[j].file \in Hash
      BY DEF TypeOK, Req
    <3> QED BY <1>2, <1>3, <1>5, <2>2, <3>1 DEF StoredInv, StoredReq
  <2> QED BY <2>1, <2>2
<1>8. ASSUME NEW h \in Hash, h.kind # "count", blob'[h] = Torn
      PROVE  \E j \in Thread : Mending(j, h)'
  <2>1. blob[h] = Torn /\ (h = f => req[i].fd # "sole")
    <3>1. CASE h # f
      BY <1>1, <1>8, <3>1 DEF TypeOK
    <3>2. CASE h = f
      <4>1. b = Torn
        BY <1>1, <1>8, <3>2 DEF TypeOK
      <4>2. req[i].fd \in {"sole", "clobbered"}
        BY <1>2, <1>8, <3>2 DEF StoredInv, StoredReq
      <4>3. req[i].fd # "sole"
        BY <1>2, <4>1, ValueAssumption DEF Saved
      <4>4. blob[f] = Torn
        BY <4>1, <4>2, <4>3 DEF Saved
      <4> QED BY <3>2, <4>3, <4>4
    <3> QED BY <3>1, <3>2
  <2>2. PICK j \in Thread : Mending(j, h)
    BY <1>8, <2>1 DEF StoredInv
  <2>3. j # i
    BY <2>1, <2>2 DEF Mending
  <2>4. Mending(j, h)'
    BY <1>3, <2>2, <2>3 DEF Mending
  <2> QED BY <2>4
<1>9. \A h \in man' : blob'[h] # Absent
  BY <1>2, <1>5 DEF StoredInv, TypeOK
<1> QED BY <1>2, <1>7, <1>8, <1>9 DEF StoredInv

\* The manifest is written after the blob.
LEMMA SaveManifestStored ==
    ASSUME TypeOK, StoredInv, NEW i \in Thread, SaveManifest(i)
    PROVE  StoredInv'
<1> DEFINE f == req[i].file
<1>1. /\ req[i].pc = "manifest" /\ blob' = blob /\ acked' = acked
      /\ man' = man \cup {f} /\ blob[f] # Absent
  BY DEF SaveManifest, StoredInv, StoredReq
<1>2. /\ req'[i].pc = "warm" /\ req'[i].file = f /\ req'[i].addr = req[i].addr
      /\ \A j \in Thread \ {i} : req'[j] = req[j]
  BY DEF SaveManifest, TypeOK, Req
<1>3. \A j \in Thread : StoredReq(req[j])'
  BY <1>1, <1>2 DEF StoredInv, StoredReq
<1>4. ASSUME NEW h \in Hash, h.kind # "count", blob'[h] = Torn
      PROVE  \E j \in Thread : Mending(j, h)'
  <2>1. PICK j \in Thread : Mending(j, h)
    BY <1>1, <1>4 DEF StoredInv
  <2>2. Mending(j, h)'
    BY <1>1, <1>2, <2>1 DEF Mending
  <2> QED BY <2>2
<1> QED BY <1>1, <1>3, <1>4 DEF StoredInv

\* Nothing is named or stored to begin with.
LEMMA InitStored == Init => NamedInv /\ StoredInv
<1>1. Init => NamedInv
  BY DEF Init, NamedInv, HotNamed, BlobNamed, ReqNamed, Idle, IsHot
<1>2. Init => StoredInv
  BY ValueAssumption DEF Init, StoredInv, StoredReq, Idle
<1> QED BY <1>1, <1>2

\* Every step of a server that stays up.
LEMMA StepStored ==
    TypeOK /\ NamedInv /\ StoredInv /\ [Serve]_vars => StoredInv'
<1> SUFFICES ASSUME TypeOK, NamedInv, StoredInv, [Serve]_vars
             PROVE  StoredInv'
  OBVIOUS
<1>1. CASE Serve
  BY <1>1, RequestStored, RunStored, WarmStored, OpenBlobStored,
     SaveBlobStored, SaveManifestStored, AnswerStored DEF Serve
<1>2. CASE UNCHANGED vars
  BY <1>2 DEF vars, StoredInv, StoredReq, Mending
<1> QED BY <1>1, <1>2

\* While the server stays up, with a model that returns a new cache, a state
\* hash that a client was given for a chain of deltas has its manifest and
\* its blob on disk, torn only while a thread is writing it again, however
\* many threads compute and store the same states at the same time
\* (_put_kv, PacketStore.create).
THEOREM StatesStayStored ==
    ASSUME InPlace = FALSE
    PROVE  ServeSpec => []StoredStates
<1> DEFINE IInv == TypeOK /\ NamedInv /\ StoredInv
<1>1. Init => IInv
  BY InitType, InitStored
<1>2. IInv /\ [Serve]_vars => IInv'
  <2> SUFFICES ASSUME IInv, [Serve]_vars PROVE IInv'
    OBVIOUS
  <2>1. [Serve \/ Restart]_vars
    OBVIOUS
  <2>2. TypeOK' /\ NamedInv'
    BY <2>1, StepType, StepNamed
  <2>3. StoredInv'
    BY StepStored
  <2> QED BY <2>2, <2>3
<1>3. IInv => StoredStates
  <2> SUFFICES ASSUME IInv, NEW h \in acked, h.kind = "chain"
               PROVE  /\ h \in man
                      /\ \/ blob[h] = Content(h)
                         \/ blob[h] = Torn /\ \E i \in Thread :
                               req[i].pc = "save" /\ req[i].file = h
    BY DEF StoredStates
  <2>1. h \in Hash /\ h \in man /\ blob[h] # Absent
    BY DEF TypeOK, StoredInv
  <2>2. blob[h] \in {Torn, Content(h)}
    BY <2>1 DEF NamedInv, BlobNamed
  <2>3. blob[h] = Torn => \E i \in Thread : Mending(i, h)
    BY <2>1 DEF StoredInv
  <2> QED BY <2>1, <2>2, <2>3 DEF Mending
<1> QED BY <1>1, <1>2, <1>3, PTL DEF ServeSpec

-----------------------------------------------------------------------------
(* Texts that look cached can be served *)

\* The inductive invariant behind CreateReady, for a server that stays up:
\* what is hot or on its way to be was on disk before, and a blob without a
\* manifest belongs to a request that is about to write it.
OnDisk(h) == blob[h] # Absent
ReadyInv ==
    /\ \A h \in Hash : h.kind = "chain" /\ IsHot(h) => OnDisk(h)
    /\ \A i \in Thread : req[i].pc = "load" => OnDisk(req[i].from)
    /\ \A h \in Hash : OnDisk(h) /\ h \notin man =>
          \E i \in Thread :
              req[i].pc \in {"save", "manifest"} /\ req[i].file = h

\* A step of a thread that does not touch the store.
LEMMA QuietReady ==
    ASSUME TypeOK, ReadyInv, NEW i \in Thread, UNCHANGED <<blob, man>>,
           \A j \in Thread \ {i} : req'[j] = req[j],
           req[i].pc \notin {"save", "manifest"},
           req'[i].pc = "load" => OnDisk(req'[i].from),
           \A h \in Hash : h.kind = "chain" /\ hot'[h] # None =>
               IsHot(h) \/ OnDisk(h)
    PROVE  ReadyInv'
<1>1. \A h \in Hash : h.kind = "chain" /\ IsHot(h)' => OnDisk(h)'
  BY DEF ReadyInv, IsHot, OnDisk
<1>2. \A j \in Thread : (req[j].pc = "load" => OnDisk(req[j].from))'
  BY DEF ReadyInv, OnDisk
<1>3. ASSUME NEW h \in Hash, OnDisk(h)', h \notin man'
      PROVE  \E j \in Thread :
                 req'[j].pc \in {"save", "manifest"} /\ req'[j].file = h
  <2>1. PICK j \in Thread :
               req[j].pc \in {"save", "manifest"} /\ req[j].file = h
    BY <1>3 DEF ReadyInv, OnDisk
  <2> QED BY <2>1
<1> QED BY <1>1, <1>2, <1>3 DEF ReadyInv

\* _get_kv finds the state in memory or on disk, and goes on.
LEMMA GetKvReady ==
    ASSUME TypeOK, ReadyInv, NEW i \in Thread, req[i] = Idle,
           NEW r, Asked(r), GetKv(i, r)
    PROVE  ReadyInv'
<1>1. req[i].pc = "idle" /\ UNCHANGED <<hot, blob, man>>
  BY DEF Idle, GetKv
<1>2. CASE IsHot(r.from)
  <2>1. PICK q : req' = [req EXCEPT ![i] = q] /\ q.pc # "load"
    <3>1. Idle.pc # "load" /\ [r EXCEPT !.pc = "run", !.obj = hot[r.from],
                                        !.snap = None].pc # "load"
      BY DEF Idle, Asked, Req
    <3> QED BY <1>2, <3>1 DEF GetKv, Proceed
  <2> QED BY <1>1, <2>1, QuietReady DEF TypeOK, IsHot
<1>3. CASE ~IsHot(r.from)
  <2> DEFINE ld == [r EXCEPT !.pc = "load", !.snap = blob[r.from]]
  <2>1. req' = [req EXCEPT ![i] = ld] /\ OnDisk(r.from)
    BY <1>3 DEF GetKv, OnDisk
  <2>2. ld.from = r.from
    BY DEF Asked, Req
  <2> QED BY <1>1, <2>1, <2>2, QuietReady DEF TypeOK, IsHot
<1> QED BY <1>2, <1>3

\* Looking up, loading, running and evicting leave the store alone, and only
\* what was loaded becomes hot.
LEMMA ReadReady ==
    ASSUME TypeOK, StoredInv, ReadyInv, NEW i \in Thread,
           \/ \E t \in Text : CreateKnown(i, t) \/ CreateNew(i, t)
           \/ \E h \in acked, d \in DeltaText : Advance(i, h, d)
           \/ \E h \in acked : \E ds \in Deltas :
                 Len(ds) \in 1..MaxFold /\ Compact(i, h, ds)
           \/ Warm(i) \/ Forward(i) \/ Evict(i) \/ Answer(i)
    PROVE  ReadyInv'
<1>1. ASSUME NEW t \in Text, CreateKnown(i, t) PROVE ReadyInv'
  <2>1. Asked(Asks(ChainHash(t, << >>), ChainHash(t, << >>),
                   ChainHash(t, << >>), << >>))
    BY CreateTarget, DeltaSequences, AskedTypes
  <2> QED BY <1>1, <2>1, GetKvReady DEF CreateKnown
<1>2. ASSUME NEW h \in acked, NEW d \in DeltaText, Advance(i, h, d)
      PROVE  ReadyInv'
  <2> DEFINE new == ChainHash(h.base, Append(h.deltas, d))
  <2>1. h \in Hash
    BY DEF TypeOK
  <2>2. Asked(Asks(h, new, new, <<d>>))
    BY <1>2, <2>1, AdvanceTarget, AskedTypes DEF Advance
  <2> QED BY <1>2, <2>2, GetKvReady DEF Advance
<1>3. ASSUME NEW h \in acked, NEW ds \in Deltas, Len(ds) \in 1..MaxFold,
             Compact(i, h, ds)
      PROVE  ReadyInv'
  <2>1. h \in Hash /\ ds # << >>
    BY <1>3, EmptySeq DEF TypeOK
  <2>2. Asked(Asks(h, FoldHash(h, ds), CountHash(h, ds), ds))
    BY <1>3, <2>1, CompactTarget, AskedTypes DEF Compact
  <2> QED BY <1>3, <2>2, GetKvReady DEF Compact
<1>4. ASSUME NEW t \in Text, CreateNew(i, t) PROVE ReadyInv'
  <2>1. req[i] = Idle /\ UNCHANGED <<hot, blob, man>>
    BY <1>4 DEF CreateNew
  <2>2. PICK q : req' = [req EXCEPT ![i] = q] /\ q.pc = "run"
    <3> DEFINE h == ChainHash(t, << >>)
    <3>1. PICK o \in Fresh(i) :
             req' = [req EXCEPT ![i] = [Asks(h, h, h, << >>) EXCEPT
                                          !.pc = "run", !.obj = o]]
      BY <1>4 DEF CreateNew
    <3>2. [Asks(h, h, h, << >>) EXCEPT !.pc = "run", !.obj = o].pc = "run"
      BY DEF Asks, Idle
    <3> QED BY <3>1, <3>2
  <2>3. req[i].pc = "idle"
    BY <2>1 DEF Idle
  <2> QED BY <2>1, <2>2, <2>3, QuietReady DEF TypeOK, IsHot
<1>5. CASE Warm(i)
  <2> DEFINE r == req[i]
  <2>1. PICK o \in Fresh(r.from) : SetHot(r.from, o) /\ Proceed(i, r, o)
    BY <1>5 DEF Warm
  <2>2. r.pc = "load" /\ r \in Req /\ UNCHANGED <<blob, man>>
    BY <1>5 DEF Warm, TypeOK
  <2>3. PICK q : req' = [req EXCEPT ![i] = q] /\ q.pc # "load"
    <3>1. Idle.pc # "load" /\ [r EXCEPT !.pc = "run", !.obj = o,
                                        !.snap = None].pc # "load"
      BY <2>2 DEF Idle, Req
    <3> QED BY <2>1, <3>1 DEF Proceed
  <2>4. OnDisk(r.from)
    BY <2>2 DEF ReadyInv
  <2>5. \A h \in Hash : hot'[h] # None => IsHot(h) \/ h = r.from
    BY <2>1 DEF SetHot, IsHot, TypeOK
  <2> QED BY <2>2, <2>3, <2>4, <2>5, QuietReady DEF TypeOK
<1>6. CASE Forward(i)
  <2>1. req[i].pc = "run" /\ UNCHANGED <<hot, blob, man>>
    BY <1>6 DEF Forward
  <2>2. PICK o : req' = [req EXCEPT ![i].obj = o, ![i].todo = Tail(@)]
    BY <1>6 DEF Forward
  <2>3. /\ \A j \in Thread \ {i} : req'[j] = req[j]
        /\ req'[i].pc # "load"
    BY <2>1, <2>2 DEF TypeOK, Req
  <2> QED BY <2>1, <2>3, QuietReady DEF IsHot
<1>7. CASE Evict(i)
  <2>1. /\ req[i].pc = "run" /\ UNCHANGED <<blob, man>>
        /\ \A j \in Thread \ {i} : req'[j] = req[j]
        /\ req'[i].pc # "load"
    BY <1>7 DEF Evict, TypeOK, Req
  <2>2. \A h \in Hash : hot'[h] # None => IsHot(h)
    BY <1>7 DEF Evict, TypeOK, IsHot
  <2> QED BY <2>1, <2>2, QuietReady
<1>8. CASE Answer(i)
  <2> DEFINE r == req[i]
  <2>1. PICK o \in Fresh(r.addr) : SetHot(r.addr, o)
    BY <1>8 DEF Answer
  <2>2. /\ r.pc = "warm" /\ req' = [req EXCEPT ![i] = Idle]
        /\ UNCHANGED <<blob, man>>
    BY <1>8 DEF Answer
  <2>3. /\ \A j \in Thread \ {i} : req'[j] = req[j]
        /\ req'[i].pc # "load"
    BY <2>2 DEF TypeOK, Idle
  <2>4. r.addr.kind = "chain" => OnDisk(r.addr)
    BY <2>2 DEF StoredInv, StoredReq, OnDisk
  <2>5. \A h \in Hash : hot'[h] # None => IsHot(h) \/ h = r.addr
    BY <2>1 DEF SetHot, IsHot, TypeOK
  <2> QED BY <2>2, <2>3, <2>4, <2>5, QuietReady
<1> QED BY <1>1, <1>2, <1>3, <1>4, <1>5, <1>6, <1>7, <1>8

\* A blob is written by who writes its manifest next, and none goes away.
LEMMA StoreReady ==
    ASSUME TypeOK, StoredInv, ReadyInv, NEW i \in Thread,
           OpenBlob(i) \/ SaveBlob(i) \/ SaveManifest(i)
    PROVE  ReadyInv'
<1> DEFINE f == req[i].file
<1>1. /\ f \in Hash /\ hot' = hot /\ \A h \in Hash \ {f} : blob'[h] = blob[h]
      /\ man' \in {man, man \cup {f}}
  BY DEF OpenBlob, SaveBlob, SaveManifest, TypeOK, Req
<1>2. blob'[f] # Absent
  <2>1. CASE OpenBlob(i)
    BY <1>1, <2>1, ValueAssumption DEF OpenBlob, TypeOK, OnDisk
  <2>2. CASE SaveBlob(i)
    <3>1. PICK b \in Saved(i) : blob' = [blob EXCEPT ![f] = b]
      BY <2>2 DEF SaveBlob
    <3>2. req[i].pc = "save" /\ blob[f] # Absent /\ req[i].snap \in Kv
      BY <2>2 DEF SaveBlob, StoredInv, StoredReq, TypeOK, Req
    <3>3. b # Absent
      BY <3>2, ValueAssumption DEF Saved
    <3> QED BY <1>1, <3>1, <3>3 DEF TypeOK, OnDisk
  <2>3. CASE SaveManifest(i)
    BY <2>3 DEF SaveManifest, StoredInv, StoredReq, OnDisk
  <2> QED BY <2>1, <2>2, <2>3
<1>3. \A j \in Thread : /\ req'[j].file = req[j].file
                        /\ req'[j].from = req[j].from
                        /\ req'[j].pc = "load" => req[j].pc = "load"
                        /\ j # i => req'[j].pc = req[j].pc
  <2>1. \A j \in Thread : req[j] \in Req
    BY DEF TypeOK
  <2>2. CASE OpenBlob(i)
    BY <2>1, <2>2 DEF OpenBlob, Req
  <2>3. CASE SaveBlob(i) \/ SaveManifest(i)
    BY <2>1, <2>3 DEF SaveBlob, SaveManifest, TypeOK, Req
  <2> QED BY <2>2, <2>3
<1>4. f \in man' \/ req'[i].pc \in {"save", "manifest"}
  <2>1. req[i] \in Req
    BY DEF TypeOK
  <2>2. CASE OpenBlob(i)
    <3>1. req'[i].pc = "save"
      BY <2>1, <2>2 DEF OpenBlob, Req
    <3> QED BY <3>1
  <2>3. CASE SaveBlob(i)
    BY <2>1, <2>3 DEF SaveBlob, TypeOK, Req
  <2>4. CASE SaveManifest(i)
    BY <2>4 DEF SaveManifest
  <2> QED BY <2>2, <2>3, <2>4
<1>5. \A h \in Hash : h.kind = "chain" /\ IsHot(h)' => OnDisk(h)'
  BY <1>1, <1>2 DEF ReadyInv, IsHot, OnDisk
<1>6. \A j \in Thread : (req[j].pc = "load" => OnDisk(req[j].from))'
  <2>1. \A j \in Thread : req[j].pc = "load" => req[j].from \in Hash
    BY DEF TypeOK, Req
  <2> QED BY <1>1, <1>2, <1>3, <2>1 DEF ReadyInv, OnDisk
<1>7. ASSUME NEW h \in Hash, OnDisk(h)', h \notin man'
      PROVE  \E j \in Thread :
                 req'[j].pc \in {"save", "manifest"} /\ req'[j].file = h
  <2>1. CASE h = f
    BY <1>3, <1>4, <1>7, <2>1
  <2>2. CASE h # f
    <3>1. PICK j \in Thread :
                 req[j].pc \in {"save", "manifest"} /\ req[j].file = h
      BY <1>1, <1>7, <2>2 DEF ReadyInv, OnDisk
    <3> QED BY <1>3, <2>2, <3>1
  <2> QED BY <2>1, <2>2
<1> QED BY <1>5, <1>6, <1>7 DEF ReadyInv

\* While the server stays up, with a model that returns a new cache, a text
\* that looks cached when no request is under way has its blob and its
\* manifest (create_state, _put_kv, PacketStore.create).
THEOREM CreatesAreReady ==
    ASSUME InPlace = FALSE
    PROVE  ServeSpec => []CreateReady
<1> DEFINE IInv == TypeOK /\ NamedInv /\ StoredInv /\ ReadyInv
<1>1. Init => IInv
  <2>1. Init => ReadyInv
    BY DEF Init, ReadyInv, OnDisk, IsHot, Idle
  <2> QED BY <2>1, InitType, InitStored
<1>2. IInv /\ [Serve]_vars => IInv'
  <2> SUFFICES ASSUME IInv, [Serve]_vars PROVE IInv'
    OBVIOUS
  <2>1. [Serve \/ Restart]_vars
    OBVIOUS
  <2>2. TypeOK' /\ NamedInv' /\ StoredInv'
    BY <2>1, StepType, StepNamed, StepStored
  <2>3. ReadyInv'
    <3>1. CASE Serve
      BY <3>1, ReadReady, StoreReady DEF Serve
    <3>2. CASE UNCHANGED vars
      BY <3>2 DEF vars, ReadyInv, OnDisk, IsHot
    <3> QED BY <3>1, <3>2
  <2> QED BY <2>2, <2>3
<1>3. IInv => CreateReady
  <2> SUFFICES ASSUME IInv, \A i \in Thread : req[i] = Idle, NEW t \in Text,
                      LET h == ChainHash(t, << >>)
                      IN  IsHot(h) \/ blob[h] # Absent
               PROVE  LET h == ChainHash(t, << >>)
                      IN  h \in man /\ blob[h] = Content(h)
    BY DEF CreateReady
  <2> DEFINE h == ChainHash(t, << >>)
  <2>1. h \in Hash /\ h.kind = "chain"
    BY CreateTarget DEF ChainHash
  <2>2. \A i \in Thread : req[i].pc = "idle"
    BY DEF Idle
  <2>3. OnDisk(h)
    BY <2>1 DEF ReadyInv, OnDisk
  <2>4. h \in man
    BY <2>1, <2>2, <2>3 DEF ReadyInv
  <2>5. blob[h] # Torn
    BY <2>1, <2>2 DEF StoredInv, Mending
  <2>6. blob[h] \in {Absent, Torn, Content(h)}
    BY <2>1 DEF NamedInv, BlobNamed
  <2> QED BY <2>3, <2>4, <2>5, <2>6 DEF OnDisk
<1> QED BY <1>1, <1>2, <1>3, PTL DEF ServeSpec

-----------------------------------------------------------------------------
(* Compacted states are lost *)

\* No file is named by the hash that POST /compact returns.
FileReq(r) == r.pc # "idle" => r.file.kind # "fold"
FilesInv   ==
    /\ \A h \in man : h.kind # "fold"
    /\ \A i \in Thread : FileReq(req[i])

\* One request moves and keeps its file, and no manifest appears.
LEMMA FilesFrame ==
    ASSUME TypeOK, FilesInv, NEW i \in Thread, man' = man,
           \A j \in Thread \ {i} : req'[j] = req[j], FileReq(req[i])'
    PROVE  FilesInv'
BY DEF FilesInv, FileReq

\* Nor does reading a state to go on from it choose another one.
LEMMA ProceedFiles ==
    ASSUME TypeOK, FilesInv, NEW i \in Thread, NEW r, Asked(r),
           r.file.kind # "fold", NEW o, Proceed(i, r, o), man' = man
    PROVE  FilesInv'
<1> DEFINE run == [r EXCEPT !.pc = "run", !.obj = o, !.snap = None]
<1>1. req' = [req EXCEPT ![i] = run] \/ req' = [req EXCEPT ![i] = Idle]
  BY DEF Proceed
<1>2. FileReq(run) /\ FileReq(Idle)
  BY DEF FileReq, Asked, Req, Idle
<1>3. FileReq(req[i])' /\ \A j \in Thread \ {i} : req'[j] = req[j]
  <2> HIDE DEF run
  <2> QED BY <1>1, <1>2 DEF TypeOK, FileReq
<1> QED BY <1>3, FilesFrame

LEMMA GetKvFiles ==
    ASSUME TypeOK, FilesInv, NEW i \in Thread, NEW r, Asked(r),
           r.file.kind # "fold", GetKv(i, r)
    PROVE  FilesInv'
<1> DEFINE ld == [r EXCEPT !.pc = "load", !.snap = blob[r.from]]
<1>1. CASE IsHot(r.from)
  BY <1>1, ProceedFiles DEF GetKv
<1>2. CASE ~IsHot(r.from)
  <2>1. man' = man /\ req' = [req EXCEPT ![i] = ld]
    BY <1>2 DEF GetKv
  <2>2. FileReq(ld)
    BY DEF FileReq, Asked, Req
  <2>3. FileReq(req[i])' /\ \A j \in Thread \ {i} : req'[j] = req[j]
    <3> HIDE DEF ld
    <3> QED BY <2>1, <2>2 DEF TypeOK, FileReq
  <2> QED BY <2>1, <2>3, FilesFrame
<1> QED BY <1>1, <1>2

\* A new request names its file by the chain, or by the count of its deltas.
LEMMA RequestFiles ==
    ASSUME TypeOK, FilesInv, NEW i \in Thread,
           \/ \E t \in Text : CreateKnown(i, t) \/ CreateNew(i, t)
           \/ \E h \in acked, d \in DeltaText : Advance(i, h, d)
           \/ \E h \in acked : \E ds \in Deltas :
                 Len(ds) \in 1..MaxFold /\ Compact(i, h, ds)
    PROVE  FilesInv'
<1>1. ASSUME NEW t \in Text, CreateKnown(i, t)
      PROVE  FilesInv'
  <2> DEFINE h == ChainHash(t, << >>)
             r == Asks(h, h, h, << >>)
  <2>1. Asked(r)
    BY CreateTarget, DeltaSequences, AskedTypes
  <2>2. r.file.kind # "fold"
    BY DEF Asks, Idle, ChainHash
  <2> QED BY <1>1, <2>1, <2>2, GetKvFiles DEF CreateKnown
<1>2. ASSUME NEW t \in Text, CreateNew(i, t)
      PROVE  FilesInv'
  <2> DEFINE h == ChainHash(t, << >>)
  <2>1. PICK o : req' = [req EXCEPT ![i] = [Asks(h, h, h, << >>) EXCEPT
                                              !.pc = "run", !.obj = o]]
    BY <1>2 DEF CreateNew
  <2>2. req'[i].file = h /\ h.kind = "chain" /\ man' = man
    BY <1>2, <2>1 DEF CreateNew, TypeOK, Asks, Idle, ChainHash
  <2>3. FileReq(req[i])' /\ \A j \in Thread \ {i} : req'[j] = req[j]
    BY <2>1, <2>2 DEF TypeOK, FileReq
  <2> QED BY <2>2, <2>3, FilesFrame
<1>3. ASSUME NEW h \in acked, NEW d \in DeltaText, Advance(i, h, d)
      PROVE  FilesInv'
  <2> DEFINE new == ChainHash(h.base, Append(h.deltas, d))
             r   == Asks(h, new, new, <<d>>)
  <2>1. h \in Hash
    BY DEF TypeOK
  <2>2. Asked(r)
    BY <1>3, <2>1, AdvanceTarget, AskedTypes DEF Advance
  <2>3. r.file.kind # "fold"
    BY DEF Asks, Idle, ChainHash
  <2> QED BY <1>3, <2>2, <2>3, GetKvFiles DEF Advance
<1>4. ASSUME NEW h \in acked, NEW ds \in Deltas, Len(ds) \in 1..MaxFold,
             Compact(i, h, ds)
      PROVE  FilesInv'
  <2> DEFINE r == Asks(h, FoldHash(h, ds), CountHash(h, ds), ds)
  <2>1. h \in Hash /\ ds # << >>
    BY <1>4, EmptySeq DEF TypeOK
  <2>2. Asked(r)
    BY <1>4, <2>1, CompactTarget, AskedTypes DEF Compact
  <2>3. r.file.kind # "fold"
    BY DEF Asks, Idle, CountHash
  <2> QED BY <1>4, <2>2, <2>3, GetKvFiles DEF Compact
<1> QED BY <1>1, <1>2, <1>3, <1>4

\* A request under way keeps the name of its file.
LEMMA WorkFiles ==
    ASSUME TypeOK, FilesInv, NEW i \in Thread,
           \/ Warm(i) \/ Forward(i) \/ Evict(i) \/ OpenBlob(i)
           \/ SaveBlob(i) \/ SaveManifest(i) \/ Answer(i)
    PROVE  FilesInv'
<1>1. \A j \in Thread : req[j] \in Req /\ FileReq(req[j])
  BY DEF TypeOK, FilesInv
<1>2. CASE Warm(i)
  <2>1. PICK o \in Fresh(req[i].from) : Proceed(i, req[i], o) /\ man' = man
    BY <1>2 DEF Warm
  <2>2. Asked(req[i]) /\ req[i].file.kind # "fold"
    BY <1>1, <1>2 DEF Warm, Asked, Req, FileReq
  <2> QED BY <2>1, <2>2, ProceedFiles
<1>3. CASE Forward(i)
  <2>1. PICK o : req' = [req EXCEPT ![i].obj = o, ![i].todo = Tail(@)]
    BY <1>3 DEF Forward
  <2>2. man' = man /\ req[i].pc = "run"
    BY <1>3 DEF Forward
  <2>3. FileReq(req[i])' /\ \A j \in Thread \ {i} : req'[j] = req[j]
    BY <1>1, <2>1, <2>2 DEF TypeOK, FileReq, Req
  <2> QED BY <2>2, <2>3, FilesFrame
<1>4. CASE Evict(i) \/ SaveBlob(i) \/ Answer(i)
  <2>1. man' = man
    BY <1>4 DEF Evict, SaveBlob, Answer
  <2>2. FileReq(req[i])' /\ \A j \in Thread \ {i} : req'[j] = req[j]
    BY <1>1, <1>4 DEF Evict, SaveBlob, Answer, TypeOK, FileReq, Req, Idle
  <2> QED BY <2>1, <2>2, FilesFrame
<1>5. CASE OpenBlob(i)
  <2>1. man' = man /\ req[i].pc = "put"
    BY <1>5 DEF OpenBlob
  <2>2. \A j \in Thread : FileReq(req[j])'
    BY <1>1, <1>5, <2>1 DEF OpenBlob, Savers, FileReq, Req
  <2> QED BY <2>1, <2>2 DEF FilesInv
<1>6. CASE SaveManifest(i)
  <2>1. man' = man \cup {req[i].file} /\ req[i].file.kind # "fold"
    BY <1>1, <1>6 DEF SaveManifest, FileReq
  <2>2. \A j \in Thread : FileReq(req[j])'
    BY <1>1, <1>6 DEF SaveManifest, TypeOK, FileReq, Req
  <2> QED BY <2>1, <2>2 DEF FilesInv
<1> QED BY <1>2, <1>3, <1>4, <1>5, <1>6

\* Whatever the server goes through, the hashes that POST /compact returns
\* are exactly the ones it cannot go on from: CompactUsable holds until the
\* first of them is returned and never again, for no manifest file is ever
\* written under such a hash (compact, _put_kv).
THEOREM CompactsAreLost ==
    Spec => [](CompactUsable <=> \A h \in acked : h.kind # "fold")
<1>1. Init => TypeOK /\ FilesInv
  BY InitType DEF Init, FilesInv, FileReq, Idle
<1>2. TypeOK /\ FilesInv /\ [Serve \/ Restart]_vars => TypeOK' /\ FilesInv'
  <2> SUFFICES ASSUME TypeOK, FilesInv, [Serve \/ Restart]_vars
               PROVE  FilesInv'
    BY StepType
  <2>1. CASE Serve
    BY <2>1, RequestFiles, WorkFiles DEF Serve
  <2>2. CASE Restart
    BY <2>2 DEF Restart, FilesInv, FileReq, Idle
  <2>3. CASE UNCHANGED vars
    BY <2>3 DEF vars, FilesInv, FileReq
  <2> QED BY <2>1, <2>2, <2>3
<1>3. FilesInv => (CompactUsable <=> \A h \in acked : h.kind # "fold")
  BY DEF FilesInv, CompactUsable
<1> QED BY <1>1, <1>2, <1>3, PTL DEF Spec

-----------------------------------------------------------------------------
(* Requests go on *)

\* A request never waits for another one: the cache its next step makes has
\* a place, and each step takes it nearer to its end.

\* A hot cache was made for the hash it is kept under.
HotLabels ==
    \A h \in Hash : hot[h] = None \/ hot[h] \in {h} \X (1..MaxHeld)

\* The caches a request is going to make.
GoesOn ==
    \A i \in Thread :
        /\ req[i].pc \in {"idle", "run"} => Fresh(i) # {}
        /\ req[i].pc = "load" => Fresh(req[i].from) # {}
        /\ req[i].pc = "warm" => Fresh(req[i].addr) # {}

\* The steps a request has still to take, at the most.
Phase   == [idle |-> 0, warm |-> 1, manifest |-> 2, save |-> 3, put |-> 4,
            run |-> 5, load |-> 6]
Left(r) == Phase[r.pc] + Len(r.todo)

\* What happens to a request takes it nearer to its end, except that another
\* writer may open the file it writes.
Nearer ==
    [][\A i \in Thread :
          /\ req[i].pc # "idle"
          /\ req'[i] # [req[i] EXCEPT !.fd = req'[i].fd]
          => Left(req'[i]) < Left(req[i])]_vars

\* Of the objects made for w, one per thread is enough for the hot cache and
\* the requests of the threads that hold one.
LEMMA PlaceLeft ==
    ASSUME TypeOK, HotLabels, IsFiniteSet(Thread),
           MaxHeld > Cardinality(Thread), NEW i \in Thread,
           NEW w \in Hash \cup Thread, w \in Thread \/ req[i].obj = None
    PROVE  Fresh(w) # {}
<1> DEFINE H == {k \in 1..MaxHeld : <<w, k>> \in Held}
           f == [j \in Thread |-> IF w \in Hash /\ j = i THEN hot[w][2]
                                  ELSE req[j].obj[2]]
<1>1. H \subseteq {f[j] : j \in Thread}
  <2> SUFFICES ASSUME NEW k \in 1..MaxHeld, <<w, k>> \in Held
               PROVE  \E j \in Thread : f[j] = k
    OBVIOUS
  <2>1. CASE \E h \in Hash : <<w, k>> = hot[h]
    <3>1. PICK h \in Hash : <<w, k>> = hot[h] /\ hot[h] # None
      BY <2>1 DEF Held
    <3>2. hot[h] \in {h} \X (1..MaxHeld)
      BY <3>1 DEF HotLabels
    <3>3. w = h
      BY <3>1, <3>2
    <3>4. f[i] = k
      BY <3>1, <3>3
    <3> QED BY <3>4
  <2>2. CASE \E j \in Thread : <<w, k>> = req[j].obj
    <3>1. PICK j \in Thread : <<w, k>> = req[j].obj /\ req[j].obj # None
      BY <2>2 DEF Held
    <3>2. ~(w \in Hash /\ j = i)
      BY <3>1, ValueAssumption
    <3>3. f[j] = k
      BY <3>1, <3>2
    <3> QED BY <3>3
  <2> QED BY <2>1, <2>2 DEF Held
<1>2. IsFiniteSet(H) /\ Cardinality(H) < MaxHeld /\ MaxHeld \in Nat
  <2>1. DOMAIN f = Thread /\ f = [j \in Thread |-> f[j]]
    OBVIOUS
  <2> HIDE DEF f
  <2>2. /\ IsFiniteSet({f[j] : j \in Thread})
        /\ Cardinality({f[j] : j \in Thread}) \in Nat
        /\ Cardinality({f[j] : j \in Thread}) <= Cardinality(Thread)
    BY <2>1, FewValues
  <2>3. /\ IsFiniteSet(H) /\ Cardinality(H) \in Nat
        /\ Cardinality(H) <= Cardinality({f[j] : j \in Thread})
    BY <1>1, <2>2, FS_Subset, FS_CardinalityType
  <2>4. Cardinality(Thread) \in Nat /\ MaxHeld \in Nat
    BY FS_CardinalityType, BoundAssumption
  <2> QED BY <2>2, <2>3, <2>4
<1>3. PICK o \in 1..MaxHeld : o \notin H /\ \A p \in 1..(o - 1) : p \in H
  <2> HIDE DEF H
  <2> QED BY <1>2, FirstFree
<1>4. <<w, o>> \in Fresh(w)
  BY <1>3 DEF Fresh
<1> QED BY <1>4

\* _hot[h] = o, for a cache o made for h.
LEMMA StepLabels ==
    ASSUME TypeOK, HotLabels, [Serve \/ Restart]_vars
    PROVE  HotLabels'
<1>1. ASSUME NEW h \in Hash, NEW o \in Fresh(h), SetHot(h, o)
      PROVE  HotLabels'
  <2>1. o \in {h} \X (1..MaxHeld)
    BY DEF Fresh
  <2> QED BY <1>1, <2>1 DEF SetHot, HotLabels, TypeOK
<1>2. ASSUME NEW i \in Thread, Warm(i)
      PROVE  HotLabels'
  <2>1. req[i].from \in Hash
    BY <1>2 DEF Warm, TypeOK, Req
  <2> QED BY <1>1, <1>2, <2>1 DEF Warm
<1>3. ASSUME NEW i \in Thread, Answer(i)
      PROVE  HotLabels'
  <2>1. req[i].addr \in Hash
    BY <1>3 DEF Answer, TypeOK, Req
  <2> QED BY <1>1, <1>3, <2>1 DEF Answer
<1>4. ASSUME NEW i \in Thread, Evict(i)
      PROVE  HotLabels'
  BY <1>4 DEF Evict, HotLabels, TypeOK
<1>5. CASE Restart
  BY <1>5 DEF Restart, HotLabels
<1>6. ASSUME NEW i \in Thread,
             \/ \E t \in Text : CreateKnown(i, t) \/ CreateNew(i, t)
             \/ \E h \in acked, d \in DeltaText : Advance(i, h, d)
             \/ \E h \in acked, ds \in Deltas : Compact(i, h, ds)
             \/ Forward(i) \/ OpenBlob(i) \/ SaveBlob(i) \/ SaveManifest(i)
      PROVE  HotLabels'
  <2>1. hot' = hot
    BY <1>6 DEF CreateKnown, CreateNew, Advance, Compact, GetKv, Forward,
                OpenBlob, SaveBlob, SaveManifest
  <2> QED BY <2>1 DEF HotLabels
<1>7. CASE UNCHANGED vars
  BY <1>7 DEF vars, HotLabels
<1> QED BY <1>2, <1>3, <1>4, <1>5, <1>6, <1>7 DEF Serve

\* A request that is begun, or goes on.
LEMMA ProceedNearer ==
    ASSUME TypeOK, NEW i \in Thread, req[i].pc = "load", NEW o,
           Proceed(i, req[i], o)
    PROVE  /\ Left(req'[i]) < Left(req[i])
           /\ \A j \in Thread \ {i} : req'[j] = req[j]
<1> DEFINE r   == req[i]
           run == [r EXCEPT !.pc = "run", !.obj = o, !.snap = None]
<1>1. r \in Req /\ Len(r.todo) \in Nat
  BY DeltaSequences DEF TypeOK, Req
<1>2. req' = [req EXCEPT ![i] = run] \/ req' = [req EXCEPT ![i] = Idle]
  BY DEF Proceed
<1>3. /\ run.pc = "run" /\ run.todo = r.todo
      /\ Idle.pc = "idle" /\ Idle.todo = << >> /\ Len(<< >>) = 0
  BY <1>1 DEF Req, Idle
<1>4. Left(run) < Left(r) /\ Left(Idle) < Left(r)
  BY <1>1, <1>3 DEF Left, Phase
<1> HIDE DEF run
<1> QED BY <1>2, <1>4 DEF TypeOK

\* Every step of a request.
LEMMA WorkNearer ==
    ASSUME TypeOK, NEW i \in Thread,
           \/ Warm(i) \/ Forward(i) \/ Evict(i) \/ OpenBlob(i)
           \/ SaveBlob(i) \/ SaveManifest(i) \/ Answer(i)
    PROVE  /\ Left(req'[i]) < Left(req[i])
           /\ \A j \in Thread \ {i} :
                 req'[j] = [req[j] EXCEPT !.fd = req'[j].fd]
<1>1. \A j \in Thread : /\ req[j] \in Req /\ Len(req[j].todo) \in Nat
                        /\ req[j].todo \in Seq(DeltaText)
                        /\ req[j] = [req[j] EXCEPT !.fd = req[j].fd]
  BY DeltaSequences DEF TypeOK, Req
<1>2. Idle.pc = "idle" /\ Idle.todo = << >> /\ Len(<< >>) = 0
  BY DEF Idle
<1>3. CASE Warm(i)
  BY <1>1, <1>3, ProceedNearer DEF Warm
<1>4. CASE Forward(i)
  <2>1. PICK o : req' = [req EXCEPT ![i].obj = o, ![i].todo = Tail(@)]
    BY <1>4 DEF Forward
  <2>2. req[i].pc = "run" /\ req[i].todo # << >>
    BY <1>4 DEF Forward
  <2>3. req'[i].pc = "run" /\ req'[i].todo = Tail(req[i].todo)
    BY <1>1, <2>1, <2>2 DEF TypeOK, Req
  <2>4. Len(Tail(req[i].todo)) = Len(req[i].todo) - 1
    BY <1>1, <2>2, HeadTailProperties
  <2>5. Left(req'[i]) < Left(req[i])
    BY <1>1, <2>2, <2>3, <2>4 DEF Left, Phase
  <2> QED BY <1>1, <2>1, <2>5 DEF TypeOK
<1>5. CASE Evict(i) \/ SaveBlob(i) \/ SaveManifest(i)
  <2>1. /\ req'[i].todo = req[i].todo
        /\ Phase[req'[i].pc] < Phase[req[i].pc]
        /\ Phase[req'[i].pc] \in Nat /\ Phase[req[i].pc] \in Nat
        /\ \A j \in Thread \ {i} : req'[j] = req[j]
    BY <1>1, <1>5 DEF Evict, SaveBlob, SaveManifest, TypeOK, Req, Phase
  <2> QED BY <1>1, <2>1 DEF Left
<1>6. CASE OpenBlob(i)
  <2>1. /\ req'[i].todo = req[i].todo
        /\ req[i].pc = "put" /\ req'[i].pc = "save"
    BY <1>1, <1>6 DEF OpenBlob, Req
  <2>2. ASSUME NEW j \in Thread \ {i}
        PROVE  req'[j] = [req[j] EXCEPT !.fd = req'[j].fd]
    <3>1. \/ req'[j] = req[j]
          \/ \E fd : req'[j] = [req[j] EXCEPT !.fd = fd]
      BY <1>6 DEF OpenBlob
    <3>2. \A fd : [req[j] EXCEPT !.fd = fd].fd = fd
      BY <1>1 DEF Req
    <3> QED BY <1>1, <3>1, <3>2
  <2>3. Left(req'[i]) < Left(req[i])
    BY <1>1, <2>1 DEF Left, Phase
  <2> QED BY <2>2, <2>3
<1>7. CASE Answer(i)
  <2>1. /\ req[i].pc = "warm" /\ req'[i] = Idle
        /\ \A j \in Thread \ {i} : req'[j] = req[j]
    BY <1>7 DEF Answer, TypeOK
  <2>2. Left(req'[i]) < Left(req[i])
    BY <1>1, <1>2, <2>1 DEF Left, Phase
  <2> QED BY <1>1, <2>1, <2>2
<1> QED BY <1>3, <1>4, <1>5, <1>6, <1>7

\* A request begins on an idle thread.
LEMMA BeginNearer ==
    ASSUME TypeOK, NEW i \in Thread,
           \/ \E t \in Text : CreateKnown(i, t) \/ CreateNew(i, t)
           \/ \E h \in acked, d \in DeltaText : Advance(i, h, d)
           \/ \E h \in acked, ds \in Deltas : Compact(i, h, ds)
    PROVE  /\ req[i].pc = "idle"
           /\ \A j \in Thread \ {i} :
                 req'[j] = [req[j] EXCEPT !.fd = req'[j].fd]
<1>1. req[i] = Idle /\ Idle.pc = "idle"
  BY DEF CreateKnown, CreateNew, Advance, Compact, Idle
<1>2. \E r : req' = [req EXCEPT ![i] = r]
  <2>1. ASSUME NEW r, GetKv(i, r)
        PROVE  \E q : req' = [req EXCEPT ![i] = q]
    BY <2>1 DEF GetKv, Proceed
  <2> QED BY <2>1 DEF CreateKnown, CreateNew, Advance, Compact
<1>3. \A j \in Thread : req[j] = [req[j] EXCEPT !.fd = req[j].fd]
  BY DEF TypeOK, Req
<1> QED BY <1>1, <1>2, <1>3 DEF TypeOK

\* With a place for one cache more than there are threads under each hash, a
\* request never lacks what its next step needs and each of its steps, the
\* failing ones included, takes it nearer to its end, whatever the others
\* are loading, evicting and storing; a kill ends it (_get_kv, _put_kv).
THEOREM ServerGoesOn ==
    ASSUME IsFiniteSet(Thread), MaxHeld > Cardinality(Thread)
    PROVE  Spec => []GoesOn /\ Nearer
<1>1. Init => TypeOK /\ HotLabels
  BY InitType DEF Init, HotLabels
<1>2. TypeOK /\ HotLabels /\ [Serve \/ Restart]_vars => TypeOK' /\ HotLabels'
  BY StepType, StepLabels
<1>3. TypeOK /\ HotLabels => GoesOn
  <2> SUFFICES ASSUME TypeOK, HotLabels, NEW i \in Thread
               PROVE  /\ Fresh(i) # {}
                      /\ req[i].pc = "load" => Fresh(req[i].from) # {}
                      /\ req[i].pc = "warm" => Fresh(req[i].addr) # {}
    BY DEF GoesOn
  <2>1. req[i].pc \in {"load", "warm"} =>
           /\ req[i].obj = None
           /\ req[i].from \in Hash /\ req[i].addr \in Hash
    BY DEF TypeOK, Req
  <2> QED BY <2>1, PlaceLeft
<1>4. TypeOK /\ [Serve \/ Restart]_vars =>
         [\A i \in Thread :
             /\ req[i].pc # "idle"
             /\ req'[i] # [req[i] EXCEPT !.fd = req'[i].fd]
             => Left(req'[i]) < Left(req[i])]_vars
  <2> SUFFICES ASSUME TypeOK, Serve \/ Restart, NEW i \in Thread,
                      req[i].pc # "idle",
                      req'[i] # [req[i] EXCEPT !.fd = req'[i].fd]
               PROVE  Left(req'[i]) < Left(req[i])
    OBVIOUS
  <2>1. CASE Serve
    BY <2>1, BeginNearer, WorkNearer DEF Serve
  <2>2. CASE Restart
    <3>1. req'[i].pc = "idle" /\ req'[i].todo = << >> /\ Len(<< >>) = 0
      BY <2>2 DEF Restart, Idle
    <3>2. req[i] \in Req /\ Len(req[i].todo) \in Nat
      BY DeltaSequences DEF TypeOK, Req
    <3> QED BY <3>1, <3>2 DEF Left, Phase, Req, Pc
  <2> QED BY <2>1, <2>2
<1> QED BY <1>1, <1>2, <1>3, <1>4, PTL DEF Spec, Nearer
=============================================================================
