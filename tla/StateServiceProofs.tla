------------------------- MODULE StateServiceProofs -------------------------
(***************************************************************************)
(* StatelessServer implements StateService, for every value of the         *)
(* constants and a model that returns a new cache.                         *)
(***************************************************************************)
EXTENDS StatelessServerProofs

\* A request on its way has the state it starts from from a client, and the
\* name it will answer with is that of the delta run on this state; what has
\* got past the manifest of that state does not start from a compacted one.
LineageReq(r) ==
    /\ r.pc # "idle" => r.file.kind # "fold"
    /\ r.pc # "idle" /\ r.addr.kind = "chain" =>
          \/ \E t \in Text : r.addr = ChainHash(t, << >>)
          \/ /\ r.from \in acked
             /\ \E d \in DeltaText :
                   r.addr = ChainHash(r.from.base, Append(r.from.deltas, d))
             /\ r.pc # "load" => r.from.kind = "chain"
LineageInv ==
    /\ \A h \in man : h.kind # "fold"
    /\ \A i \in Thread : LineageReq(req[i])

\* A step that returns the hash of no new state keeps the lineage of the
\* requests that do not move.
LEMMA LineageFrame ==
    ASSUME LineageInv, acked \subseteq acked', NEW i \in Thread,
           \A j \in Thread \ {i} : req'[j] = req[j],
           LineageReq(req[i])', \A h \in man' : h.kind # "fold"
    PROVE  LineageInv'
<1> SUFFICES ASSUME NEW j \in Thread \ {i} PROVE LineageReq(req[j])'
  BY DEF LineageInv
<1> QED BY DEF LineageInv, LineageReq

\* With a cache in hand a request goes on only if its state has a manifest.
LEMMA ProceedLineage ==
    ASSUME TypeOK, LineageInv, NEW i \in Thread, NEW r, Asked(r), Targets(r),
           LineageReq([r EXCEPT !.pc = "load"]),
           NEW o \in Obj, Proceed(i, r, o), man' = man
    PROVE  LineageInv'
<1> DEFINE run == [r EXCEPT !.pc = "run", !.obj = o, !.snap = None]
           ld  == [r EXCEPT !.pc = "load"]
<1>1. \/ req' = [req EXCEPT ![i] = run] /\ acked' = acked /\ r.from \in man
      \/ req' = [req EXCEPT ![i] = Idle] /\ acked \subseteq acked'
  BY DEF Proceed, ManifestReads
<1>2. /\ run.pc = "run" /\ run.from = r.from /\ run.addr = r.addr
      /\ run.file = r.file
      /\ ld.pc = "load" /\ ld.from = r.from /\ ld.addr = r.addr
      /\ ld.file = r.file
  BY DEF Asked, Req
<1>3. LineageReq(req[i])'
  <2>1. CASE req' = [req EXCEPT ![i] = run] /\ acked' = acked /\ r.from \in man
    <3>1. r.from \in Hash /\ r.from.kind = "chain"
      BY <2>1 DEF LineageInv, Targets, Asked, Hash
    <3>2. req'[i] = run
      BY <2>1 DEF TypeOK
    <3>3. /\ r.file.kind # "fold"
          /\ r.addr.kind = "chain" =>
                \/ \E t \in Text : r.addr = ChainHash(t, << >>)
                \/ /\ r.from \in acked
                   /\ \E d \in DeltaText : r.addr =
                         ChainHash(r.from.base, Append(r.from.deltas, d))
      BY <1>2 DEF LineageReq
    <3>4. /\ req'[i].from = r.from /\ req'[i].addr = r.addr
          /\ req'[i].file = r.file
      BY <1>2, <3>2
    <3> HIDE DEF run, ld
    <3> QED BY <2>1, <3>1, <3>3, <3>4 DEF LineageReq
  <2>2. CASE req' = [req EXCEPT ![i] = Idle]
    BY <2>2 DEF TypeOK, LineageReq, Idle
  <2> QED BY <1>1, <2>1, <2>2
<1>4. /\ \A j \in Thread \ {i} : req'[j] = req[j]
      /\ acked \subseteq acked'
  BY <1>1 DEF TypeOK
<1> QED BY <1>3, <1>4, LineageFrame DEF LineageInv

\* _get_kv from memory and from disk.
LEMMA GetKvLineage ==
    ASSUME TypeOK, LineageInv, NEW i \in Thread, NEW r, Asked(r), Targets(r),
           LineageReq([r EXCEPT !.pc = "load"]), GetKv(i, r)
    PROVE  LineageInv'
<1>1. CASE IsHot(r.from)
  <2>1. hot[r.from] \in Obj
    BY <1>1 DEF TypeOK, IsHot, Asked
  <2> QED BY <1>1, <2>1, ProceedLineage DEF GetKv
<1>2. CASE ~IsHot(r.from)
  <2> DEFINE ld == [r EXCEPT !.pc = "load", !.snap = blob[r.from]]
             l0 == [r EXCEPT !.pc = "load"]
  <2>1. UNCHANGED <<man, acked>> /\ req' = [req EXCEPT ![i] = ld]
    BY <1>2 DEF GetKv
  <2>2. /\ ld.pc = "load" /\ ld.from = r.from /\ ld.addr = r.addr
        /\ ld.file = r.file
        /\ l0.pc = "load" /\ l0.from = r.from /\ l0.addr = r.addr
        /\ l0.file = r.file
    BY DEF Asked, Req
  <2>3. LineageReq(req[i])'
    BY <2>1, <2>2 DEF TypeOK, LineageReq
  <2> QED BY <2>1, <2>3, LineageFrame DEF TypeOK, LineageInv
<1> QED BY <1>1, <1>2

\* What the requests ask _get_kv for.
LEMMA RequestAsks ==
    ASSUME TypeOK, NamedInv, NEW i \in Thread,
           \/ \E t \in Text : CreateKnown(i, t)
           \/ \E h \in acked, d \in DeltaText : Advance(i, h, d)
           \/ \E h \in acked : \E ds \in Deltas :
                 Len(ds) \in 1..MaxFold /\ Compact(i, h, ds)
    PROVE  \E r : /\ Asked(r) /\ Targets(r)
                  /\ LineageReq([r EXCEPT !.pc = "load"])
                  /\ GetKv(i, r)
<1>1. \A g, h, f, ds : LET r == [Asks(g, h, f, ds) EXCEPT !.pc = "load"]
                       IN  r.pc = "load" /\ r.from = g /\ r.addr = h
                           /\ r.file = f
  BY DEF Asks, Idle
<1>2. ASSUME NEW t \in Text, CreateKnown(i, t)
      PROVE  \E r : /\ Asked(r) /\ Targets(r)
                    /\ LineageReq([r EXCEPT !.pc = "load"])
                    /\ GetKv(i, r)
  <2> DEFINE h == ChainHash(t, << >>)
             r == Asks(h, h, h, << >>)
  <2>1. h.kind = "chain" /\ r.from = h /\ r.addr = h /\ r.file = h
    BY DEF ChainHash, Asks, Idle
  <2>2. Asked(r)
    BY CreateTarget, DeltaSequences, AskedTypes
  <2>3. Targets(r) /\ LineageReq([r EXCEPT !.pc = "load"])
    BY <1>1, <2>1 DEF Targets, LineageReq
  <2> QED BY <1>2, <2>2, <2>3 DEF CreateKnown
<1>3. ASSUME NEW h \in acked, NEW d \in DeltaText, Advance(i, h, d)
      PROVE  \E r : /\ Asked(r) /\ Targets(r)
                    /\ LineageReq([r EXCEPT !.pc = "load"])
                    /\ GetKv(i, r)
  <2> DEFINE new == ChainHash(h.base, Append(h.deltas, d))
             r   == Asks(h, new, new, <<d>>)
  <2>1. /\ h \in Hash /\ h.kind # "count"
        /\ new.kind = "chain" /\ r.from = h /\ r.addr = new /\ r.file = new
    BY DEF TypeOK, NamedInv, ChainHash, Asks, Idle
  <2>2. Asked(r)
    BY <1>3, <2>1, AdvanceTarget, AskedTypes DEF Advance
  <2>3. Targets(r) /\ LineageReq([r EXCEPT !.pc = "load"])
    BY <1>1, <2>1 DEF Targets, LineageReq
  <2> QED BY <1>3, <2>2, <2>3 DEF Advance
<1>4. ASSUME NEW h \in acked, NEW ds \in Deltas, Len(ds) \in 1..MaxFold,
             Compact(i, h, ds)
      PROVE  \E r : /\ Asked(r) /\ Targets(r)
                    /\ LineageReq([r EXCEPT !.pc = "load"])
                    /\ GetKv(i, r)
  <2> DEFINE r == Asks(h, FoldHash(h, ds), CountHash(h, ds), ds)
  <2>1. /\ h \in Hash /\ ds # << >> /\ h.kind # "count"
        /\ r.from = h /\ r.addr = FoldHash(h, ds) /\ r.file = CountHash(h, ds)
        /\ r.addr.kind = "fold" /\ r.file.kind = "count"
    BY <1>4, EmptySeq DEF TypeOK, NamedInv, FoldHash, CountHash, Asks, Idle
  <2>2. Asked(r)
    BY <1>4, <2>1, CompactTarget, AskedTypes DEF Compact
  <2>3. Targets(r) /\ LineageReq([r EXCEPT !.pc = "load"])
    BY <1>1, <2>1 DEF Targets, LineageReq
  <2> QED BY <1>4, <2>2, <2>3 DEF Compact
<1> QED BY <1>2, <1>3, <1>4

\* A new text has no state before it.
LEMMA CreateNewLineage ==
    ASSUME TypeOK, LineageInv, NEW i \in Thread, NEW t \in Text,
           CreateNew(i, t)
    PROVE  LineageInv'
<1> DEFINE h == ChainHash(t, << >>)
<1>1. h.kind = "chain"
  BY DEF ChainHash
<1>2. PICK o : req' = [req EXCEPT ![i] = [Asks(h, h, h, << >>) EXCEPT
                                            !.pc = "run", !.obj = o]]
  BY DEF CreateNew
<1>3. req'[i].addr = h /\ req'[i].file = h /\ req'[i].pc = "run"
  BY <1>2 DEF TypeOK, Asks, Idle
<1>4. LineageReq(req[i])'
  BY <1>1, <1>3 DEF LineageReq
<1>5. UNCHANGED <<man, acked>>
  BY DEF CreateNew
<1> QED BY <1>2, <1>4, <1>5, LineageFrame DEF TypeOK, LineageInv

\* A request keeps its lineage until it is answered.
LEMMA WorkLineage ==
    ASSUME TypeOK, LineageInv, NEW i \in Thread,
           \/ Forward(i) \/ Evict(i) \/ OpenBlob(i)
           \/ SaveBlob(i) \/ SaveManifest(i) \/ Answer(i)
    PROVE  LineageInv'
<1>1. \A j \in Thread : req[j] \in Req
  BY DEF TypeOK
<1>2. acked \subseteq acked' /\ \A h \in man' : h.kind # "fold"
  BY DEF Forward, Evict, OpenBlob, SaveBlob, SaveManifest, Answer,
         LineageInv, LineageReq
<1>3. ASSUME NEW j \in Thread, req'[j] # Idle, req'[j] # req[j]
      PROVE  /\ req[j].pc \notin {"idle", "load"}
             /\ req'[j].pc \notin {"idle", "load"}
             /\ req'[j].from = req[j].from /\ req'[j].addr = req[j].addr
             /\ req'[j].file = req[j].file
  <2>1. CASE Forward(i)
    <3>1. PICK o : req' = [req EXCEPT ![i].obj = o, ![i].todo = Tail(@)]
      BY <2>1 DEF Forward
    <3>2. req[i].pc = "run"
      BY <2>1 DEF Forward
    <3> QED BY <1>1, <1>3, <3>1, <3>2 DEF TypeOK, Req
  <2>2. CASE Evict(i) \/ SaveBlob(i) \/ SaveManifest(i)
    BY <1>1, <1>3, <2>2 DEF Evict, SaveBlob, SaveManifest, TypeOK, Req
  <2>3. CASE OpenBlob(i)
    BY <1>1, <1>3, <2>3 DEF OpenBlob, Savers, Req
  <2>4. CASE Answer(i)
    BY <1>3, <2>4 DEF Answer, TypeOK
  <2> QED BY <2>1, <2>2, <2>3, <2>4
<1>4. ASSUME NEW j \in Thread PROVE LineageReq(req[j])'
  <2>1. CASE req'[j] = Idle
    BY <2>1 DEF LineageReq, Idle
  <2>2. CASE req'[j] = req[j]
    BY <1>2, <2>2 DEF LineageInv, LineageReq
  <2>3. CASE req'[j] # Idle /\ req'[j] # req[j]
    BY <1>2, <1>3, <2>3 DEF LineageInv, LineageReq
  <2> QED BY <2>1, <2>2, <2>3
<1> QED BY <1>2, <1>4 DEF LineageInv

\* Every step of a server that stays up.
LEMMA StepLineage ==
    ASSUME TypeOK, NamedInv, LineageInv, [Serve]_vars
    PROVE  LineageInv'
<1>1. ASSUME NEW i \in Thread, Warm(i)
      PROVE  LineageInv'
  <2> DEFINE r  == req[i]
             ld == [r EXCEPT !.pc = "load"]
  <2>1. PICK o \in Fresh(r.from) : Proceed(i, r, o) /\ man' = man
    BY <1>1 DEF Warm
  <2>2. r.pc = "load" /\ Asked(r) /\ r \in Req
    BY <1>1 DEF Warm, TypeOK, Req, Asked
  <2>3. Targets(r) /\ LineageReq(ld)
    <3>1. ld = r
      BY <2>2 DEF Req
    <3> QED BY <2>2, <3>1 DEF NamedInv, ReqNamed, LineageInv
  <2>4. o \in Obj
    BY <2>2 DEF Fresh, Obj, Asked
  <2> QED BY <2>1, <2>2, <2>3, <2>4, ProceedLineage
<1>2. CASE UNCHANGED vars
  BY <1>2 DEF vars, LineageInv, LineageReq
<1> QED BY <1>1, <1>2, RequestAsks, GetKvLineage, CreateNewLineage, WorkLineage
        DEF Serve

-----------------------------------------------------------------------------
(* States kept through kills *)

\* The inductive invariant behind SurvivesKills, for a server that is killed
\* now and then.  Nothing says that a state is there: what says so, a hot
\* cache, a request that has read it or one that has stored it, is only there
\* while the blob loads or the thread that will make it whole is at work.
Whole(h) ==
    \/ blob[h] \notin {Absent, Torn}
    \/ blob[h] = Torn /\ \E i \in Thread : Mending(i, h)

KeptReq(r) ==
    /\ r.pc # "idle" /\ r.addr.kind = "chain" => r.file = r.addr
    /\ r.pc = "save" /\ r.file.kind # "count" =>
          r.fd \in {"sole", "clobbered"}
    /\ r.pc \in {"save", "manifest", "warm"} /\ r.file.kind = "chain" =>
          Whole(r.file)
    /\ r.pc # "idle" /\ r.from.kind = "chain" =>
          Whole(r.from) \/ (r.pc # "load" /\ r.from = r.addr)
KeptInv ==
    /\ \A h \in Hash : IsHot(h) /\ h.kind = "chain" => Whole(h)
    /\ \A i \in Thread : KeptReq(req[i])

\* A state that is whole stays so while nobody touches its blob.
LEMMA QuietKept ==
    ASSUME TypeOK, KeptInv, NEW i \in Thread, blob' = blob,
           \A j \in Thread \ {i} : req'[j] = req[j],
           req[i].pc # "save", req'[i].pc # "save", KeptReq(req[i])',
           \A h \in Hash : IsHot(h)' /\ h.kind = "chain" => Whole(h)
    PROVE  KeptInv' /\ \A h \in Hash : Whole(h)' <=> Whole(h)
<1>1. ASSUME NEW h \in Hash
      PROVE  Whole(h)' <=> Whole(h)
  <2>1. \A j \in Thread : Mending(j, h)' <=> Mending(j, h)
    BY DEF Mending
  <2> QED BY <2>1 DEF Whole
<1>2. ASSUME NEW j \in Thread
      PROVE  KeptReq(req[j])'
  <2>1. CASE j = i
    BY <2>1
  <2>2. CASE j # i
    <3>1. req'[j] = req[j] /\ KeptReq(req[j])
      BY <2>2 DEF KeptInv
    <3>2. req[j].pc # "idle" => req[j].from \in Hash /\ req[j].file \in Hash
      BY DEF TypeOK, Req
    <3> QED BY <1>1, <3>1, <3>2 DEF KeptReq
  <2> QED BY <2>1, <2>2
<1> QED BY <1>1, <1>2 DEF KeptInv

\* A request that goes on from a state that is there.
LEMMA ProceedKept ==
    ASSUME TypeOK, KeptInv, NEW i \in Thread, req[i].pc # "save",
           NEW r, Asked(r), NEW o \in Obj, Proceed(i, r, o),
           r.addr.kind = "chain" => r.file = r.addr,
           r.from.kind = "chain" => Whole(r.from), blob' = blob,
           \A h \in Hash : IsHot(h)' /\ h.kind = "chain" => Whole(h)
    PROVE  KeptInv' /\ \A h \in Hash : Whole(h)' <=> Whole(h)
<1> DEFINE run == [r EXCEPT !.pc = "run", !.obj = o, !.snap = None]
<1>1. req' = [req EXCEPT ![i] = run] \/ req' = [req EXCEPT ![i] = Idle]
  BY DEF Proceed
<1>2. /\ run.pc = "run" /\ run.addr = r.addr /\ run.file = r.file
      /\ run.from = r.from
  BY DEF Asked, Req
<1>3. /\ \A j \in Thread \ {i} : req'[j] = req[j]
      /\ req'[i] \in {run, Idle}
  BY <1>1 DEF TypeOK
<1>4. req'[i].pc # "save"
  <2>1. Idle.pc # "save" /\ run.pc # "save"
    BY <1>2 DEF Idle
  <2> HIDE DEF run
  <2> QED BY <1>3, <2>1
<1>5. r.from.kind = "chain" => Whole(r.from)'
  <2>1. \A h : Whole(h) => Whole(h)'
    BY <1>3 DEF Whole, Mending
  <2> QED BY <2>1
<1>6. KeptReq(req[i])'
  <2>1. CASE req'[i] = run
    <3> HIDE DEF run
    <3> QED BY <1>2, <1>5, <2>1 DEF KeptReq
  <2>2. CASE req'[i] = Idle
    BY <2>2 DEF KeptReq, Idle
  <2> QED BY <1>3, <2>1, <2>2
<1> QED BY <1>3, <1>4, <1>6, QuietKept

\* _get_kv finds a state in memory or on disk.
LEMMA GetKvKept ==
    ASSUME TypeOK, KeptInv, NEW i \in Thread, req[i] = Idle,
           NEW r, Asked(r), GetKv(i, r),
           r.addr.kind = "chain" => r.file = r.addr
    PROVE  KeptInv' /\ \A h \in Hash : Whole(h)' <=> Whole(h)
<1>1. req[i].pc # "save" /\ blob' = blob /\ hot' = hot
  BY DEF Idle, GetKv
<1>2. \A h \in Hash : IsHot(h)' /\ h.kind = "chain" => Whole(h)
  BY <1>1 DEF KeptInv, IsHot
<1>3. CASE IsHot(r.from)
  <2>1. hot[r.from] \in Obj
    BY <1>3 DEF TypeOK, IsHot, Asked
  <2>2. r.from.kind = "chain" => Whole(r.from)
    BY <1>3 DEF KeptInv, Asked
  <2> QED BY <1>1, <1>2, <1>3, <2>1, <2>2, ProceedKept DEF GetKv
<1>4. CASE ~IsHot(r.from)
  <2> DEFINE ld == [r EXCEPT !.pc = "load", !.snap = blob[r.from]]
  <2>1. /\ req' = [req EXCEPT ![i] = ld]
        /\ blob[r.from] \notin {Absent, Torn}
    BY <1>4 DEF GetKv
  <2>2. /\ ld.pc = "load" /\ ld.from = r.from
        /\ ld.addr = r.addr /\ ld.file = r.file
    BY DEF Asked, Req
  <2>3. req'[i] = ld /\ \A j \in Thread \ {i} : req'[j] = req[j]
    BY <2>1 DEF TypeOK
  <2>4. Whole(r.from)'
    BY <1>1, <2>1 DEF Whole
  <2>5. KeptReq(req[i])'
    <3> HIDE DEF ld
    <3> QED BY <2>2, <2>3, <2>4 DEF KeptReq
  <2>6. req'[i].pc # "save"
    BY <2>2, <2>3
  <2> QED BY <1>1, <1>2, <2>3, <2>5, <2>6, QuietKept
<1> QED BY <1>3, <1>4

\* A state read from disk is still there when it enters _hot.
LEMMA WarmKept ==
    ASSUME TypeOK, KeptInv, NEW i \in Thread, Warm(i)
    PROVE  KeptInv' /\ \A h \in Hash : Whole(h)' <=> Whole(h)
<1> DEFINE r == req[i]
<1>1. PICK o \in Fresh(r.from) :
         Proceed(i, r, o) /\ SetHot(r.from, o) /\ blob' = blob
  BY DEF Warm
<1>2. r.pc = "load" /\ Asked(r)
  BY DEF Warm, TypeOK, Req, Asked
<1>3. /\ r.addr.kind = "chain" => r.file = r.addr
      /\ r.from.kind = "chain" => Whole(r.from)
  BY <1>2 DEF KeptInv, KeptReq
<1>4. o \in Obj
  BY <1>2 DEF Fresh, Obj, Asked
<1>5. \A h \in Hash : IsHot(h)' /\ h.kind = "chain" => Whole(h)
  <2>1. \A h \in Hash \ {r.from} : hot'[h] = hot[h]
    BY <1>1 DEF SetHot, TypeOK
  <2> QED BY <1>3, <2>1 DEF KeptInv, IsHot
<1> QED BY <1>1, <1>2, <1>3, <1>4, <1>5, ProceedKept

\* The model runs and _hot is trimmed without the store.
LEMMA RunKept ==
    ASSUME TypeOK, KeptInv, NEW i \in Thread,
           (\E t \in Text : CreateNew(i, t)) \/ Forward(i) \/ Evict(i)
    PROVE  KeptInv' /\ \A h \in Hash : Whole(h)' <=> Whole(h)
<1>1. /\ blob' = blob /\ \A j \in Thread \ {i} : req'[j] = req[j]
      /\ req[i].pc # "save" /\ req'[i].pc \in {"run", "put"}
      /\ \/ /\ req[i].pc = "run" /\ req'[i].from = req[i].from
            /\ req'[i].addr = req[i].addr /\ req'[i].file = req[i].file
         \/ /\ req'[i].from = req'[i].addr /\ req'[i].file = req'[i].addr
            /\ req'[i].pc = "run"
  <2>1. req[i] \in Req
    BY DEF TypeOK
  <2>2. ASSUME NEW t \in Text, CreateNew(i, t)
        PROVE  /\ blob' = blob /\ \A j \in Thread \ {i} : req'[j] = req[j]
               /\ req[i].pc # "save" /\ req'[i].pc = "run"
               /\ req'[i].from = req'[i].addr /\ req'[i].file = req'[i].addr
    <3> DEFINE h == ChainHash(t, << >>)
    <3>1. req[i] = Idle /\ blob' = blob /\ Idle.pc = "idle"
      BY <2>2 DEF CreateNew, Idle
    <3>2. PICK o : req' = [req EXCEPT ![i] = [Asks(h, h, h, << >>) EXCEPT
                                                !.pc = "run", !.obj = o]]
      BY <2>2 DEF CreateNew
    <3>3. /\ req'[i].from = h /\ req'[i].addr = h /\ req'[i].file = h
          /\ req'[i].pc = "run"
      BY <3>2 DEF TypeOK, Asks, Idle
    <3> HIDE DEF h
    <3> QED BY <3>1, <3>2, <3>3 DEF TypeOK
  <2>3. CASE Forward(i)
    <3>1. blob' = blob /\ req[i].pc = "run"
      BY <2>3 DEF Forward
    <3>2. PICK o : req' = [req EXCEPT ![i].obj = o, ![i].todo = Tail(@)]
      BY <2>3 DEF Forward
    <3> QED BY <2>1, <3>1, <3>2 DEF TypeOK, Req
  <2>4. CASE Evict(i)
    BY <2>1, <2>4 DEF Evict, TypeOK, Req
  <2> QED BY <2>2, <2>3, <2>4
<1>2. \A h \in Hash : IsHot(h)' => IsHot(h)
  <2>1. CASE \E t \in Text : CreateNew(i, t)
    BY <2>1 DEF CreateNew, IsHot
  <2>2. CASE Forward(i)
    BY <2>2 DEF Forward, IsHot
  <2>3. CASE Evict(i)
    BY <2>3 DEF Evict, IsHot, TypeOK
  <2> QED BY <2>1, <2>2, <2>3
<1>3. \A h : Whole(h) => Whole(h)'
  BY <1>1 DEF Whole, Mending
<1>4. KeptReq(req[i])'
  BY <1>1, <1>3 DEF KeptInv, KeptReq
<1> QED BY <1>1, <1>2, <1>4, QuietKept DEF KeptInv

\* The manifest and the new cache come after the blob.
LEMMA AnswerKept ==
    ASSUME TypeOK, NamedInv, KeptInv, NEW i \in Thread,
           SaveManifest(i) \/ Answer(i)
    PROVE  KeptInv' /\ \A h \in Hash : Whole(h)' <=> Whole(h)
<1>1. /\ blob' = blob /\ \A j \in Thread \ {i} : req'[j] = req[j]
      /\ req[i].pc \in {"manifest", "warm"}
  BY DEF SaveManifest, Answer, TypeOK
<1>2. \A h : Whole(h) => Whole(h)'
  BY <1>1 DEF Whole, Mending
<1>3. CASE SaveManifest(i)
  <2>1. /\ req'[i].pc = "warm" /\ req'[i].from = req[i].from
        /\ req'[i].addr = req[i].addr /\ req'[i].file = req[i].file
        /\ hot' = hot
    BY <1>3 DEF SaveManifest, TypeOK, Req
  <2>2. KeptReq(req[i])'
    BY <1>1, <1>2, <2>1 DEF KeptInv, KeptReq
  <2>3. \A h \in Hash : IsHot(h)' /\ h.kind = "chain" => Whole(h)
    BY <2>1 DEF KeptInv, IsHot
  <2> QED BY <1>1, <2>1, <2>2, <2>3, QuietKept
<1>4. CASE Answer(i)
  <2>1. req[i].pc = "warm" /\ req'[i] = Idle
    BY <1>4 DEF Answer, TypeOK
  <2>2. \A h \in Hash \ {req[i].addr} : hot'[h] = hot[h]
    BY <1>4 DEF Answer, SetHot, TypeOK
  <2>3. req[i].addr.kind = "chain" => Whole(req[i].addr)
    BY <2>1 DEF KeptInv, KeptReq
  <2>4. \A h \in Hash : IsHot(h)' /\ h.kind = "chain" => Whole(h)
    BY <2>2, <2>3 DEF KeptInv, IsHot
  <2>5. KeptReq(req[i])' /\ req'[i].pc # "save"
    BY <2>1 DEF KeptReq, Idle
  <2> QED BY <1>1, <2>4, <2>5, QuietKept
<1> QED BY <1>3, <1>4

\* Opening a blob tears it, and this thread will make it whole again.
LEMMA OpenBlobKept ==
    ASSUME TypeOK, NamedInv, KeptInv, NEW i \in Thread, OpenBlob(i)
    PROVE  /\ KeptInv'
           /\ \A h \in Hash : h.kind = "chain" =>
                 (Whole(h)' <=> Whole(h) \/ h = req[i].file)
<1> DEFINE f == req[i].file
           clash == \E j \in Savers(i, f) : req[j].snap # req[i].snap
<1>1. /\ req[i].pc = "put" /\ f \in Hash /\ hot' = hot
      /\ blob' = [blob EXCEPT ![f] = Torn]
  BY DEF OpenBlob, TypeOK, Req
<1>2. f.kind # "count" => ~clash
  <2>1. ASSUME f.kind # "count", NEW j \in Savers(i, f)
        PROVE  req[j].snap = req[i].snap
    <3>1. j \in Thread /\ req[j].pc = "save" /\ req[j].file = f
      BY DEF Savers
    <3>2. \A k \in {i, j} : req[k].snap = Content(f)
      BY <1>1, <2>1, <3>1 DEF NamedInv, ReqNamed, Targets
    <3> QED BY <3>2
  <2> QED BY <2>1
<1>3. /\ req'[i].pc = "save" /\ req'[i].file = f /\ req'[i].addr = req[i].addr
      /\ req'[i].from = req[i].from
      /\ req'[i].fd = IF clash THEN "mixed" ELSE "sole"
  BY DEF OpenBlob, TypeOK, Req
<1>4. ASSUME NEW j \in Thread \ {i}
      PROVE  /\ req'[j].pc = req[j].pc /\ req'[j].file = req[j].file
             /\ req'[j].addr = req[j].addr /\ req'[j].from = req[j].from
             /\ j \notin Savers(i, f) => req'[j].fd = req[j].fd
             /\ j \in Savers(i, f) =>
                   req'[j].fd = IF clash THEN "mixed" ELSE "clobbered"
  <2>1. req[j] \in Req
    BY DEF TypeOK
  <2> QED BY <2>1 DEF OpenBlob, Req
<1>5. \A h : h = f /\ h.kind # "count" => Mending(i, h)'
  BY <1>2, <1>3 DEF Mending
<1>6. ASSUME NEW h \in Hash, h # f
      PROVE  Whole(h)' <=> Whole(h)
  <2>1. blob'[h] = blob[h]
    BY <1>1, <1>6 DEF TypeOK
  <2>2. ASSUME NEW j \in Thread
        PROVE  Mending(j, h)' <=> Mending(j, h)
    <3>1. CASE j = i
      BY <1>1, <1>3, <1>6, <3>1 DEF Mending
    <3>2. CASE j # i
      BY <1>4, <1>6, <3>2 DEF Mending, Savers
    <3> QED BY <3>1, <3>2
  <2> QED BY <2>1, <2>2 DEF Whole
<1>7. \A h \in Hash : h.kind = "chain" =>
         (Whole(h)' <=> Whole(h) \/ h = f)
  <2>1. blob'[f] = Torn
    BY <1>1 DEF TypeOK
  <2>2. \A h : h = f /\ h.kind = "chain" => Whole(h)'
    BY <1>5, <2>1 DEF Whole
  <2> QED BY <1>6, <2>2
<1>8. ASSUME NEW j \in Thread
      PROVE  KeptReq(req[j])'
  <2>1. req[j].pc # "idle" => req[j].from \in Hash /\ req[j].file \in Hash
    BY DEF TypeOK, Req
  <2>2. KeptReq(req[j])
    BY DEF KeptInv
  <2>3. CASE j = i
    BY <1>1, <1>2, <1>3, <1>7, <2>1, <2>2, <2>3 DEF KeptReq
  <2>4. CASE j # i
    <3>1. j \in Savers(i, f) => req[j].file = f
      BY DEF Savers
    <3> QED BY <1>2, <1>4, <1>7, <2>1, <2>2, <2>4, <3>1 DEF KeptReq
  <2> QED BY <2>3, <2>4
<1> QED BY <1>1, <1>7, <1>8 DEF KeptInv, IsHot

\* Who closes a blob leaves it as it is, or makes it whole.
LEMMA SaveBlobKept ==
    ASSUME TypeOK, KeptInv, NEW i \in Thread, SaveBlob(i)
    PROVE  /\ KeptInv'
           /\ \A h \in Hash : h.kind = "chain" => (Whole(h)' <=> Whole(h))
<1> DEFINE f == req[i].file
<1>1. PICK b \in Saved(i) : blob' = [blob EXCEPT ![f] = b]
  BY DEF SaveBlob
<1>2. /\ req[i].pc = "save" /\ f \in Hash /\ hot' = hot
      /\ req[i].snap \notin {Absent, Torn}
  BY ValueAssumption DEF SaveBlob, TypeOK, Req
<1>3. /\ req'[i].pc = "manifest" /\ req'[i].file = f
      /\ req'[i].addr = req[i].addr /\ req'[i].from = req[i].from
      /\ \A j \in Thread \ {i} : req'[j] = req[j]
  BY DEF SaveBlob, TypeOK, Req
<1>4. ASSUME NEW h \in Hash, h.kind = "chain"
      PROVE  Whole(h)' <=> Whole(h)
  <2>1. \A j \in Thread : Mending(j, h)' <=> Mending(j, h) /\ j # i
    BY <1>3 DEF Mending
  <2>2. CASE h # f
    <3>1. blob'[h] = blob[h] /\ ~Mending(i, h)
      BY <1>1, <2>2 DEF TypeOK, Mending
    <3> QED BY <2>1, <3>1 DEF Whole
  <2>3. CASE h = f
    <3>1. blob'[h] = b /\ Whole(h) /\ req[i].fd \in {"sole", "clobbered"}
      BY <1>1, <1>2, <1>4, <2>3 DEF TypeOK, KeptInv, KeptReq
    <3>2. CASE req[i].fd = "sole"
      <4>1. b = req[i].snap
        BY <3>2 DEF Saved
      <4> QED BY <1>2, <3>1, <4>1 DEF Whole
    <3>3. CASE req[i].fd = "clobbered"
      <4>1. b = blob[h] /\ ~Mending(i, h)
        BY <2>3, <3>3 DEF Saved, Mending
      <4> QED BY <2>1, <3>1, <4>1 DEF Whole
    <3> QED BY <3>1, <3>2, <3>3
  <2> QED BY <2>2, <2>3
<1>5. ASSUME NEW j \in Thread
      PROVE  KeptReq(req[j])'
  <2>1. req[j].pc # "idle" => req[j].from \in Hash /\ req[j].file \in Hash
    BY DEF TypeOK, Req
  <2>2. KeptReq(req[j])
    BY DEF KeptInv
  <2>3. CASE j = i
    BY <1>2, <1>3, <1>4, <2>1, <2>2, <2>3 DEF KeptReq
  <2>4. CASE j # i
    BY <1>3, <1>4, <2>1, <2>2, <2>4 DEF KeptReq
  <2> QED BY <2>3, <2>4
<1> QED BY <1>2, <1>4, <1>5 DEF KeptInv, IsHot

\* While the server is up, a state that is there stays, and the only way to
\* become whole is to be stored.
LEMMA ServeKept ==
    ASSUME TypeOK, NamedInv, KeptInv, [Serve]_vars
    PROVE  /\ KeptInv'
           /\ \A h \in Hash : Whole(h) /\ h.kind = "chain" => Whole(h)'
           /\ \/ \A h \in Hash : h.kind = "chain" => (Whole(h)' <=> Whole(h))
              \/ \E i \in Thread :
                    /\ OpenBlob(i)
                    /\ \A h \in Hash : h.kind = "chain" =>
                          (Whole(h)' <=> Whole(h) \/ h = req[i].file)
<1>1. \A g, h, f, ds : LET r == Asks(g, h, f, ds)
                       IN  r.from = g /\ r.addr = h /\ r.file = f
  BY DEF Asks, Idle
<1>2. ASSUME NEW i \in Thread, NEW t \in Text, CreateKnown(i, t)
      PROVE  KeptInv' /\ \A h \in Hash : Whole(h)' <=> Whole(h)
  <2> DEFINE h == ChainHash(t, << >>)
  <2>1. Asked(Asks(h, h, h, << >>))
    BY CreateTarget, DeltaSequences, AskedTypes
  <2> QED BY <1>1, <1>2, <2>1, GetKvKept DEF CreateKnown
<1>3. ASSUME NEW i \in Thread, NEW h \in acked, NEW d \in DeltaText,
             Advance(i, h, d)
      PROVE  KeptInv' /\ \A g \in Hash : Whole(g)' <=> Whole(g)
  <2> DEFINE new == ChainHash(h.base, Append(h.deltas, d))
  <2>1. h \in Hash
    BY DEF TypeOK
  <2>2. Asked(Asks(h, new, new, <<d>>))
    BY <1>3, <2>1, AdvanceTarget, AskedTypes DEF Advance
  <2> QED BY <1>1, <1>3, <2>2, GetKvKept DEF Advance
<1>4. ASSUME NEW i \in Thread, NEW h \in acked, NEW ds \in Deltas,
             Len(ds) \in 1..MaxFold, Compact(i, h, ds)
      PROVE  KeptInv' /\ \A g \in Hash : Whole(g)' <=> Whole(g)
  <2>1. h \in Hash /\ ds # << >> /\ FoldHash(h, ds).kind # "chain"
    BY <1>4, EmptySeq DEF TypeOK, FoldHash
  <2>2. Asked(Asks(h, FoldHash(h, ds), CountHash(h, ds), ds))
    BY <1>4, <2>1, CompactTarget, AskedTypes DEF Compact
  <2> QED BY <1>1, <1>4, <2>1, <2>2, GetKvKept DEF Compact
<1>5. CASE UNCHANGED vars
  BY <1>5 DEF vars, KeptInv, KeptReq, Whole, Mending, IsHot
<1> QED BY <1>2, <1>3, <1>4, <1>5, RunKept, WarmKept, AnswerKept, OpenBlobKept,
        SaveBlobKept DEF Serve

\* A kill leaves no request and nothing in memory.
LEMMA StepKept ==
    ASSUME TypeOK, NamedInv, LineageInv, KeptInv, [Serve \/ Restart]_vars
    PROVE  LineageInv' /\ KeptInv'
<1>1. CASE Restart
  <2>1. /\ \A i \in Thread : req'[i] = Idle
        /\ \A h \in Hash : ~IsHot(h)'
        /\ man' \subseteq man
    BY <1>1 DEF Restart, IsHot
  <2> QED BY <2>1 DEF LineageInv, LineageReq, KeptInv, KeptReq, Idle
<1>2. CASE [Serve]_vars
  BY <1>2, StepLineage, ServeKept
<1> QED BY <1>1, <1>2

-----------------------------------------------------------------------------
(* The refinement *)

\* The names clients hold, as StateService calls them, and what they stand
\* for.
Names  == {Content(h) : h \in {g \in acked : g.kind = "chain"}}
Values == [s \in Names |-> Served(ChainHash(s.base, s.deltas))]

\* A name is the hash of its text and deltas, and the other way around.
LEMMA NamesOfHashes ==
    /\ \A t, ds : Content(ChainHash(t, ds)) = [base |-> t, deltas |-> ds]
    /\ \A h \in Hash : h.kind = "chain" => ChainHash(h.base, h.deltas) = h
<1>1. \A t, ds : Content(ChainHash(t, ds)) = [base |-> t, deltas |-> ds]
  BY DEF Content, ChainHash
<1>2. ASSUME NEW h \in Hash, h.kind = "chain"
      PROVE  ChainHash(h.base, h.deltas) = h
  <2>1. h.n = 0
    BY <1>2 DEF Hash
  <2> QED BY <1>2, <2>1 DEF Hash, ChainHash
<1> QED BY <1>1, <1>2

\* Whatever memory and disk are going through, a name clients hold stands for
\* the text and the deltas that were hashed.
LEMMA ServedNamed ==
    ASSUME TypeOK, NamedInv, StoredInv
    PROVE  Values = [s \in Names |-> s]
<1> SUFFICES ASSUME NEW h \in acked, h.kind = "chain"
             PROVE  Served(ChainHash(h.base, h.deltas)) = Content(h)
  <2>1. \A h \in acked : h.kind = "chain" =>
           /\ ChainHash(Content(h).base, Content(h).deltas)
                = ChainHash(h.base, h.deltas)
    BY DEF Content
  <2> QED BY <2>1 DEF Values, Names
<1>1. h \in Hash /\ ChainHash(h.base, h.deltas) = h
  BY NamesOfHashes DEF TypeOK
<1>2. CASE IsHot(h)
  BY <1>1, <1>2 DEF Served, NamedInv, HotNamed
<1>3. CASE ~IsHot(h)
  <2>1. blob[h] \in {Torn, Content(h)}
    BY <1>1 DEF StoredInv, NamedInv, BlobNamed
  <2>2. CASE blob[h] # Torn
    BY <1>1, <1>3, <2>1, <2>2 DEF Served
  <2>3. CASE blob[h] = Torn
    <3> DEFINE i == CHOOSE i \in Thread : req[i].pc = "save" /\ req[i].file = h
    <3>1. \E j \in Thread : Mending(j, h)
      BY <1>1, <2>3 DEF StoredInv
    <3>2. i \in Thread /\ req[i].pc = "save" /\ req[i].file = h
      BY <3>1 DEF Mending
    <3>3. req[i].addr = h
      BY <3>2 DEF NamedInv, ReqNamed, Targets
    <3>4. req[i].snap = Content(h)
      BY <3>2, <3>3 DEF NamedInv, ReqNamed
    <3>5. Served(h) = req[i].snap
      BY <1>3, <2>3 DEF Served
    <3> QED BY <1>1, <3>4, <3>5
  <2> QED BY <2>2, <2>3
<1> QED BY <1>2, <1>3

\* A hash a client may be given: the state before it was given to one, and
\* is there.
Follows(h) ==
    h.kind = "chain" =>
        \/ \E t \in Text : h = ChainHash(t, << >>)
        \/ \E g \in acked, d \in DeltaText :
              /\ g.kind = "chain" /\ Whole(g)
              /\ h = ChainHash(g.base, Append(g.deltas, d))

\* What is answered from _get_kv has a manifest.
LEMMA ProceedAcks ==
    ASSUME TypeOK, LineageInv, NEW i \in Thread, NEW r, Asked(r), Targets(r),
           LineageReq([r EXCEPT !.pc = "load"]), NEW o, Proceed(i, r, o),
           r.from.kind = "chain" => Whole(r.from)
    PROVE  \/ acked' = acked
           \/ Follows(r.addr) /\ acked' = acked \cup {r.addr}
<1> DEFINE ld == [r EXCEPT !.pc = "load"]
<1>1. \/ acked' = acked
      \/ r.from \in man /\ acked' = acked \cup {r.addr}
  BY DEF Proceed, ManifestReads
<1>2. /\ ld.pc = "load" /\ ld.from = r.from /\ ld.addr = r.addr
  BY DEF Asked, Req
<1>3. r.from \in man => r.from.kind = "chain"
  BY DEF LineageInv, Targets, Asked, Hash
<1>4. r.from \in man => Follows(r.addr)
  BY <1>2, <1>3 DEF LineageReq, Follows
<1> QED BY <1>1, <1>4

\* No state comes after itself.
LEMMA NextIsNew ==
    ASSUME NEW h \in Hash, NEW d \in DeltaText
    PROVE  h # ChainHash(h.base, Append(h.deltas, d))
<1>1. h.deltas \in Seq(DeltaText)
  BY DeltaSequences DEF Hash
<1>2. /\ Len(Append(h.deltas, d)) = Len(h.deltas) + 1
      /\ Len(h.deltas) \in Nat
  BY <1>1, AppendProperties, LenProperties
<1>3. ChainHash(h.base, Append(h.deltas, d)).deltas = Append(h.deltas, d)
  BY DEF ChainHash
<1> QED BY <1>2, <1>3

\* A request that has got past the manifest works for such a hash.
LEMMA RequestFollows ==
    ASSUME TypeOK, LineageInv, KeptInv, NEW i \in Thread,
           req[i].pc \notin {"idle", "load"}
    PROVE  req[i].addr \in Hash /\ Follows(req[i].addr)
<1> DEFINE r == req[i]
<1>1. r.addr \in Hash /\ r.from \in Hash
  BY DEF TypeOK, Req
<1>2. SUFFICES ASSUME r.addr.kind = "chain",
                      ~\E t \in Text : r.addr = ChainHash(t, << >>)
               PROVE  Follows(r.addr)
  BY <1>1 DEF Follows
<1>3. PICK d \in DeltaText :
         /\ r.from \in acked /\ r.from.kind = "chain"
         /\ r.addr = ChainHash(r.from.base, Append(r.from.deltas, d))
  BY <1>2 DEF LineageInv, LineageReq
<1>4. r.from # r.addr
  BY <1>1, <1>3, NextIsNew
<1>5. Whole(r.from)
  BY <1>3, <1>4 DEF KeptInv, KeptReq
<1> QED BY <1>3, <1>5 DEF Follows

\* The hashes a step returns.
LEMMA StepAcks ==
    ASSUME TypeOK, NamedInv, LineageInv, KeptInv, [Serve]_vars
    PROVE  \/ acked' = acked
           \/ \E h \in Hash : Follows(h) /\ acked' = acked \cup {h}
<1>1. ASSUME NEW i \in Thread, NEW r, Asked(r), Targets(r),
             LineageReq([r EXCEPT !.pc = "load"]), GetKv(i, r)
      PROVE  \/ acked' = acked
             \/ \E h \in Hash : Follows(h) /\ acked' = acked \cup {h}
  <2>1. CASE IsHot(r.from)
    <3>1. r.from.kind = "chain" => Whole(r.from)
      BY <1>1, <2>1 DEF KeptInv, Asked
    <3> QED BY <1>1, <2>1, <3>1, ProceedAcks DEF GetKv, Asked
  <2>2. CASE ~IsHot(r.from)
    BY <1>1, <2>2 DEF GetKv
  <2> QED BY <2>1, <2>2
<1>2. ASSUME NEW i \in Thread, Warm(i)
      PROVE  \/ acked' = acked
             \/ \E h \in Hash : Follows(h) /\ acked' = acked \cup {h}
  <2> DEFINE r == req[i]
  <2>1. PICK o \in Fresh(r.from) : Proceed(i, r, o)
    BY <1>2 DEF Warm
  <2>2. r.pc = "load" /\ Asked(r) /\ r \in Req
    BY <1>2 DEF Warm, TypeOK, Req, Asked
  <2>3. [r EXCEPT !.pc = "load"] = r
    BY <2>2 DEF Req
  <2>4. Targets(r) /\ LineageReq([r EXCEPT !.pc = "load"])
    BY <2>2, <2>3 DEF NamedInv, ReqNamed, LineageInv
  <2>5. r.from.kind = "chain" => Whole(r.from)
    BY <2>2 DEF KeptInv, KeptReq
  <2> QED BY <2>1, <2>2, <2>4, <2>5, ProceedAcks DEF Asked
<1>3. ASSUME NEW i \in Thread, Answer(i)
      PROVE  \E h \in Hash : Follows(h) /\ acked' = acked \cup {h}
  <2>1. req[i].pc = "warm" /\ acked' = acked \cup {req[i].addr}
    BY <1>3 DEF Answer
  <2> QED BY <2>1, RequestFollows
<1>4. ASSUME NEW i \in Thread,
             \/ \E t \in Text : CreateNew(i, t)
             \/ Forward(i) \/ Evict(i) \/ OpenBlob(i) \/ SaveBlob(i)
             \/ SaveManifest(i)
      PROVE  acked' = acked
  BY <1>4 DEF CreateNew, Forward, Evict, OpenBlob, SaveBlob, SaveManifest
<1>5. CASE UNCHANGED vars
  BY <1>5 DEF vars
<1> QED BY <1>1, <1>2, <1>3, <1>4, <1>5, RequestAsks DEF Serve

\* Nothing is named, stored or asked for to begin with.
LEMMA InitKept == Init => LineageInv /\ KeptInv
BY DEF Init, LineageInv, LineageReq, KeptInv, KeptReq, IsHot, Idle

\* A step that returns a hash is a step of the service, or repeats one.
LEMMA AckServes ==
    ASSUME TypeOK, TypeOK', Values = [s \in Names |-> s],
           Values' = [s \in Names' |-> s],
           NEW h \in Hash, Follows(h), acked' = acked \cup {h}
    PROVE  [Service!Next]_Values
<1> DEFINE same == [s \in Names \cup {Content(h)} |-> s]
<1>1. CASE h.kind # "chain"
  <2>1. Names' = Names
    BY <1>1 DEF Names
  <2> QED BY <2>1
<1>2. CASE h.kind = "chain"
  <2>1. Names' = Names \cup {Content(h)}
    BY <1>2 DEF Names
  <2>2. Values' = [s \in DOMAIN Values \cup {Content(h)} |->
                      IF s = Content(h) THEN Content(h) ELSE Values[s]]
    BY <2>1
  <2>3. CASE \E t \in Text : h = ChainHash(t, << >>)
    <3>1. PICK t \in Text : h = ChainHash(t, << >>)
      BY <2>3
    <3>2. Content(h) = Service!Base(t)
      BY <3>1 DEF Content, ChainHash, Service!Base
    <3>3. Service!Create(t)
      BY <2>2, <3>2 DEF Service!Create, Service!Return, Values, Names
    <3> QED BY <3>3 DEF Service!Next
  <2>4. CASE \E g \in acked, d \in DeltaText :
                g.kind = "chain" /\ h = ChainHash(g.base, Append(g.deltas, d))
    <3>1. PICK g \in acked, d \in DeltaText :
             g.kind = "chain" /\ h = ChainHash(g.base, Append(g.deltas, d))
      BY <2>4
    <3>2. Content(g) \in DOMAIN Values /\ Values[Content(g)] = Content(g)
      BY <3>1 DEF Names
    <3>3. Content(h) = Service!With(Content(g), d)
      BY <3>1 DEF Content, ChainHash, Service!With
    <3>4. Service!Extend(Content(g), d)
      BY <2>2, <3>2, <3>3
      DEF Service!Extend, Service!Return, Values, Names
    <3> QED BY <3>2, <3>4 DEF Service!Next, Values, Names
  <2> QED BY <1>2, <2>3, <2>4 DEF Follows
<1> QED BY <1>1, <1>2

\* While the server stays up, with a model that returns a new cache, clients
\* that do not compact see the service: a hash they were given stands for the
\* same cache for ever, however often it is taken out of memory, stored again
\* and read back, and that of a delta for the delta run on it (_get_kv,
\* _put_kv, create_state, infer, merge).
THEOREM ServerImplementsService ==
    ASSUME InPlace = FALSE
    PROVE  ServeSpec => ServesStates
<1> DEFINE IInv == TypeOK /\ NamedInv /\ StoredInv /\ LineageInv /\ KeptInv
<1>1. Init => IInv /\ Service!Init
  <2> SUFFICES ASSUME Init PROVE IInv /\ Service!Init
    OBVIOUS
  <2>1. LineageInv /\ KeptInv
    BY InitKept
  <2>2. Names = {}
    BY DEF Init, Names
  <2>3. Values = << >>
    BY <2>2 DEF Values
  <2> QED BY <2>1, <2>3, InitType, InitStored
          DEF Service!Init, Values, Names
<1>2. IInv /\ [Serve]_vars => IInv'
  <2> SUFFICES ASSUME IInv, [Serve]_vars PROVE IInv'
    OBVIOUS
  <2>1. [Serve \/ Restart]_vars
    OBVIOUS
  <2> QED BY <2>1, StepType, StepNamed, StepStored, StepKept
<1>3. IInv => Values = [s \in Names |-> s]
  BY ServedNamed
<1>4. IInv' => (Values = [s \in Names |-> s])'
  BY <1>3, PTL
<1>5. IInv /\ IInv' /\ [Serve]_vars => [Service!Next]_Values
  <2> SUFFICES ASSUME IInv, IInv', [Serve]_vars PROVE [Service!Next]_Values
    OBVIOUS
  <2>1. Values = [s \in Names |-> s] /\ Values' = [s \in Names' |-> s]
    BY <1>3, <1>4
  <2>2. CASE acked' = acked
    BY <2>1, <2>2 DEF Names
  <2>3. CASE \E h \in Hash : Follows(h) /\ acked' = acked \cup {h}
    BY <2>1, <2>3, AckServes
  <2> QED BY <2>2, <2>3, StepAcks
<1> QED BY <1>1, <1>2, <1>5, PTL
        DEF ServeSpec, ServesStates, Service!Spec, Values, Names

-----------------------------------------------------------------------------
(* The refinement, with kills *)

\* What the names that survive stand for.
SurvivingValues ==
    [s \in Surviving |-> Served(ChainHash(s.base, s.deltas))]
WholeAcked == {h \in acked : h.kind = "chain" /\ Whole(h)}

\* A request finds the states that are whole, and those only.
LEMMA SurvivingWhole ==
    ASSUME TypeOK, KeptInv
    PROVE  Surviving = {Content(h) : h \in WholeAcked}
<1> SUFFICES ASSUME NEW h \in acked, h.kind = "chain"
             PROVE  Available(h) <=> Whole(h)
  BY DEF Surviving, WholeAcked
<1>1. h \in Hash
  BY DEF TypeOK
<1>2. ASSUME NEW i \in Thread, req[i].pc = "save", req[i].file = h
      PROVE  Whole(h)
  BY <1>2 DEF KeptInv, KeptReq
<1> QED BY <1>1, <1>2 DEF KeptInv, Available, Whole, Mending

\* They stand for the text and the deltas that were hashed.
LEMMA SurvivingNamed ==
    ASSUME TypeOK, NamedInv, KeptInv
    PROVE  SurvivingValues = [s \in Surviving |-> s]
<1> SUFFICES ASSUME NEW h \in WholeAcked
             PROVE  Served(ChainHash(h.base, h.deltas)) = Content(h)
  <2>1. \A h : ChainHash(Content(h).base, Content(h).deltas)
                 = ChainHash(h.base, h.deltas)
    BY DEF Content
  <2> QED BY <2>1, SurvivingWhole DEF SurvivingValues
<1>1. /\ h \in Hash /\ h.kind = "chain" /\ Whole(h)
      /\ ChainHash(h.base, h.deltas) = h
  BY NamesOfHashes DEF TypeOK, WholeAcked
<1>2. blob[h] \in {Absent, Torn, Content(h)}
  BY <1>1 DEF NamedInv, BlobNamed
<1>3. CASE IsHot(h)
  BY <1>1, <1>3 DEF Served, NamedInv, HotNamed
<1>4. CASE ~IsHot(h) /\ blob[h] # Torn
  BY <1>1, <1>2, <1>4 DEF Served, Whole
<1>5. CASE ~IsHot(h) /\ blob[h] = Torn
  <2> DEFINE i == CHOOSE i \in Thread : req[i].pc = "save" /\ req[i].file = h
  <2>1. \E j \in Thread : Mending(j, h)
    BY <1>1, <1>5 DEF Whole
  <2>2. i \in Thread /\ req[i].pc = "save" /\ req[i].file = h
    BY <2>1 DEF Mending
  <2>3. req[i].addr = h
    BY <1>1, <2>2 DEF NamedInv, ReqNamed, Targets
  <2>4. req[i].snap = Content(h)
    BY <2>2, <2>3 DEF NamedInv, ReqNamed
  <2>5. Served(h) = req[i].snap
    BY <1>5 DEF Served
  <2> QED BY <1>1, <2>4, <2>5
<1> QED BY <1>3, <1>4, <1>5

\* While the server is up nothing is lost, and what is there anew comes after
\* a state that is there: it is returned, or stored once more.
LEMMA ServeGrows ==
    ASSUME TypeOK, NamedInv, LineageInv, KeptInv, [Serve]_vars
    PROVE  \/ WholeAcked' = WholeAcked
           \/ \E h \in Hash : /\ h.kind = "chain" /\ Follows(h)
                              /\ WholeAcked' = WholeAcked \cup {h}
<1>1. \A h \in acked : h \in Hash
  BY DEF TypeOK
<1>2. ASSUME NEW i \in Thread, OpenBlob(i),
             \A h \in Hash : h.kind = "chain" =>
                (Whole(h)' <=> Whole(h) \/ h = req[i].file)
      PROVE  \/ WholeAcked' = WholeAcked
             \/ \E h \in Hash : /\ h.kind = "chain" /\ Follows(h)
                                /\ WholeAcked' = WholeAcked \cup {h}
  <2> DEFINE f == req[i].file
  <2>1. acked' = acked /\ req[i].pc = "put" /\ f \in Hash
    BY <1>2 DEF OpenBlob, TypeOK, Req
  <2>2. f.kind = "chain" => Follows(f)
    <3>1. f.kind = "chain" => f = req[i].addr
      BY <2>1 DEF NamedInv, ReqNamed, Targets
    <3> QED BY <2>1, <3>1, RequestFollows
  <2>3. WholeAcked' =
           WholeAcked \cup {h \in {f} : h \in acked /\ h.kind = "chain"}
    BY <1>1, <1>2, <2>1 DEF WholeAcked
  <2> QED BY <2>1, <2>2, <2>3
<1>3. ASSUME \A h \in Hash : h.kind = "chain" => (Whole(h)' <=> Whole(h))
      PROVE  \/ WholeAcked' = WholeAcked
             \/ \E h \in Hash : /\ h.kind = "chain" /\ Follows(h)
                                /\ WholeAcked' = WholeAcked \cup {h}
  <2>1. CASE acked' = acked
    BY <1>1, <1>3, <2>1 DEF WholeAcked
  <2>2. CASE \E h \in Hash : Follows(h) /\ acked' = acked \cup {h}
    <3>1. PICK h \in Hash : Follows(h) /\ acked' = acked \cup {h}
      BY <2>2
    <3>2. WholeAcked' =
             WholeAcked \cup {g \in {h} : g.kind = "chain" /\ Whole(g)}
      BY <1>1, <1>3, <3>1 DEF WholeAcked
    <3> QED BY <3>1, <3>2
  <2> QED BY <2>1, <2>2, StepAcks
<1> QED BY <1>2, <1>3, ServeKept

\* That is a step of the service.
LEMMA GrowthServes ==
    ASSUME TypeOK, KeptInv, NEW h \in Hash, h.kind = "chain", Follows(h),
           SurvivingValues = [s \in Surviving |-> s],
           SurvivingValues' = [s \in Surviving' |-> s],
           Surviving' = Surviving \cup {Content(h)}
    PROVE  [LossyService!Next]_SurvivingValues
<1>1. SurvivingValues' =
         [s \in DOMAIN SurvivingValues \cup {Content(h)} |->
             IF s = Content(h) THEN Content(h) ELSE SurvivingValues[s]]
  OBVIOUS
<1>2. CASE \E t \in Text : h = ChainHash(t, << >>)
  <2>1. PICK t \in Text : h = ChainHash(t, << >>)
    BY <1>2
  <2>2. Content(h) = LossyService!Base(t)
    BY <2>1 DEF Content, ChainHash, LossyService!Base
  <2>3. LossyService!Create(t)
    BY <1>1, <2>2
    DEF LossyService!Create, LossyService!Return, SurvivingValues, Surviving
  <2> QED BY <2>3 DEF LossyService!Next
<1>3. CASE \E g \in acked, d \in DeltaText :
              /\ g.kind = "chain" /\ Whole(g)
              /\ h = ChainHash(g.base, Append(g.deltas, d))
  <2>1. PICK g \in acked, d \in DeltaText :
           /\ g.kind = "chain" /\ Whole(g)
           /\ h = ChainHash(g.base, Append(g.deltas, d))
    BY <1>3
  <2>2. Content(g) \in Surviving
    BY <2>1, SurvivingWhole DEF WholeAcked
  <2>3. /\ Content(g) \in DOMAIN SurvivingValues
        /\ SurvivingValues[Content(g)] = Content(g)
    BY <2>2
  <2>4. Content(h) = LossyService!With(Content(g), d)
    BY <2>1 DEF Content, ChainHash, LossyService!With
  <2>5. LossyService!Extend(Content(g), d)
    BY <1>1, <2>3, <2>4
    DEF LossyService!Extend, LossyService!Return, SurvivingValues, Surviving
  <2> QED BY <2>3, <2>5 DEF LossyService!Next, SurvivingValues, Surviving
<1> QED BY <1>2, <1>3 DEF Follows

\* Through any number of kills, at whatever point of a store, with a model
\* that returns a new cache, a hash that a client was given for a chain of
\* deltas stands for its state or for nothing, what a request returns was run
\* on a state that was there, and only a kill takes a state away (_get_kv,
\* _put_kv, create_state, infer, merge, PacketStore.create).
THEOREM ServerSurvivesKills ==
    ASSUME InPlace = FALSE
    PROVE  Spec => SurvivesKills
<1> DEFINE IInv  == TypeOK /\ NamedInv /\ LineageInv /\ KeptInv
           Named == SurvivingValues = [s \in Surviving |-> s]
           Lose  == \E kept \in SUBSET DOMAIN SurvivingValues :
                       LossyService!Lose(kept)
           Safe  == [Serve => Surviving \subseteq Surviving']_vars
<1>1. Init => IInv /\ LossyService!Init
  <2> SUFFICES ASSUME Init PROVE IInv /\ LossyService!Init
    OBVIOUS
  <2>1. Surviving = {}
    BY DEF Init, Surviving
  <2>2. SurvivingValues = << >>
    BY <2>1 DEF SurvivingValues
  <2> QED BY <2>2, InitType, InitStored, InitKept
          DEF LossyService!Init, SurvivingValues, Surviving
<1>2. IInv /\ [Serve \/ Restart]_vars => IInv'
  BY StepType, StepNamed, StepKept
<1>3. IInv => Named
  BY SurvivingNamed
<1>4. IInv' => Named'
  BY <1>3, PTL
<1>5. IInv => Surviving = {Content(h) : h \in WholeAcked}
  BY SurvivingWhole
<1>6. IInv' => (Surviving = {Content(h) : h \in WholeAcked})'
  BY <1>5, PTL
<1>7. IInv /\ IInv' /\ [Serve \/ Restart]_vars =>
         [LossyService!Next \/ Lose]_SurvivingValues /\ Safe
  <2> SUFFICES ASSUME IInv, IInv', [Serve \/ Restart]_vars
               PROVE  /\ [LossyService!Next \/ Lose]_SurvivingValues
                      /\ Safe
    OBVIOUS
  <2>1. /\ Named /\ Named'
        /\ Surviving = {Content(h) : h \in WholeAcked}
        /\ Surviving' = {Content(h) : h \in WholeAcked'}
    BY <1>3, <1>4, <1>5, <1>6
  <2>2. CASE [Serve]_vars
    <3>1. CASE WholeAcked' = WholeAcked
      BY <2>1, <3>1
    <3>2. CASE \E h \in Hash : /\ h.kind = "chain" /\ Follows(h)
                               /\ WholeAcked' = WholeAcked \cup {h}
      <4>1. PICK h \in Hash : /\ h.kind = "chain" /\ Follows(h)
                              /\ WholeAcked' = WholeAcked \cup {h}
        BY <3>2
      <4>2. Surviving' = Surviving \cup {Content(h)}
        BY <2>1, <4>1
      <4> QED BY <2>1, <4>1, <4>2, GrowthServes
    <3> QED BY <2>2, <3>1, <3>2, ServeGrows
  <2>3. CASE Restart /\ ~Serve
    <3>1. Surviving' \subseteq Surviving
      <4>1. WholeAcked' \subseteq WholeAcked
        BY <2>3 DEF Restart, WholeAcked, Whole, Mending, Idle
      <4> QED BY <2>1, <4>1
    <3>2. SurvivingValues' = [s \in Surviving' |-> SurvivingValues[s]]
      BY <2>1, <3>1
    <3>3. LossyService!Lose(Surviving') /\ Surviving' \subseteq Surviving
      BY <3>1, <3>2 DEF LossyService!Lose, SurvivingValues, Surviving
    <3> QED BY <2>3, <3>3 DEF SurvivingValues
  <2> QED BY <2>2, <2>3
<1> QED BY <1>1, <1>2, <1>7, PTL
        DEF Spec, SurvivesKills, LossyService!LossySpec, SurvivingValues,
            Surviving
=============================================================================
