-------------------------- MODULE StatelessServer --------------------------
(***************************************************************************)
(* state_pack/stateless_server.py: POST /states, /infer, /merge and        *)
(* /compact, run by the threads of a pool over one dictionary of hot KV    *)
(* caches (_hot) and one PacketStore on disk, without a lock.              *)
(*                                                                         *)
(* A KV cache is represented by the text it was computed from, a state     *)
(* hash by the text it stands for.  Rounding to the dtype of the request,  *)
(* token counts and elapsed times are left out.  A request that fails      *)
(* before it has changed anything (404, or a blob that does not load) is   *)
(* not a step.  A step ends where a request does file I/O or runs the      *)
(* model, and where it has changed _hot: the other threads run there.      *)
(***************************************************************************)
EXTENDS Naturals, Sequences, FiniteSets

CONSTANTS
    Thread,      \* threads of the server's pool
    Text,        \* base texts
    DeltaText,   \* delta texts
    MaxChain,    \* bound: deltas behind one state
    MaxFold,     \* bound: deltas in one compact request
    HotMax,      \* _HOT_MAX
    MaxHeld,     \* live objects cached for one hash (threads + 1: no bound)
    InPlace,     \* does a forward pass append to the cache it is given
    Absent,      \* no such file
    Torn,        \* a blob file that does not load
    None         \* no value

ASSUME BoundAssumption ==
    {MaxChain, MaxFold, MaxHeld} \subseteq Nat /\ HotMax \in Nat \ {0}
ASSUME InPlaceAssumption == InPlace \in BOOLEAN

Deltas == UNION { [1..n -> DeltaText] : n \in 0..MaxChain }
Kv     == [base : Text, deltas : Seq(DeltaText)]

(***************************************************************************)
(* State hashes, by what was hashed.                                       *)
(*   "chain": a base text, or parent|delta again and again: POST /states,  *)
(*            /infer, /merge.                                              *)
(*   "fold":  parent|compact|digest of the joined deltas: POST /compact.   *)
(*            The last n deltas are the folded ones.                       *)
(*   "count": compact:parent+<n>deltas, the text whose digest names the    *)
(*            files of a compacted state; deltas are the parent's.         *)
(***************************************************************************)
Hash ==
    {h \in [kind : {"chain", "fold", "count"}, base : Text, deltas : Deltas,
            n : 0..MaxChain] :
        /\ h.kind = "chain" <=> h.n = 0
        /\ h.kind = "fold" => h.n <= Len(h.deltas)
        /\ h.kind = "count" => Len(h.deltas) + h.n <= MaxChain}

ChainHash(t, ds) == [kind |-> "chain", base |-> t, deltas |-> ds, n |-> 0]
FoldHash(h, ds)  == [kind |-> "fold", base |-> h.base,
                     deltas |-> h.deltas \o ds, n |-> Len(ds)]
CountHash(h, ds) == [kind |-> "count", base |-> h.base, deltas |-> h.deltas,
                     n |-> Len(ds)]

\* DynamicCache objects, by the hash they were cached for or the thread that
\* made them, numbered.
Obj == (Hash \cup Thread) \X (1..MaxHeld)

ASSUME ValueAssumption ==
    /\ Absent # Torn /\ {Absent, Torn} \cap Kv = {}
    /\ Thread \cap Hash = {}
    /\ None \notin Obj \cup Hash \cup Kv

\* What the client takes h to stand for.
Content(h) == [base |-> h.base, deltas |-> h.deltas]
\* kv with ds run on it.
After(kv, ds) == [base |-> kv.base, deltas |-> kv.deltas \o ds]

VARIABLES
    order,   \* the keys of _hot, oldest insertion first
    hot,     \* _hot: the object cached for a hash
    heap,    \* the contents of the live objects
    blob,    \* blob files, by the hash in their name
    man,     \* hashes that have a manifest file
    req,     \* what each thread is doing
    acked    \* state hashes returned to clients

vars == <<order, hot, heap, blob, man, req, acked>>

Pc == {"idle", "load", "run", "put", "save", "manifest", "warm"}

\* A request on its way: from the state from, to answer with the state addr,
\* whose files are called file; obj is the cache in hand, todo the deltas
\* still to run, snap the tensors loaded or being stored.  fd is the blob
\* file it writes: "sole" when nobody truncated it after this thread did,
\* "clobbered" when a writer of the same tensors did, "mixed" when the order
\* of the writes decides.
Req ==
    {r \in [pc : Pc, from : Hash \cup {None}, addr : Hash \cup {None},
            file : Hash \cup {None}, obj : Obj \cup {None}, todo : Deltas,
            snap : Kv \cup {None},
            fd : {"none", "sole", "clobbered", "mixed"}] :
        /\ r.pc # "idle" => {r.from, r.addr, r.file} \subseteq Hash
        /\ r.pc = "run" <=> r.obj # None
        /\ r.pc \notin {"idle", "run"} => r.snap \in Kv}

Idle == [pc |-> "idle", from |-> None, addr |-> None, file |-> None,
         obj |-> None, todo |-> << >>, snap |-> None, fd |-> "none"]

\* The request to run ds on the state g and store the result.
Asks(g, h, f, ds) ==
    [Idle EXCEPT !.from = g, !.addr = h, !.file = f, !.todo = ds]

Held == ({hot[h] : h \in Hash} \cup {req[i].obj : i \in Thread}) \ {None}
\* A new object of w: the first one nobody refers to.
Fresh(w) == {o \in {w} \X (1..MaxHeld) :
                o \notin Held /\ \A k \in 1..(o[2] - 1) : <<w, k>> \in Held}
\* An object nobody refers to any more is gone; o now holds kv.
HeapKept == \E held \in {Held'} : heap' = [x \in held |-> heap[x]]
HeapWith(o, kv) ==
    \E held \in {Held'} :
        heap' = [x \in held |-> IF x = o THEN kv ELSE heap[x]]

Init ==
    /\ order = << >>
    /\ hot = [h \in Hash |-> None]
    /\ heap = << >>
    /\ blob = [h \in Hash |-> Absent]
    /\ man = {}
    /\ req = [i \in Thread |-> Idle]
    /\ acked = {}

IsHot(h) == hot[h] # None

\* Mutant of SetHot: a known key goes last once more.
AppendHot(h, o) ==
    /\ hot' = [hot EXCEPT ![h] = o]
    /\ order' = Append(order, h)

\* _hot[h] = o: a new key goes last, a known one keeps its place.
SetHot(h, o) ==
    /\ hot' = [hot EXCEPT ![h] = o]
    /\ order' = IF IsHot(h) THEN order ELSE Append(order, h)

-----------------------------------------------------------------------------
(* Reading *)

\* What reading the manifest of h can find: who writes it truncates it first.
ManifestReads(h) ==
    {h \in man} \cup
    {FALSE : i \in {j \in Thread : req[j].pc = "manifest" /\ req[j].file = h}}

\* With cache o in hand the request r goes on to read the manifest: without
\* one it fails, a POST /states (nothing to run) is answered, the others run
\* the model.
Proceed(i, r, o) ==
    \E found \in ManifestReads(r.from) :
        IF found /\ r.todo # << >>
        THEN /\ req' = [req EXCEPT ![i] = [r EXCEPT !.pc = "run", !.obj = o,
                                                   !.snap = None]]
             /\ UNCHANGED acked
        ELSE /\ req' = [req EXCEPT ![i] = Idle]
             /\ acked' = IF found THEN acked \cup {r.addr} ELSE acked

\* _get_kv: the state is in memory, or its blob is read.
GetKv(i, r) ==
    /\ UNCHANGED <<order, hot, blob, man>>
    /\ \/ /\ IsHot(r.from)
          /\ Proceed(i, r, hot[r.from])
          /\ HeapKept
       \/ /\ ~IsHot(r.from)
          /\ blob[r.from] \notin {Absent, Torn}
          /\ req' = [req EXCEPT ![i] = [r EXCEPT !.pc = "load",
                                              !.snap = blob[r.from]]]
          /\ UNCHANGED <<heap, acked>>

\* A state read from disk enters _hot, which is not trimmed here, in the
\* place of the one another thread may have put there meanwhile.
Warm(i) ==
    LET r == req[i]
    IN  /\ r.pc = "load"
        /\ UNCHANGED <<blob, man>>
        /\ \E o \in Fresh(r.from) :
              /\ SetHot(r.from, o)
              /\ Proceed(i, r, o)
              /\ HeapWith(o, r.snap)

\* Mutant of CreateKnown: a text whose blob file exists is answered unread.
CreateExists(i, t) ==
    LET h == ChainHash(t, << >>)
    IN  /\ req[i] = Idle
        /\ IsHot(h) \/ blob[h] # Absent
        /\ acked' = acked \cup {h}
        /\ UNCHANGED <<order, hot, heap, blob, man, req>>

\* POST /states for a text seen before: memory or the blob says so, and the
\* manifest must be there too.
CreateKnown(i, t) ==
    LET h == ChainHash(t, << >>)
    IN  /\ req[i] = Idle
        /\ GetKv(i, Asks(h, h, h, << >>))

\* POST /states for a new text: the model reads it into a new cache.
CreateNew(i, t) ==
    LET h == ChainHash(t, << >>)
    IN  /\ req[i] = Idle
        /\ ~IsHot(h) /\ blob[h] = Absent
        /\ UNCHANGED <<order, hot, blob, man, acked>>
        /\ \E o \in Fresh(i) :
              /\ req' = [req EXCEPT ![i] = [Asks(h, h, h, << >>) EXCEPT
                                              !.pc = "run", !.obj = o]]
              /\ HeapWith(o, Content(h))

\* POST /infer and /merge.
Advance(i, h, d) ==
    LET new == ChainHash(h.base, Append(h.deltas, d))
    IN  /\ req[i] = Idle
        /\ Len(h.deltas) < MaxChain
        /\ GetKv(i, Asks(h, new, new, <<d>>))

\* POST /compact.
Compact(i, h, ds) ==
    /\ req[i] = Idle
    /\ Len(h.deltas) + Len(ds) <= MaxChain
    /\ GetKv(i, Asks(h, FoldHash(h, ds), CountHash(h, ds), ds))

-----------------------------------------------------------------------------
(* Running the model *)

\* Mutant of Forward: the cache of the named state is handed to a model that
\* appends to it, without a copy.
ForwardInPlace(i) ==
    LET r   == req[i]
        out == After(heap[r.obj], <<Head(r.todo)>>)
    IN  /\ r.pc = "run"
        /\ r.todo # << >>
        /\ UNCHANGED <<order, hot, blob, man, acked>>
        /\ req' = [req EXCEPT ![i].todo = Tail(@)]
        /\ HeapWith(r.obj, out)

\* One forward pass over the next delta.
Forward(i) ==
    LET r   == req[i]
        out == After(heap[r.obj], <<Head(r.todo)>>)
    IN  /\ r.pc = "run"
        /\ r.todo # << >>
        /\ UNCHANGED <<order, hot, blob, man, acked>>
        /\ \E o \in IF InPlace THEN {r.obj} ELSE Fresh(i) :
              /\ req' = [req EXCEPT ![i].obj = o, ![i].todo = Tail(@)]
              /\ HeapWith(o, out)

-----------------------------------------------------------------------------
(* Storing: _put_kv *)

\* The other threads that are writing the blob file f.
Savers(i, f) == {j \in Thread \ {i} : req[j].pc = "save" /\ req[j].file = f}

\* The tensors are taken out of the cache and the oldest hot state makes
\* room.
Evict(i) ==
    /\ req[i].pc = "run"
    /\ req[i].todo = << >>
    /\ IF Len(order) >= HotMax
       THEN /\ hot' = [hot EXCEPT ![Head(order)] = None]
            /\ order' = Tail(order)
       ELSE UNCHANGED <<hot, order>>
    /\ req' = [req EXCEPT ![i].pc = "put", ![i].obj = None,
                          ![i].snap = heap[req[i].obj]]
    /\ HeapKept
    /\ UNCHANGED <<blob, man, acked>>

\* torch.save opens the blob file, which truncates it.
OpenBlob(i) ==
    LET r     == req[i]
        clash == \E j \in Savers(i, r.file) : req[j].snap # r.snap
    IN  /\ r.pc = "put"
        /\ blob' = [blob EXCEPT ![r.file] = Torn]
        /\ req' = [j \in Thread |->
              IF j = i
              THEN [r EXCEPT !.pc = "save",
                             !.fd = IF clash THEN "mixed" ELSE "sole"]
              ELSE IF j \in Savers(i, r.file)
              THEN [req[j] EXCEPT !.fd =
                      IF clash THEN "mixed" ELSE "clobbered"]
              ELSE req[j]]
        /\ UNCHANGED <<order, hot, heap, man, acked>>

\* What the blob file can hold when thread i has written its last byte.
Saved(i) ==
    CASE req[i].fd = "sole"  -> {req[i].snap}
      [] req[i].fd = "mixed" -> {req[i].snap, Torn, blob[req[i].file]}
      [] OTHER               -> {blob[req[i].file]}

SaveBlob(i) ==
    /\ req[i].pc = "save"
    /\ \E b \in Saved(i) : blob' = [blob EXCEPT ![req[i].file] = b]
    /\ req' = [req EXCEPT ![i].pc = "manifest", ![i].fd = "none"]
    /\ UNCHANGED <<order, hot, heap, man, acked>>

\* Mutant of SaveManifest: only states made from another one get a manifest.
SaveChildManifest(i) ==
    /\ req[i].pc = "manifest"
    /\ man' = man \cup {h \in {req[i].file} : h.deltas # << >>}
    /\ req' = [req EXCEPT ![i].pc = "warm"]
    /\ UNCHANGED <<order, hot, heap, blob, acked>>

SaveManifest(i) ==
    /\ req[i].pc = "manifest"
    /\ man' = man \cup {req[i].file}
    /\ req' = [req EXCEPT ![i].pc = "warm"]
    /\ UNCHANGED <<order, hot, heap, blob, acked>>

\* A new cache of the same tensors enters _hot and the hash is returned.
Answer(i) ==
    /\ req[i].pc = "warm"
    /\ req' = [req EXCEPT ![i] = Idle]
    /\ acked' = acked \cup {req[i].addr}
    /\ UNCHANGED <<blob, man>>
    /\ \E o \in Fresh(req[i].addr) :
          /\ SetHot(req[i].addr, o)
          /\ HeapWith(o, req[i].snap)

-----------------------------------------------------------------------------
\* The process is killed and started again on the same store; a manifest it
\* was writing may be left empty.
Restart ==
    /\ order' = << >>
    /\ hot' = [h \in Hash |-> None]
    /\ heap' = << >>
    /\ req' = [i \in Thread |-> Idle]
    /\ \E cut \in SUBSET {req[i].file :
                           i \in {j \in Thread : req[j].pc = "manifest"}} :
          man' = man \ cut
    /\ UNCHANGED <<blob, acked>>

\* Clients send texts, and hashes they were given.
Serve ==
    \E i \in Thread :
        \/ \E t \in Text : CreateKnown(i, t) \/ CreateNew(i, t)
        \/ \E h \in acked, d \in DeltaText : Advance(i, h, d)
        \/ \E h \in acked : \E ds \in Deltas :
              Len(ds) \in 1..MaxFold /\ Compact(i, h, ds)
        \/ Warm(i)
        \/ Forward(i)
        \/ Evict(i)
        \/ OpenBlob(i)
        \/ SaveBlob(i)
        \/ SaveManifest(i)
        \/ Answer(i)

\* A server that stays up, and one that is killed now and then.
ServeSpec == Init /\ [][Serve]_vars
Spec      == Init /\ [][Serve \/ Restart]_vars

-----------------------------------------------------------------------------
(* Properties *)

Keys(s) == {s[k] : k \in 1..Len(s)}

TypeOK ==
    /\ order \in Seq(Hash)
    /\ hot \in [Hash -> Obj \cup {None}]
    /\ heap \in [Held -> Kv]
    /\ blob \in [Hash -> Kv \cup {Absent, Torn}]
    /\ man \subseteq Hash
    /\ req \in [Thread -> Req]
    /\ acked \subseteq Hash
    /\ Keys(order) = {h \in Hash : IsHot(h)}
    /\ \A k, l \in 1..Len(order) : order[k] = order[l] => k = l

\* "The same state_hash from any client always returns the same result": the
\* cache a request runs the model on, with the deltas it has still to run, is
\* the text that the hash in its answer stands for, whoever else loads,
\* advances, evicts and stores states meanwhile (_get_kv, _put_kv, infer,
\* merge, compact).
RunsOnNamedState ==
    \A i \in Thread :
        req[i].pc = "run" =>
            After(heap[req[i].obj], req[i].todo) = Content(req[i].addr)

\* A state hash that a client was given for a chain of deltas stays on disk,
\* manifest and blob, through evictions and through other requests that
\* compute the same state again; the blob is only ever torn while one of
\* those is writing it.
StoredStates ==
    \A h \in acked :
        h.kind = "chain" =>
            /\ h \in man
            /\ \/ blob[h] = Content(h)
               \/ blob[h] = Torn /\ \E i \in Thread :
                                      req[i].pc = "save" /\ req[i].file = h

\* "Idempotent: same text always returns same hash": whenever no request is
\* under way, a text that looks cached to POST /states (hot, or with a blob)
\* has what the request goes on to read, the blob of that text and its
\* manifest.
CreateReady ==
    (\A i \in Thread : req[i] = Idle) =>
        \A t \in Text :
            LET h == ChainHash(t, << >>)
            IN  IsHot(h) \/ blob[h] # Absent =>
                    h \in man /\ blob[h] = Content(h)

\* What a request that names the state h runs the model on: the hot cache,
\* the blob, or what the blob will be when it is no longer torn.
Served(h) ==
    IF IsHot(h) THEN heap[hot[h]]
    ELSE IF blob[h] # Torn THEN blob[h]
    ELSE LET i == CHOOSE i \in Thread : req[i].pc = "save" /\ req[i].file = h
         IN  req[i].snap
Service ==
    INSTANCE StateService WITH
        value <- [s \in {Content(h) : h \in {g \in acked : g.kind = "chain"}}
                    |-> Served(ChainHash(s.base, s.deltas))]

\* Clients that do not compact see the service of StateService: what a hash
\* stands for is the base text, or the delta run on what the hash before it
\* stands for, and never changes, while the server takes it out of memory,
\* stores it again and reads it back (_get_kv, _put_kv).
ServesStates == Service!Spec

\* A request that names h finds something: h is hot, its blob loads, or a
\* thread is about to make it whole.
Available(h) ==
    \/ IsHot(h)
    \/ blob[h] \notin {Absent, Torn}
    \/ \E i \in Thread : req[i].pc = "save" /\ req[i].file = h
Surviving ==
    {Content(h) : h \in {g \in acked : g.kind = "chain" /\ Available(g)}}
LossyService ==
    INSTANCE StateService WITH
        value <- [s \in Surviving |-> Served(ChainHash(s.base, s.deltas))]

\* Through kills and restarts, at whatever point of a store, a hash stands
\* for its state or for nothing: no other state ever takes its place, what a
\* request returns was run on a state that was there, and a state that was
\* lost is made again from one that was not.  Only a kill loses states: no
\* eviction and no store that meets another one does (_put_kv,
\* PacketStore.create).
SurvivesKills ==
    LossyService!LossySpec /\ [][Serve => Surviving \subseteq Surviving']_vars

\* The hash POST /compact returns is one the server can go on from ("returns
\* a new canonical state hash. Client discards intermediate hashes."): it has
\* a manifest, without which /infer, /merge and /compact fail.
CompactUsable == \A h \in acked : h.kind = "fold" => h \in man
=============================================================================
