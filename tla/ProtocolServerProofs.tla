----------------------- MODULE ProtocolServerProofs -----------------------
(***************************************************************************)
(* Theorems about the protocol server and its clients, for any number of   *)
(* clients, texts, deltas and broken-off operations, and every length of   *)
(* chains.                                                                 *)
(***************************************************************************)
EXTENDS ProtocolServer, SequenceTheorems, TLAPS

-----------------------------------------------------------------------------
(* Names *)

\* The bounds are numbers.
LEMMA Bounds == MaxChain \in Nat /\ MaxErrors \in Nat /\ 0 \in 0..MaxChain
<1>1. MaxChain \in Nat /\ MaxErrors \in Nat
  BY BoundAssumption
<1> QED BY <1>1

\* The delta sequences of a name are the ones of at most MaxChain deltas.
LEMMA DeltaSequences ==
    /\ \A ds \in Deltas : ds \in Seq(DeltaText) /\ Len(ds) \in 0..MaxChain
    /\ \A ds \in Seq(DeltaText) : Len(ds) <= MaxChain => ds \in Deltas
    /\ << >> \in Deltas /\ Len(<< >>) = 0
<1>1. ASSUME NEW ds \in Deltas
      PROVE  ds \in Seq(DeltaText) /\ Len(ds) \in 0..MaxChain
  BY <1>1, BoundAssumption DEF Deltas
<1>2. ASSUME NEW ds \in Seq(DeltaText), Len(ds) <= MaxChain
      PROVE  ds \in Deltas
  <2>1. Len(ds) \in 0..MaxChain /\ ds \in [1..Len(ds) -> DeltaText]
    BY <1>2, LenProperties, BoundAssumption
  <2> QED BY <2>1 DEF Deltas
<1>3. << >> \in Deltas /\ Len(<< >>) = 0
  <2>1. << >> \in Seq(DeltaText) /\ Len(<< >>) = 0
    BY EmptySeq
  <2>2. Len(<< >>) <= MaxChain
    BY <2>1, BoundAssumption
  <2> QED BY <1>2, <2>1, <2>2
<1> QED BY <1>1, <1>2, <1>3

\* A sequence of deltas that is not full can be gone on from.
LEMMA LongerDeltas ==
    ASSUME NEW ds \in Deltas, NEW d \in DeltaText, Len(ds) < MaxChain
    PROVE  Append(ds, d) \in Deltas /\ Len(Append(ds, d)) = Len(ds) + 1
<1>1. ds \in Seq(DeltaText) /\ Len(ds) \in 0..MaxChain
  BY DeltaSequences
<1>2. /\ Append(ds, d) \in Seq(DeltaText)
      /\ Len(Append(ds, d)) = Len(ds) + 1
  BY <1>1, AppendProperties
<1>3. Len(ds) + 1 <= MaxChain
  BY <1>1, BoundAssumption
<1> QED BY <1>1, <1>2, <1>3, DeltaSequences

\* The names the client computes are names, of the state it has in hand.
LEMMA BaseNames ==
    ASSUME NEW t \in Text
    PROVE  BaseName(t) \in Name /\ Content(BaseName(t)) \in Kv
<1>1. << >> \in Deltas
  BY DeltaSequences
<1> QED BY <1>1 DEF BaseName, Name, Content, Kv

\* ... one delta further, unless the chain is full,
LEMMA StepNames ==
    ASSUME NEW h \in Name, NEW d \in DeltaText, Len(h.deltas) < MaxChain
    PROVE  /\ StepName(h, d) \in Name
           /\ Len(StepName(h, d).deltas) = Len(h.deltas) + 1
           /\ Content(StepName(h, d)) = After(Content(h), d)
<1>1. h.deltas \in Deltas /\ h.base \in Text /\ h.folds \subseteq 1..Len(h.deltas)
  BY DEF Name
<1>2. /\ Append(h.deltas, d) \in Deltas
      /\ Len(Append(h.deltas, d)) = Len(h.deltas) + 1
      /\ Len(h.deltas) \in 0..MaxChain
  BY <1>1, LongerDeltas, DeltaSequences
<1>3. h.folds \subseteq 1..Len(Append(h.deltas, d))
  BY <1>1, <1>2
<1>4. h.folds \in SUBSET (1..MaxChain)
  BY DEF Name
<1>5. StepName(h, d) \in Name
  BY <1>1, <1>2, <1>3, <1>4 DEF Name, StepName
<1>6. Content(StepName(h, d)) = After(Content(h), d)
  BY DEF Content, StepName, After
<1> QED BY <1>2, <1>5, <1>6 DEF StepName

\* ... and compacted, where the cache is the same.
LEMMA FoldNames ==
    ASSUME NEW h \in Name, 0 < Len(h.deltas)
    PROVE  /\ FoldName(h) \in Name
           /\ FoldName(h).deltas = h.deltas
           /\ Content(FoldName(h)) = Content(h)
<1>1. h.deltas \in Deltas /\ h.base \in Text /\ h.folds \subseteq 1..Len(h.deltas)
  BY DEF Name
<1>2. Len(h.deltas) \in 1..Len(h.deltas) /\ Len(h.deltas) \in 1..MaxChain
  BY <1>1, DeltaSequences, BoundAssumption
<1> QED BY <1>1, <1>2 DEF FoldName, Name, Content

-----------------------------------------------------------------------------
(* Types *)

\* What the fields o of a client are between and in its operations: the
\* deltas since the last compaction are among those of the hash, and _past
\* has at least those.
FieldsInv(o) ==
    /\ o.hash = None <=> o.past = None
    /\ o.hash = None => o.since = 0
    /\ o.hash # None => /\ o.since <= Len(o.hash.deltas)
                        /\ Len(o.hash.deltas) <= Len(o.past.deltas)

\* The values an operation has in hand at each point, for a client with the
\* fields o.
JobInv(j, o) ==
    /\ j.pc = "idle" => j = Idle
    /\ j.pc # "idle" => j.target \in Name /\ j.snap \in Kv /\ j.op # "none"
    /\ j.op \in {"step", "fold"} =>
          o.hash # None /\ j.snap = o.past
    /\ j.op = "step" =>
          /\ Len(o.hash.deltas) < Len(o.past.deltas)
          /\ \E d \in DeltaText : j.target = StepName(o.hash, d)
    /\ j.op = "fold" =>
          0 < Len(o.hash.deltas) /\ j.target = FoldName(o.hash)
    /\ j.op = "base" => j.snap = Content(j.target)
    /\ j.pc \in {"load", "verify"} => j.op = "step"
    /\ j.op = "base" /\ j.pc \in {"hash", "manifest"} =>
          /\ o.hash = j.target /\ o.past = j.snap
          /\ o.since = 0 /\ ~o.failed
    /\ j.pc = "manifest" => j.seen \in Digest
    /\ j.pc \in {"open", "save", "load", "hash"} => j.seen = None

\* A blob that a handler is going to hash is there.
Opened == {"save", "load", "verify", "hash"}
FilesInv ==
    /\ \A c \in Client :
          job[c].pc \in Opened => blob[job[c].target] # Absent
    /\ \A r \in late : r.digest = None => blob[r.name] # Absent

TypeInv ==
    /\ TypeOK
    /\ \A c \in Client : FieldsInv(own[c]) /\ JobInv(job[c], own[c])
    /\ FilesInv

\* No digest is the absence of one.
LEMMA Digests == Absent \notin Digest /\ None \notin Digest /\ None \notin Name
                 /\ None \notin Kv /\ Torn \in Digest /\ Kv \subseteq Digest
BY ValueAssumption DEF Digest

\* An operation begins with a job to store a state.
LEMMA StoringJobs ==
    ASSUME NEW h \in Name, NEW kv \in Kv, NEW op \in {"base", "step", "fold"}
    PROVE  /\ Storing(op, h, kv) \in Job
           /\ Storing(op, h, kv).pc = "open"
           /\ Storing(op, h, kv).op = op
           /\ Storing(op, h, kv).target = h
           /\ Storing(op, h, kv).snap = kv
           /\ Storing(op, h, kv).seen = None
BY DEF Storing, Idle, Job, Pc

\* A step of one client, to the job j and the fields o, keeps the types if
\* these do and no blob disappears.
LEMMA OneClient ==
    ASSUME TypeInv, NEW c \in Client, NEW j \in Job, NEW o \in Fields,
           FieldsInv(o), JobInv(j, o),
           job' = [job EXCEPT ![c] = j], own' = [own EXCEPT ![c] = o],
           UNCHANGED <<late, errors>>,
           man' \in [Name -> Digest \cup {Absent}],
           blob' \in [Name -> Digest \cup {Absent}],
           \A n \in Name : blob[n] # Absent => blob'[n] # Absent,
           j.pc \in Opened => blob'[j.target] # Absent
    PROVE  TypeInv'
<1>1. TypeOK'
  BY DEF TypeInv, TypeOK
<1>2. \A e \in Client : FieldsInv(own'[e]) /\ JobInv(job'[e], own'[e])
  BY DEF TypeInv, TypeOK
<1>3. FilesInv'
  <2>1. ASSUME NEW e \in Client, job'[e].pc \in Opened
        PROVE  blob'[job'[e].target] # Absent
    <3>1. CASE e = c
      BY <2>1, <3>1 DEF TypeInv, TypeOK
    <3>2. CASE e # c
      <4>1. job'[e] = job[e]
        BY <3>2 DEF TypeInv, TypeOK
      <4>2. job[e].target \in Name /\ blob[job[e].target] # Absent
        BY <2>1, <4>1 DEF TypeInv, FilesInv, JobInv, Opened
      <4> QED BY <4>1, <4>2
    <3> QED BY <3>1, <3>2
  <2>2. ASSUME NEW r \in late', r.digest = None
        PROVE  blob'[r.name] # Absent
    BY <2>2 DEF TypeInv, TypeOK, FilesInv
  <2> QED BY <2>1, <2>2 DEF FilesInv
<1> QED BY <1>1, <1>2, <1>3 DEF TypeInv

\* set_base keeps the types: it begins an operation and touches nothing.
LEMMA SetBaseType ==
    ASSUME TypeInv, NEW c \in Client, NEW t \in Text, SetBase(c, t)
    PROVE  TypeInv'
<1> DEFINE h == BaseName(t)
           j == Storing("base", h, Content(h))
<1>1. h \in Name /\ Content(h) \in Kv
  BY BaseNames
<1>2. /\ j \in Job /\ j.pc = "open" /\ j.op = "base"
      /\ j.target = h /\ j.snap = Content(h) /\ j.seen = None
  BY <1>1, StoringJobs
<1> HIDE DEF j, h
<1>3. /\ job' = [job EXCEPT ![c] = j]
      /\ UNCHANGED <<blob, man, own, late, errors>>
  BY DEF SetBase, j, h
<1>4. /\ own[c] \in Fields /\ FieldsInv(own[c])
      /\ own' = [own EXCEPT ![c] = own[c]]
  BY <1>3 DEF TypeInv, TypeOK
<1>5. JobInv(j, own[c])
  BY <1>1, <1>2 DEF JobInv
<1> QED BY <1>2, <1>3, <1>4, <1>5, OneClient DEF TypeInv, TypeOK, Opened

\* So does step, whose model run replaces _past.
LEMMA StepType ==
    ASSUME TypeInv, NEW c \in Client, NEW d \in DeltaText, Step(c, d)
    PROVE  TypeInv'
<1> DEFINE o == own[c]
           kv == After(o.past, d)
           h == StepName(o.hash, d)
           j == Storing("step", h, kv)
           p == [o EXCEPT !.past = kv]
<1>1. /\ o \in Fields /\ o.past \in Kv /\ o.hash \in Name /\ FieldsInv(o)
      /\ Len(o.past.deltas) < MaxChain
  BY DEF Step, TypeInv, TypeOK, Fields, FieldsInv
<1>2. /\ Len(o.hash.deltas) <= Len(o.past.deltas)
      /\ Len(o.hash.deltas) \in 0..MaxChain /\ Len(o.past.deltas) \in 0..MaxChain
      /\ o.past.deltas \in Deltas /\ o.past.base \in Text
      /\ o.hash # None
  BY <1>1, DeltaSequences, Digests DEF FieldsInv, Name, Kv
<1>3. /\ kv \in Kv
      /\ Len(kv.deltas) = Len(o.past.deltas) + 1
  BY <1>1, <1>2, LongerDeltas DEF Kv, After
<1>4. h \in Name
  BY <1>1, <1>2, StepNames, BoundAssumption
<1>5. /\ j \in Job /\ j.pc = "open" /\ j.op = "step"
      /\ j.target = h /\ j.snap = kv /\ j.seen = None
  BY <1>3, <1>4, StoringJobs
<1>6. /\ p \in Fields /\ p.past = kv /\ p.hash = o.hash
      /\ p.since = o.since /\ p.failed = o.failed
  BY <1>1, <1>3 DEF Fields
<1>7. /\ job' = [job EXCEPT ![c] = j]
      /\ own' = [own EXCEPT ![c] = p]
      /\ UNCHANGED <<blob, man, late, errors>>
  BY DEF Step, TypeInv, TypeOK
<1>8. FieldsInv(p)
  <2>1. kv # None /\ Len(o.hash.deltas) <= Len(kv.deltas)
    BY <1>2, <1>3, Digests
  <2> HIDE DEF p, kv, o
  <2> QED BY <1>1, <1>2, <1>6, <2>1 DEF FieldsInv
<1>9. JobInv(j, p)
  <2>1. Len(o.hash.deltas) < Len(kv.deltas)
    BY <1>2, <1>3
  <2>2. \E x \in DeltaText : h = StepName(o.hash, x)
    OBVIOUS
  <2> HIDE DEF j, p, kv, h, o
  <2> QED BY <1>2, <1>3, <1>4, <1>5, <1>6, <2>1, <2>2 DEF JobInv
<1> HIDE DEF j, p, kv, h, o
<1> QED BY <1>5, <1>6, <1>7, <1>8, <1>9, OneClient DEF TypeInv, TypeOK, Opened

\* What becomes of the file a job holds open is no part of its invariant.
LEMMA FdApart ==
    ASSUME NEW j \in Job, NEW o \in Fields, JobInv(j, o), j.pc # "idle",
           NEW x \in {"none", "sole", "clobbered", "mixed"}
    PROVE  /\ [j EXCEPT !.fd = x] \in Job
           /\ JobInv([j EXCEPT !.fd = x], o)
           /\ [j EXCEPT !.fd = x].pc = j.pc
           /\ [j EXCEPT !.fd = x].target = j.target
<1>1. /\ [j EXCEPT !.fd = x] \in Job
      /\ [j EXCEPT !.fd = x].pc = j.pc
      /\ [j EXCEPT !.fd = x].op = j.op
      /\ [j EXCEPT !.fd = x].target = j.target
      /\ [j EXCEPT !.fd = x].snap = j.snap
      /\ [j EXCEPT !.fd = x].seen = j.seen
  BY DEF Job
<1> QED BY <1>1 DEF JobInv

\* Opening a blob keeps the types, and makes the file exist.
LEMMA OpenType ==
    ASSUME TypeInv, NEW c \in Client, OpenBlob(c)
    PROVE  TypeInv'
<1> DEFINE h == job[c].target
           clash == \E e \in Savers(h) : job[e].snap # job[c].snap
           mine == IF clash THEN "mixed" ELSE "sole"
           theirs == IF clash THEN "mixed" ELSE "clobbered"
           j == [job[c] EXCEPT !.pc = "save", !.fd = mine]
<1>1. /\ job[c] \in Job /\ job[c].pc = "open" /\ h \in Name
      /\ JobInv(job[c], own[c])
      /\ blob \in [Name -> Digest \cup {Absent}]
  BY DEF OpenBlob, TypeInv, TypeOK, JobInv
<1>2. /\ blob' = [blob EXCEPT ![h] = Torn]
      /\ UNCHANGED <<man, own, late, errors>>
      /\ \A e \in Client :
            job'[e] = IF e = c THEN j
                      ELSE IF e \in Savers(h)
                           THEN [job[e] EXCEPT !.fd = theirs] ELSE job[e]
      /\ job' = [e \in Client |-> job'[e]]
  BY DEF OpenBlob
<1>3. /\ j \in Job /\ j.pc = "save" /\ j.op = job[c].op
      /\ j.target = h /\ j.snap = job[c].snap /\ j.seen = job[c].seen
  BY <1>1 DEF Job, Pc
<1>4. JobInv(j, own[c])
  <2> HIDE DEF j, h
  <2> QED BY <1>1, <1>3 DEF JobInv, h
<1>5. ASSUME NEW e \in Client
      PROVE  /\ job'[e] \in Job /\ JobInv(job'[e], own[e])
             /\ e # c => job'[e].pc = job[e].pc /\ job'[e].target = job[e].target
  <2>1. CASE e = c
    BY <1>2, <1>3, <1>4, <2>1
  <2>2. CASE e # c /\ e \in Savers(h)
    <3>1. /\ job[e] \in Job /\ own[e] \in Fields
          /\ JobInv(job[e], own[e]) /\ job[e].pc # "idle"
      BY <2>2 DEF TypeInv, TypeOK, Savers
    <3>2. theirs \in {"none", "sole", "clobbered", "mixed"}
      OBVIOUS
    <3>3. job'[e] = [job[e] EXCEPT !.fd = theirs]
      BY <1>2, <2>2
    <3> HIDE DEF theirs
    <3>4. /\ [job[e] EXCEPT !.fd = theirs] \in Job
          /\ JobInv([job[e] EXCEPT !.fd = theirs], own[e])
          /\ [job[e] EXCEPT !.fd = theirs].pc = job[e].pc
          /\ [job[e] EXCEPT !.fd = theirs].target = job[e].target
      BY <3>1, <3>2, FdApart
    <3> QED BY <2>2, <3>3, <3>4
  <2>3. CASE e # c /\ e \notin Savers(h)
    BY <1>2, <2>3 DEF TypeInv, TypeOK
  <2> QED BY <2>1, <2>2, <2>3
<1> HIDE DEF j, mine, theirs, clash
<1>6. TypeOK'
  BY <1>1, <1>2, <1>5, Digests DEF TypeInv, TypeOK
<1>7. \A n \in Name : blob[n] # Absent => blob'[n] # Absent
  BY <1>1, <1>2, ValueAssumption
<1>8. blob'[h] # Absent
  BY <1>1, <1>2, ValueAssumption
<1>9. FilesInv'
  <2>1. ASSUME NEW e \in Client, job'[e].pc \in Opened
        PROVE  blob'[job'[e].target] # Absent
    <3>1. CASE e = c
      BY <1>2, <1>3, <1>8, <3>1
    <3>2. CASE e # c
      <4>1. job[e].target \in Name /\ blob[job[e].target] # Absent
        BY <1>5, <2>1, <3>2 DEF TypeInv, FilesInv, JobInv, Opened
      <4> QED BY <1>5, <1>7, <3>2, <4>1
    <3> QED BY <3>1, <3>2
  <2>2. ASSUME NEW r \in late', r.digest = None
        PROVE  blob'[r.name] # Absent
    BY <1>2, <1>7, <2>2 DEF TypeInv, TypeOK, FilesInv
  <2> QED BY <2>1, <2>2 DEF FilesInv
<1>10. \A e \in Client : FieldsInv(own'[e]) /\ JobInv(job'[e], own'[e])
  BY <1>2, <1>5 DEF TypeInv
<1> QED BY <1>6, <1>9, <1>10 DEF TypeInv

\* The last byte of a blob, after which set_base assigns the fields.
LEMMA SaveType ==
    ASSUME TypeInv, NEW c \in Client, SaveBlob(c)
    PROVE  TypeInv'
<1> DEFINE h == job[c].target
           j == [job[c] EXCEPT
                   !.pc = IF job[c].op = "step" THEN "load" ELSE "hash",
                   !.fd = "none"]
           o == IF job[c].op # "base" THEN own[c]
                ELSE [hash |-> h, past |-> job[c].snap,
                      since |-> 0, failed |-> FALSE]
<1>1. /\ job[c] \in Job /\ job[c].pc = "save" /\ h \in Name
      /\ job[c].snap \in Kv /\ own[c] \in Fields
      /\ JobInv(job[c], own[c]) /\ FieldsInv(own[c])
      /\ blob \in [Name -> Digest \cup {Absent}]
      /\ blob[h] # Absent
  BY DEF SaveBlob, TypeInv, TypeOK, JobInv, FilesInv, Opened
<1>2. PICK b \in Saved(c) : blob' = [blob EXCEPT ![h] = b]
  BY DEF SaveBlob
<1>3. /\ UNCHANGED <<man, late, errors>>
      /\ job' = [job EXCEPT ![c] = j]
      /\ own' = [own EXCEPT ![c] = o]
  BY DEF SaveBlob, TypeInv, TypeOK
<1>4. b \in Digest
  BY <1>1, <1>2, Digests DEF Saved
<1>5. /\ j \in Job /\ j.pc = (IF job[c].op = "step" THEN "load" ELSE "hash")
      /\ j.op = job[c].op /\ j.target = h /\ j.snap = job[c].snap
      /\ j.seen = job[c].seen
  BY <1>1 DEF Job, Pc
<1>6. o \in Fields /\ FieldsInv(o)
  <2>1. CASE job[c].op # "base"
    BY <1>1, <2>1
  <2>2. CASE job[c].op = "base"
    <3>1. o = [hash |-> h, past |-> job[c].snap, since |-> 0, failed |-> FALSE]
      BY <2>2
    <3>2. o \in Fields
      BY <1>1, <3>1, BoundAssumption DEF Fields
    <3>3. h # None /\ job[c].snap # None
      BY <1>1, Digests
    <3>4. 0 <= Len(h.deltas) /\ Len(h.deltas) <= Len(job[c].snap.deltas)
      <4>1. h.deltas \in Deltas /\ job[c].snap.deltas = h.deltas
        BY <1>1, <2>2 DEF JobInv, Name, Content
      <4>2. Len(h.deltas) \in 0..MaxChain
        BY <4>1, DeltaSequences
      <4> QED BY <4>1, <4>2, BoundAssumption
    <3> QED BY <3>1, <3>2, <3>3, <3>4 DEF FieldsInv
  <2> QED BY <2>1, <2>2
<1>7. /\ job[c].op = "base" => /\ o.hash = h /\ o.past = job[c].snap
                               /\ o.since = 0 /\ ~o.failed
      /\ job[c].op # "base" => o = own[c]
  OBVIOUS
<1>8. JobInv(j, o)
  <2> HIDE DEF j, o, h
  <2> QED BY <1>1, <1>5, <1>7 DEF JobInv, h
<1>9. /\ blob' \in [Name -> Digest \cup {Absent}]
      /\ \A n \in Name : blob[n] # Absent => blob'[n] # Absent
      /\ blob'[h] # Absent
  BY <1>1, <1>2, <1>4, Digests
<1>10. man' \in [Name -> Digest \cup {Absent}]
  BY <1>3 DEF TypeInv, TypeOK
<1> HIDE DEF j, o, h
<1> QED BY <1>3, <1>5, <1>6, <1>8, <1>9, <1>10, OneClient DEF Opened

\* The two halves of infer.
LEMMA InferType ==
    ASSUME TypeInv, NEW c \in Client, InferLoad(c) \/ InferVerify(c)
    PROVE  TypeInv'
<1>1. /\ job[c] \in Job /\ own[c] \in Fields
      /\ JobInv(job[c], own[c]) /\ FieldsInv(own[c])
      /\ own' = [own EXCEPT ![c] = own[c]]
      /\ UNCHANGED <<blob, man, late, errors>>
  BY DEF InferLoad, InferVerify, TypeInv, TypeOK
<1>2. /\ blob' \in [Name -> Digest \cup {Absent}]
      /\ man' \in [Name -> Digest \cup {Absent}]
  BY <1>1 DEF TypeInv, TypeOK
<1>3. own[c].hash \in Name /\ job[c].target \in Name
  BY <1>1 DEF InferLoad, InferVerify, JobInv, Fields
<1>4. CASE InferLoad(c)
  <2> DEFINE j == [job[c] EXCEPT !.pc = "verify", !.seen = man[own[c].hash]]
  <2>1. man[own[c].hash] \in Digest /\ job[c].pc = "load"
    BY <1>4 DEF InferLoad
  <2>2. /\ j \in Job /\ j.pc = "verify" /\ j.op = job[c].op
        /\ j.target = job[c].target /\ j.snap = job[c].snap
    BY <1>1, <2>1 DEF Job, Pc
  <2>3. job' = [job EXCEPT ![c] = j]
    BY <1>4 DEF InferLoad, TypeInv, TypeOK
  <2> HIDE DEF j
  <2>4. JobInv(j, own[c])
    BY <1>1, <2>1, <2>2 DEF JobInv
  <2>5. blob[job[c].target] # Absent
    BY <2>1 DEF TypeInv, FilesInv, Opened
  <2> QED BY <1>1, <1>2, <2>2, <2>3, <2>4, <2>5, OneClient
<1>5. CASE InferVerify(c)
  <2> DEFINE j == [job[c] EXCEPT !.pc = "hash", !.seen = None]
  <2>1. job[c].pc = "verify"
    BY <1>5 DEF InferVerify
  <2>2. /\ j \in Job /\ j.pc = "hash" /\ j.op = job[c].op /\ j.seen = None
        /\ j.target = job[c].target /\ j.snap = job[c].snap
    BY <1>1, <2>1 DEF Job, Pc
  <2>3. job' = [job EXCEPT ![c] = j]
    BY <1>5 DEF InferVerify, TypeInv, TypeOK
  <2> HIDE DEF j
  <2>4. JobInv(j, own[c])
    BY <1>1, <2>1, <2>2 DEF JobInv
  <2>5. blob[job[c].target] # Absent
    BY <2>1 DEF TypeInv, FilesInv, Opened
  <2> QED BY <1>1, <1>2, <2>2, <2>3, <2>4, <2>5, OneClient
<1> QED BY <1>4, <1>5

\* The two halves of register and compact; the second also is the end of the
\* client's operation, and for a step it may be the beginning of a
\* compaction.
LEMMA HashType ==
    ASSUME TypeInv, NEW c \in Client, HashBlob(c)
    PROVE  TypeInv'
<1> DEFINE j == [job[c] EXCEPT !.pc = "manifest", !.seen = blob[job[c].target]]
<1>1. /\ job[c] \in Job /\ own[c] \in Fields /\ job[c].pc = "hash"
      /\ JobInv(job[c], own[c]) /\ FieldsInv(own[c])
      /\ own' = [own EXCEPT ![c] = own[c]]
      /\ UNCHANGED <<blob, man, late, errors>>
      /\ blob \in [Name -> Digest \cup {Absent}]
      /\ man \in [Name -> Digest \cup {Absent}]
  BY DEF HashBlob, TypeInv, TypeOK
<1>2. job[c].target \in Name /\ blob[job[c].target] \in Digest
  BY <1>1 DEF JobInv, TypeInv, FilesInv, Opened
<1>3. /\ j \in Job /\ j.pc = "manifest" /\ j.op = job[c].op
      /\ j.seen = blob[job[c].target]
      /\ j.target = job[c].target /\ j.snap = job[c].snap
  BY <1>1, <1>2 DEF Job, Pc
<1>4. job' = [job EXCEPT ![c] = j]
  BY DEF HashBlob, TypeInv, TypeOK
<1> HIDE DEF j
<1>5. JobInv(j, own[c])
  BY <1>1, <1>2, <1>3 DEF JobInv
<1> QED BY <1>1, <1>3, <1>4, <1>5, OneClient DEF Opened

\* What a client has when its operation is done: the fields it adopts, and
\* perhaps the job to compact them.
LEMMA AdoptType ==
    ASSUME TypeInv, NEW c \in Client, job[c].pc = "manifest",
           NEW o, o = Adopted(own[c], job[c].op, job[c].target)
    PROVE  /\ o \in Fields /\ FieldsInv(o)
           /\ Continue(c, o) \in Job
           /\ JobInv(Continue(c, o), o)
           /\ Continue(c, o).pc \in {"idle", "open"}
<1> DEFINE f == own[c]
           h == job[c].target
<1>1. /\ job[c] \in Job /\ f \in Fields /\ h \in Name
      /\ JobInv(job[c], f) /\ FieldsInv(f)
      /\ job[c].op \in {"base", "step", "fold"}
  BY DEF TypeInv, TypeOK, JobInv, Job
<1>2. Idle \in Job /\ Idle.pc = "idle" /\ Idle.op = "none"
  BY DEF Idle, Job, Pc
<1>3. \A x \in Fields : JobInv(Idle, x)
  BY <1>2 DEF JobInv
<1>4. CASE job[c].op = "base"
  <2>1. o = f /\ Continue(c, o) = Idle
    BY <1>4 DEF Adopted, Continue
  <2> QED BY <1>1, <1>2, <1>3, <2>1
<1>5. CASE job[c].op = "step"
  <2>1. /\ o = [f EXCEPT !.hash = h, !.since = @ + 1]
        /\ Continue(c, o) \in {Storing("fold", FoldName(o.hash), o.past), Idle}
    BY <1>5 DEF Adopted, Continue
  <2>2. PICK d \in DeltaText : h = StepName(f.hash, d)
    BY <1>1, <1>5 DEF JobInv
  <2>3. /\ f.hash \in Name /\ f.past \in Kv
        /\ Len(f.hash.deltas) < Len(f.past.deltas)
        /\ f.since <= Len(f.hash.deltas)
        /\ f.since \in 0..MaxChain
    BY <1>1, <1>5, Digests DEF JobInv, FieldsInv, Fields
  <2>4. /\ Len(f.hash.deltas) \in 0..MaxChain
        /\ Len(f.past.deltas) \in 0..MaxChain
    BY <2>3, DeltaSequences DEF Name, Kv
  <2>5. Len(h.deltas) = Len(f.hash.deltas) + 1
    <3>1. Len(f.hash.deltas) < MaxChain
      BY <2>3, <2>4, Bounds
    <3> QED BY <2>2, <2>3, <3>1, StepNames
  <2>6. f.since + 1 \in 0..MaxChain
    BY <2>3, <2>4, Bounds
  <2>7. /\ o \in Fields /\ o.hash = h /\ o.past = f.past
        /\ o.since = f.since + 1
    BY <1>1, <2>1, <2>6 DEF Fields
  <2>8. FieldsInv(o)
    <3>1. o.hash # None /\ o.past # None
      BY <1>1, <2>3, <2>7, Digests
    <3>2. o.since <= Len(o.hash.deltas) /\ Len(o.hash.deltas) <= Len(o.past.deltas)
      BY <2>3, <2>4, <2>5, <2>7
    <3> QED BY <3>1, <3>2 DEF FieldsInv
  <2>9. 0 < Len(o.hash.deltas)
    BY <2>4, <2>5, <2>7
  <2> DEFINE j == Storing("fold", FoldName(o.hash), o.past)
  <2>10. /\ j \in Job /\ j.pc = "open" /\ j.op = "fold" /\ j.seen = None
         /\ j.target = FoldName(o.hash) /\ j.snap = o.past
         /\ FoldName(o.hash) \in Name
    BY <1>1, <2>3, <2>7, <2>9, FoldNames, StoringJobs
  <2> HIDE DEF j
  <2>11. JobInv(j, o)
    BY <1>1, <2>3, <2>7, <2>9, <2>10, Digests DEF JobInv
  <2> QED BY <1>2, <1>3, <2>1, <2>7, <2>8, <2>10, <2>11 DEF j
<1>6. CASE job[c].op = "fold"
  <2>1. /\ o = [f EXCEPT !.hash = h, !.since = 0]
        /\ Continue(c, o) = Idle
    BY <1>6 DEF Adopted, Continue
  <2>2. /\ f.hash \in Name /\ f.past \in Kv /\ h = FoldName(f.hash)
        /\ 0 < Len(f.hash.deltas)
        /\ Len(f.hash.deltas) <= Len(f.past.deltas)
    BY <1>1, <1>6, Digests DEF JobInv, FieldsInv, Fields
  <2>3. h.deltas = f.hash.deltas
    BY <2>2, FoldNames
  <2>4. /\ o \in Fields /\ o.hash = h /\ o.past = f.past /\ o.since = 0
    BY <1>1, <2>1, Bounds DEF Fields
  <2>5. Len(h.deltas) \in 0..MaxChain
    BY <1>1, DeltaSequences DEF Name
  <2>6. FieldsInv(o)
    BY <1>1, <2>2, <2>3, <2>4, <2>5, Digests DEF FieldsInv
  <2> QED BY <1>2, <1>3, <2>1, <2>4, <2>6
<1> QED BY <1>1, <1>4, <1>5, <1>6

\* The manifest is written, and the client goes on with what it has adopted.
LEMMA ManifestType ==
    ASSUME TypeInv, NEW c \in Client, WriteManifest(c)
    PROVE  TypeInv'
<1> DEFINE o == Adopted(own[c], job[c].op, job[c].target)
           j == Continue(c, o)
<1>1. /\ job[c].pc = "manifest"
      /\ man' = [man EXCEPT ![job[c].target] = job[c].seen]
      /\ own' = [own EXCEPT ![c] = o]
      /\ job' = [job EXCEPT ![c] = j]
      /\ UNCHANGED <<blob, late, errors>>
  BY DEF WriteManifest
<1>2. /\ o \in Fields /\ FieldsInv(o) /\ j \in Job /\ JobInv(j, o)
      /\ j.pc \in {"idle", "open"}
  BY <1>1, AdoptType
<1>3. job[c].seen \in Digest /\ job[c].target \in Name
  BY <1>1 DEF TypeInv, JobInv
<1>4. /\ man' \in [Name -> Digest \cup {Absent}]
      /\ blob' \in [Name -> Digest \cup {Absent}]
  BY <1>1, <1>3 DEF TypeInv, TypeOK
<1> HIDE DEF o, j
<1> QED BY <1>1, <1>2, <1>4, OneClient DEF Opened

\* An error the server answers.
LEMMA RefusedType ==
    ASSUME TypeInv, NEW c \in Client, Refused(c)
    PROVE  TypeInv'
<1> DEFINE o == [own[c] EXCEPT !.failed = TRUE]
<1>1. /\ own' = [own EXCEPT ![c] = o] /\ job' = [job EXCEPT ![c] = Idle]
      /\ UNCHANGED <<blob, man, late, errors>>
  BY DEF Refused, TypeInv, TypeOK
<1>2. /\ own[c] \in Fields /\ FieldsInv(own[c])
      /\ blob' \in [Name -> Digest \cup {Absent}]
      /\ man' \in [Name -> Digest \cup {Absent}]
  BY <1>1 DEF TypeInv, TypeOK
<1>3. /\ o \in Fields /\ o.hash = own[c].hash /\ o.past = own[c].past
      /\ o.since = own[c].since
  BY <1>2 DEF Fields
<1> HIDE DEF o
<1>4. FieldsInv(o)
  BY <1>2, <1>3 DEF FieldsInv
<1>5. /\ Idle \in Job /\ Idle.pc = "idle" /\ Idle.op = "none"
      /\ JobInv(Idle, o)
  BY DEF Idle, Job, Pc, JobInv
<1> QED BY <1>1, <1>2, <1>3, <1>4, <1>5, OneClient DEF Opened

\* Leaving an operation: the client's fields may be replaced by o, and the
\* handler it leaves behind has a digest or the file it is going to hash.
LEMMA LeaveType ==
    ASSUME TypeInv, NEW c \in Client, Leave(c), NEW o \in Fields,
           FieldsInv(o), own' = [own EXCEPT ![c] = o]
    PROVE  TypeInv'
<1> DEFINE hole(e) == /\ e \in Savers(job[c].target)
                      /\ job[c].fd = "sole" /\ job[e].fd = "clobbered"
<1>1. /\ job' = [e \in Client |->
                   IF e = c THEN Idle
                   ELSE IF hole(e) THEN [job[e] EXCEPT !.fd = "mixed"]
                        ELSE job[e]]
  BY DEF Leave
<1>9. /\ late' = late \cup Left(c)
      /\ errors < MaxErrors /\ errors' = errors + 1
      /\ UNCHANGED <<blob, man>>
  BY DEF Leave
<1>2. Idle \in Job /\ Idle.pc = "idle" /\ JobInv(Idle, o)
  BY DEF Idle, Job, Pc, JobInv
<1>3. ASSUME NEW e \in Client
      PROVE  /\ job'[e] \in Job /\ JobInv(job'[e], own'[e])
             /\ FieldsInv(own'[e])
             /\ \/ job'[e].pc = "idle"
                \/ job'[e].pc = job[e].pc /\ job'[e].target = job[e].target
  <2>0. /\ job[e] \in Job /\ own[e] \in Fields
        /\ JobInv(job[e], own[e]) /\ FieldsInv(own[e])
        /\ e # c => own'[e] = own[e]
        /\ e = c => own'[e] = o
    BY DEF TypeInv, TypeOK
  <2>1. CASE e = c
    BY <1>1, <1>2, <2>0, <2>1
  <2>2. CASE e # c /\ hole(e)
    <3>1. job[e].pc # "idle"
      BY <2>2 DEF Savers
    <3>2. job'[e] = [job[e] EXCEPT !.fd = "mixed"]
      BY <1>1, <2>2
    <3>3. /\ [job[e] EXCEPT !.fd = "mixed"] \in Job
          /\ JobInv([job[e] EXCEPT !.fd = "mixed"], own[e])
          /\ [job[e] EXCEPT !.fd = "mixed"].pc = job[e].pc
          /\ [job[e] EXCEPT !.fd = "mixed"].target = job[e].target
      BY <2>0, <3>1, FdApart
    <3> QED BY <2>0, <2>2, <3>2, <3>3
  <2>3. CASE e # c /\ ~hole(e)
    BY <1>1, <2>0, <2>3
  <2> QED BY <2>1, <2>2, <2>3
<1>4. ASSUME NEW r \in Left(c)
      PROVE  /\ r \in [name : Name, digest : Digest \cup {None}]
             /\ r.digest = None => blob[r.name] # Absent
  <2>1. CASE job[c].pc = "hash"
    <3>1. job[c].target \in Name /\ job[c].seen = None
      BY <2>1 DEF TypeInv, JobInv
    <3>2. blob[job[c].target] # Absent
      BY <2>1 DEF TypeInv, FilesInv, Opened
    <3> QED BY <3>1, <3>2 DEF Left
  <2>2. CASE job[c].pc = "manifest"
    <3>1. job[c].target \in Name /\ job[c].seen \in Digest
      BY <2>2 DEF TypeInv, JobInv
    <3> QED BY <3>1, Digests DEF Left
  <2>3. CASE job[c].pc \notin {"hash", "manifest"}
    BY <2>3 DEF Left
  <2> QED BY <2>1, <2>2, <2>3
<1>5. job' \in [Client -> Job]
  BY <1>1, <1>3
<1>6. errors' \in 0..MaxErrors
  BY <1>9, Bounds DEF TypeInv, TypeOK
<1>10. late' \subseteq [name : Name, digest : Digest \cup {None}]
  <2> DEFINE Handlers == [name : Name, digest : Digest \cup {None}]
  <2>1. late \subseteq Handlers
    BY DEF TypeInv, TypeOK
  <2>2. Left(c) \subseteq Handlers
    BY <1>4
  <2> HIDE DEF Handlers
  <2>3. late' \subseteq Handlers
    BY <1>9, <2>1, <2>2
  <2> QED BY <2>3 DEF Handlers
<1>7. TypeOK'
  BY <1>5, <1>6, <1>9, <1>10 DEF TypeInv, TypeOK
<1>8. FilesInv'
  <2>1. ASSUME NEW e \in Client, job'[e].pc \in Opened
        PROVE  blob'[job'[e].target] # Absent
    BY <1>3, <1>9, <2>1 DEF TypeInv, FilesInv, Opened
  <2>2. ASSUME NEW r \in late', r.digest = None
        PROVE  blob'[r.name] # Absent
    <3>1. r \in late \/ r \in Left(c)
      BY <1>9
    <3>2. CASE r \in late
      BY <1>9, <2>2, <3>2 DEF TypeInv, FilesInv
    <3>3. CASE r \in Left(c)
      BY <1>4, <1>9, <2>2, <3>3
    <3> QED BY <3>1, <3>2, <3>3
  <2> QED BY <2>1, <2>2 DEF FilesInv
<1> QED BY <1>3, <1>7, <1>8 DEF TypeInv

\* An exception, or the end of the process.
LEMMA BreakType ==
    ASSUME TypeInv, NEW c \in Client, Fail(c) \/ Kill(c)
    PROVE  TypeInv'
<1>1. own[c] \in Fields /\ FieldsInv(own[c]) /\ own \in [Client -> Fields]
  BY DEF TypeInv, TypeOK
<1>2. CASE Fail(c)
  <2> DEFINE o == [own[c] EXCEPT !.failed = @ \/ job[c].op = "step"]
  <2>1. own' = [own EXCEPT ![c] = o] /\ Leave(c)
    BY <1>2 DEF Fail
  <2>2. /\ o \in Fields /\ o.hash = own[c].hash /\ o.past = own[c].past
        /\ o.since = own[c].since
    <3>1. (own[c].failed \/ job[c].op = "step") \in BOOLEAN
      OBVIOUS
    <3> QED BY <1>1, <3>1 DEF Fields
  <2> HIDE DEF o
  <2>3. FieldsInv(o)
    BY <1>1, <2>2 DEF FieldsInv
  <2> QED BY <2>1, <2>2, <2>3, LeaveType
<1>3. CASE Kill(c)
  <2>1. own' = [own EXCEPT ![c] = NoState] /\ Leave(c)
    BY <1>3 DEF Kill
  <2>2. NoState \in Fields /\ FieldsInv(NoState)
    BY Bounds DEF NoState, Fields, FieldsInv
  <2> QED BY <2>1, <2>2, LeaveType
<1> QED BY <1>2, <1>3

\* The handlers that go on by themselves.
LEMMA LateType ==
    ASSUME TypeInv, NEW r \in late, LateHash(r) \/ LateManifest(r)
    PROVE  TypeInv'
<1>1. /\ r \in [name : Name, digest : Digest \cup {None}]
      /\ UNCHANGED <<blob, own, job, errors>>
      /\ blob \in [Name -> Digest \cup {Absent}]
      /\ man \in [Name -> Digest \cup {Absent}]
  BY DEF TypeInv, TypeOK, LateHash, LateManifest
<1>2. CASE LateHash(r)
  <2> DEFINE q == [r EXCEPT !.digest = blob[r.name]]
  <2>1. blob[r.name] \in Digest
    BY <1>1, <1>2 DEF LateHash, TypeInv, FilesInv
  <2>2. /\ q \in [name : Name, digest : Digest \cup {None}]
        /\ q.digest # None
    BY <1>1, <2>1, Digests
  <2>3. late' = (late \ {r}) \cup {q} /\ man' = man
    BY <1>2 DEF LateHash
  <2> HIDE DEF q
  <2>4. TypeOK' /\ FilesInv'
    BY <1>1, <2>2, <2>3 DEF TypeInv, TypeOK, FilesInv
  <2> QED BY <1>1, <2>4 DEF TypeInv
<1>3. CASE LateManifest(r)
  <2>1. /\ r.name \in Name /\ r.digest \in Digest
        /\ late' = late \ {r}
        /\ \E m \in {r.digest, Absent} : man' = [man EXCEPT ![r.name] = m]
    BY <1>1, <1>3 DEF LateManifest
  <2>2. TypeOK' /\ FilesInv'
    BY <1>1, <2>1 DEF TypeInv, TypeOK, FilesInv
  <2> QED BY <1>1, <2>2 DEF TypeInv
<1> QED BY <1>2, <1>3

\* Whatever clients and handlers do, in any order and with any of them broken
\* off at any point, every file, field and operation keeps its type
\* (server.rs and stateless_client.py, every operation).
LEMMA TypeInvariance == Spec => []TypeInv
<1>1. Init => TypeInv
  <2> SUFFICES ASSUME Init PROVE TypeInv
    OBVIOUS
  <2>1. NoState \in Fields /\ FieldsInv(NoState)
    BY Bounds DEF NoState, Fields, FieldsInv
  <2>2. Idle \in Job /\ Idle.pc = "idle" /\ JobInv(Idle, NoState)
    BY DEF Idle, Job, Pc, JobInv
  <2>3. TypeOK
    BY <2>1, <2>2, Bounds DEF Init, TypeOK
  <2>4. FilesInv
    BY <2>2 DEF Init, FilesInv, Opened
  <2> QED BY <2>1, <2>2, <2>3, <2>4 DEF Init, TypeInv
<1>2. TypeInv /\ [Next]_vars => TypeInv'
  <2> SUFFICES ASSUME TypeInv, [Next]_vars PROVE TypeInv'
    OBVIOUS
  <2>1. CASE Next
    BY <2>1, SetBaseType, StepType, OpenType, SaveType, InferType, HashType,
       ManifestType, RefusedType, BreakType, LateType DEF Next
  <2>2. CASE UNCHANGED vars
    BY <2>2 DEF vars, TypeInv, TypeOK, FilesInv
  <2> QED BY <2>1, <2>2
<1> QED BY <1>1, <1>2, PTL DEF Spec

\* Every value stays within its type.
THEOREM ProtocolTypeCorrect == Spec => []TypeOK
<1>1. TypeInv => TypeOK
  BY DEF TypeInv
<1> QED BY <1>1, TypeInvariance, PTL

-----------------------------------------------------------------------------
(* What hashes stand for *)

\* The tensors in hand are those of the state on its way, and the fields of a
\* client agree unless a step has failed, or is between replacing _past and
\* replacing _state_hash.
NameInv(j, o) ==
    /\ j.pc # "idle" => j.snap = Content(j.target)
    /\ o.failed => j.op \in {"none", "base"}
    /\ o.hash # None /\ ~o.failed /\ j.op # "step" =>
          o.past = Content(o.hash)

\* So do the digests on their way into a manifest.
SeenInv ==
    /\ \A c \in Client :
          job[c].pc = "manifest" /\ job[c].seen \in Kv =>
              job[c].seen = Content(job[c].target)
    /\ \A r \in late : r.digest \in Kv => r.digest = Content(r.name)

NamesInv ==
    /\ \A c \in Client : NameInv(job[c], own[c])
    /\ SeenInv
    /\ SameHashSameState

\* The client's part, for the operations that only change its own.
LEMMA OwnNames ==
    ASSUME ~Retry, TypeInv, NamesInv, NEW c \in Client, TypeInv',
           \/ \E t \in Text : SetBase(c, t)
           \/ \E d \in DeltaText : Step(c, d)
    PROVE  NamesInv'
<1>1. /\ own[c] \in Fields /\ job[c] = Idle /\ job[c].op = "none"
      /\ NameInv(job[c], own[c])
      /\ UNCHANGED <<blob, man, late>>
  BY DEF SetBase, Step, TypeInv, TypeOK, NamesInv, Idle
<1>2. ASSUME NEW t \in Text, SetBase(c, t)
      PROVE  NamesInv'
  <2> DEFINE j == Storing("base", BaseName(t), Content(BaseName(t)))
  <2>1. /\ j.pc = "open" /\ j.op = "base"
        /\ j.target = BaseName(t) /\ j.snap = Content(BaseName(t))
    BY BaseNames, StoringJobs
  <2>2. job' = [job EXCEPT ![c] = j] /\ own' = own
    BY <1>2 DEF SetBase
  <2> HIDE DEF j
  <2>3. NameInv(j, own[c])
    BY <1>1, <2>1 DEF NameInv
  <2>4. SeenInv'
    BY <1>1, <2>1, <2>2 DEF NamesInv, SeenInv, TypeInv, TypeOK
  <2>5. SameHashSameState'
    BY <1>1 DEF NamesInv, SameHashSameState
  <2>6. \A e \in Client : NameInv(job'[e], own'[e])
    BY <2>2, <2>3 DEF NamesInv, TypeInv, TypeOK
  <2> QED BY <2>4, <2>5, <2>6 DEF NamesInv
<1>3. ASSUME NEW d \in DeltaText, Step(c, d)
      PROVE  NamesInv'
  <2> DEFINE kv == After(own[c].past, d)
             h == StepName(own[c].hash, d)
             j == Storing("step", h, kv)
             o == [own[c] EXCEPT !.past = kv]
  <2>1. /\ job' = [job EXCEPT ![c] = j]
        /\ own' = [own EXCEPT ![c] = o]
        /\ own[c].past # None /\ ~own[c].failed
    BY <1>3 DEF Step, TypeInv, TypeOK
  <2>2. own[c].hash # None /\ FieldsInv(own[c])
    BY <2>1 DEF TypeInv, FieldsInv
  <2>3. own[c].past = Content(own[c].hash)
    BY <1>1, <2>1, <2>2 DEF NameInv
  <2>4. kv = Content(h)
    BY <2>3 DEF Content, StepName, After
  <2>5. /\ j.pc = "open" /\ j.op = "step" /\ j.target = h /\ j.snap = kv
    BY DEF Storing, Idle
  <2>6. o.failed = own[c].failed
    BY <1>1 DEF Fields
  <2> HIDE DEF j, o, h, kv
  <2>7. NameInv(j, o)
    BY <2>1, <2>4, <2>5, <2>6 DEF NameInv
  <2>8. SeenInv'
    BY <1>1, <2>1, <2>5 DEF NamesInv, SeenInv, TypeInv, TypeOK
  <2>9. SameHashSameState'
    BY <1>1 DEF NamesInv, SameHashSameState
  <2>10. \A e \in Client : NameInv(job'[e], own'[e])
    BY <2>1, <2>7 DEF NamesInv, TypeInv, TypeOK
  <2> QED BY <2>8, <2>9, <2>10 DEF NamesInv
<1> QED BY <1>2, <1>3

\* Neither the phase after idle nor the file held open matter to the names.
LEMMA NamePhase ==
    ASSUME NEW j, NEW k, NEW o, NameInv(j, o), j.pc # "idle",
           k.op = j.op, k.target = j.target, k.snap = j.snap
    PROVE  NameInv(k, o)
BY DEF NameInv

\* Writing a blob: torn while it is written, and then what some writer of
\* the same state had in hand.
LEMMA BlobNames ==
    ASSUME TypeInv, NamesInv, NEW c \in Client, OpenBlob(c) \/ SaveBlob(c)
    PROVE  NamesInv'
<1>1. /\ job[c] \in Job /\ own[c] \in Fields
      /\ NameInv(job[c], own[c]) /\ JobInv(job[c], own[c])
      /\ job[c].pc \in {"open", "save"}
      /\ job[c].target \in Name
      /\ job[c].snap = Content(job[c].target)
      /\ blob \in [Name -> Digest \cup {Absent}]
      /\ UNCHANGED <<man, late>>
  BY DEF OpenBlob, SaveBlob, TypeInv, TypeOK, NamesInv, NameInv, JobInv
<1>2. \E b : /\ blob' = [blob EXCEPT ![job[c].target] = b]
             /\ b \in Kv => b = Content(job[c].target)
  <2>1. CASE OpenBlob(c)
    BY <2>1, ValueAssumption DEF OpenBlob
  <2>2. CASE SaveBlob(c)
    <3>1. PICK b \in Saved(c) : blob' = [blob EXCEPT ![job[c].target] = b]
      BY <2>2 DEF SaveBlob
    <3>2. b \in {job[c].snap, Torn, blob[job[c].target]}
      BY <3>1 DEF Saved
    <3>3. blob[job[c].target] \in Kv =>
              blob[job[c].target] = Content(job[c].target)
      BY <1>1 DEF NamesInv, SameHashSameState
    <3> QED BY <1>1, <3>1, <3>2, <3>3, ValueAssumption
  <2> QED BY <2>1, <2>2
<1>3. SameHashSameState'
  BY <1>1, <1>2 DEF NamesInv, SameHashSameState
<1>4. ASSUME NEW e \in Client
      PROVE  /\ NameInv(job'[e], own'[e])
             /\ job'[e].pc = "manifest" => job'[e] = job[e]
  <2>1. /\ NameInv(job[e], own[e]) /\ job[e] \in Job
        /\ job \in [Client -> Job] /\ own \in [Client -> Fields]
    BY DEF NamesInv, TypeInv, TypeOK
  <2>2. CASE OpenBlob(c)
    <3>1. /\ own' = own
          /\ job'[e].op = job[e].op /\ job'[e].target = job[e].target
          /\ job'[e].snap = job[e].snap
          /\ \/ job'[e] = job[e]
             \/ job[e].pc # "idle" /\ job'[e].pc = "save"
      BY <1>1, <2>1, <2>2 DEF OpenBlob, Savers, Job
    <3> QED BY <2>1, <3>1, NamePhase
  <2>3. CASE SaveBlob(c) /\ e # c
    BY <2>1, <2>3 DEF SaveBlob
  <2>4. CASE SaveBlob(c) /\ e = c
    <3>1. /\ job'[c].op = job[c].op /\ job'[c].target = job[c].target
          /\ job'[c].snap = job[c].snap
          /\ job'[c].pc \in {"load", "hash"}
      BY <1>1, <2>1, <2>4 DEF SaveBlob, Job
    <3>2. CASE job[c].op # "base"
      <4>1. own' = own
        BY <2>4, <3>2 DEF SaveBlob
      <4> QED BY <1>1, <2>4, <3>1, <4>1, NamePhase
    <3>3. CASE job[c].op = "base"
      <4>1. /\ own'[c].hash = job[c].target /\ own'[c].past = job[c].snap
            /\ own'[c].failed = FALSE
        BY <2>1, <2>4, <3>3 DEF SaveBlob
      <4> QED BY <1>1, <2>4, <3>1, <3>3, <4>1 DEF NameInv
    <3> QED BY <3>2, <3>3
  <2> QED BY <2>2, <2>3, <2>4
<1>5. SeenInv'
  BY <1>1, <1>4 DEF NamesInv, SeenInv
<1> QED BY <1>3, <1>4, <1>5 DEF NamesInv

\* Reading: the digest register and compact take from a blob is the one of the
\* state the blob is named by.
LEMMA ReadNames ==
    ASSUME TypeInv, NamesInv, NEW c \in Client,
           InferLoad(c) \/ InferVerify(c) \/ HashBlob(c)
    PROVE  NamesInv'
<1>1. /\ job[c] \in Job /\ NameInv(job[c], own[c]) /\ JobInv(job[c], own[c])
      /\ job \in [Client -> Job] /\ job[c].pc # "idle"
      /\ job[c].target \in Name
      /\ UNCHANGED <<blob, man, own, late>>
  BY DEF InferLoad, InferVerify, HashBlob, TypeInv, TypeOK, NamesInv, JobInv
<1>2. /\ \A e \in Client : e # c => job'[e] = job[e]
      /\ job'[c].op = job[c].op /\ job'[c].target = job[c].target
      /\ job'[c].snap = job[c].snap
      /\ job'[c].pc = "manifest" => job'[c].seen = blob[job[c].target]
  BY <1>1 DEF InferLoad, InferVerify, HashBlob, Job
<1>3. \A e \in Client : NameInv(job'[e], own'[e])
  <2>1. NameInv(job'[c], own[c])
    BY <1>1, <1>2, NamePhase
  <2> QED BY <1>1, <1>2, <2>1 DEF NamesInv
<1>4. SeenInv'
  <2>1. blob[job[c].target] \in Kv => blob[job[c].target] = Content(job[c].target)
    BY <1>1 DEF NamesInv, SameHashSameState
  <2> QED BY <1>1, <1>2, <2>1 DEF NamesInv, SeenInv
<1>5. SameHashSameState'
  BY <1>1 DEF NamesInv, SameHashSameState
<1> QED BY <1>3, <1>4, <1>5 DEF NamesInv

\* A client that is answered adopts a hash of the cache it holds.
LEMMA AdoptNames ==
    ASSUME TypeInv, NamesInv, NEW c \in Client, WriteManifest(c)
    PROVE  NamesInv'
<1> DEFINE f == own[c]
           h == job[c].target
           o == Adopted(f, job[c].op, h)
           j == Continue(c, o)
<1>1. /\ job[c] \in Job /\ f \in Fields /\ job[c].pc = "manifest"
      /\ NameInv(job[c], f) /\ JobInv(job[c], f) /\ h \in Name
      /\ job[c].op \in {"base", "step", "fold"}
      /\ job[c].snap = Content(h)
  BY DEF WriteManifest, TypeInv, TypeOK, NamesInv, JobInv, NameInv, Job
<1>2. /\ man' = [man EXCEPT ![h] = job[c].seen]
      /\ own' = [own EXCEPT ![c] = o]
      /\ job' = [job EXCEPT ![c] = j]
      /\ UNCHANGED <<blob, late>>
  BY DEF WriteManifest
<1>3. job[c].seen \in Kv => job[c].seen = Content(h)
  BY <1>1 DEF NamesInv, SeenInv
<1>4. SameHashSameState'
  BY <1>1, <1>2, <1>3 DEF NamesInv, SameHashSameState, TypeInv, TypeOK
<1>5. Idle.pc = "idle" /\ Idle.op = "none"
  BY DEF Idle
<1>6. NameInv(j, o) /\ j.pc \in {"idle", "open"}
  <2>1. CASE job[c].op = "base"
    <3>1. o = f /\ j = Idle
      BY <2>1 DEF Adopted, Continue
    <3>2. f.past = Content(f.hash)
      BY <1>1, <2>1 DEF JobInv
    <3> QED BY <1>1, <1>5, <2>1, <3>1, <3>2 DEF JobInv, NameInv
  <2>2. CASE job[c].op = "step"
    <3>1. /\ o = [f EXCEPT !.hash = h, !.since = @ + 1]
          /\ j \in {Storing("fold", FoldName(o.hash), o.past), Idle}
      BY <2>2 DEF Adopted, Continue
    <3>2. o.hash = h /\ o.past = f.past /\ o.failed = f.failed
      BY <1>1, <3>1 DEF Fields
    <3>3. ~f.failed /\ f.past = Content(h)
      BY <1>1, <2>2 DEF NameInv, JobInv
    <3>4. Content(FoldName(h)) = Content(h)
      BY DEF Content, FoldName
    <3> HIDE DEF o
    <3>5. CASE j = Idle
      BY <1>5, <3>2, <3>3, <3>5 DEF NameInv
    <3>6. CASE j = Storing("fold", FoldName(o.hash), o.past)
      <4>1. /\ j.pc = "open" /\ j.op = "fold" /\ j.target = FoldName(o.hash)
            /\ j.snap = o.past
        BY <3>6 DEF Storing, Idle
      <4> QED BY <3>2, <3>3, <3>4, <4>1 DEF NameInv
    <3> QED BY <3>1, <3>5, <3>6
  <2>3. CASE job[c].op = "fold"
    <3>1. o = [f EXCEPT !.hash = h, !.since = 0] /\ j = Idle
      BY <2>3 DEF Adopted, Continue
    <3>2. o.hash = h /\ o.past = f.past /\ o.failed = f.failed
      BY <1>1, <3>1 DEF Fields
    <3>3. ~f.failed /\ f.past = Content(h)
      BY <1>1, <2>3 DEF NameInv, JobInv
    <3> QED BY <1>5, <3>1, <3>2, <3>3 DEF NameInv
  <2> QED BY <1>1, <2>1, <2>2, <2>3
<1> HIDE DEF o, j, h, f
<1>7. \A e \in Client : NameInv(job'[e], own'[e])
  BY <1>2, <1>6 DEF NamesInv, TypeInv, TypeOK
<1>8. SeenInv'
  BY <1>2, <1>6 DEF NamesInv, SeenInv, TypeInv, TypeOK
<1> QED BY <1>4, <1>7, <1>8 DEF NamesInv

\* An operation that breaks off leaves a client whose step it was marked as
\* failed, and the others as they were.
LEMMA BreakNames ==
    ASSUME TypeInv, NamesInv, NEW c \in Client,
           Refused(c) \/ Fail(c) \/ Kill(c)
    PROVE  NamesInv'
<1>1. /\ job[c] \in Job /\ own[c] \in Fields
      /\ job \in [Client -> Job] /\ own \in [Client -> Fields]
      /\ NameInv(job[c], own[c]) /\ JobInv(job[c], own[c])
      /\ UNCHANGED <<blob, man>>
      /\ Idle.pc = "idle" /\ Idle.op = "none"
  BY DEF Refused, Fail, Kill, Leave, TypeInv, TypeOK, NamesInv, Idle
<1>2. /\ job'[c] = Idle
      /\ \/ own'[c] = NoState
         \/ /\ own'[c].hash = own[c].hash /\ own'[c].past = own[c].past
            /\ own'[c].failed \/ (job[c].op # "step" /\ ~own[c].failed)
  <2>1. CASE Refused(c)
    <3>1. job'[c] = Idle /\ own'[c] = [own[c] EXCEPT !.failed = TRUE]
      BY <1>1, <2>1 DEF Refused
    <3> QED BY <1>1, <3>1 DEF Fields
  <2>2. CASE Fail(c)
    <3>1. /\ job'[c] = Idle
          /\ own'[c] = [own[c] EXCEPT !.failed = @ \/ job[c].op = "step"]
      BY <1>1, <2>2 DEF Fail, Leave
    <3>2. /\ own'[c].hash = own[c].hash /\ own'[c].past = own[c].past
          /\ own'[c].failed = (own[c].failed \/ job[c].op = "step")
      BY <1>1, <3>1 DEF Fields
    <3> QED BY <3>1, <3>2
  <2>3. CASE Kill(c)
    BY <1>1, <2>3 DEF Kill, Leave
  <2> QED BY <2>1, <2>2, <2>3
<1>3. NameInv(job'[c], own'[c])
  <2>1. CASE own'[c] = NoState
    BY <1>1, <1>2, <2>1 DEF NameInv, NoState
  <2>2. CASE own'[c] # NoState
    BY <1>1, <1>2, <2>2 DEF NameInv
  <2> QED BY <2>1, <2>2
<1>4. ASSUME NEW e \in Client, e # c
      PROVE  /\ NameInv(job'[e], own'[e])
             /\ job'[e].pc = job[e].pc /\ job'[e].seen = job[e].seen
             /\ job'[e].target = job[e].target
  <2>1. /\ NameInv(job[e], own[e]) /\ job[e] \in Job /\ own'[e] = own[e]
    BY <1>1, <1>4 DEF NamesInv, Refused, Fail, Kill
  <2>2. /\ job'[e].op = job[e].op /\ job'[e].target = job[e].target
        /\ job'[e].snap = job[e].snap /\ job'[e].pc = job[e].pc
        /\ job'[e].seen = job[e].seen
    BY <1>1, <1>4, <2>1 DEF Refused, Fail, Kill, Leave, Job
  <2> QED BY <2>1, <2>2 DEF NameInv
<1>5. \A r \in late' : r.digest \in Kv => r.digest = Content(r.name)
  <2>1. \A r \in late : r.digest \in Kv => r.digest = Content(r.name)
    BY DEF NamesInv, SeenInv
  <2>2. ASSUME NEW r \in Left(c), r.digest \in Kv
        PROVE  r.digest = Content(r.name)
    <3>1. /\ job[c].pc \in {"hash", "manifest"}
          /\ r.name = job[c].target /\ r.digest = job[c].seen
      BY <2>2 DEF Left
    <3>2. job[c].pc = "manifest"
      BY <1>1, <2>2, <3>1, Digests DEF JobInv
    <3> QED BY <2>2, <3>1, <3>2 DEF NamesInv, SeenInv
  <2>3. late' = late \/ late' = late \cup Left(c)
    BY DEF Refused, Fail, Kill, Leave
  <2>4. CASE late' = late
    BY <2>1, <2>4
  <2>5. CASE late' = late \cup Left(c)
    <3>1. ASSUME NEW r \in late', r.digest \in Kv
          PROVE  r.digest = Content(r.name)
      <4>1. r \in late \/ r \in Left(c)
        BY <2>5
      <4> QED BY <2>1, <2>2, <3>1, <4>1
    <3> QED BY <3>1
  <2> QED BY <2>3, <2>4, <2>5
<1>6. SeenInv'
  <2>1. ASSUME NEW e \in Client, job'[e].pc = "manifest", job'[e].seen \in Kv
        PROVE  job'[e].seen = Content(job'[e].target)
    <3>1. e # c
      BY <1>1, <1>2, <2>1
    <3> QED BY <1>4, <2>1, <3>1 DEF NamesInv, SeenInv
  <2> QED BY <1>5, <2>1 DEF SeenInv
<1>7. SameHashSameState'
  BY <1>1 DEF NamesInv, SameHashSameState
<1> QED BY <1>3, <1>4, <1>6, <1>7 DEF NamesInv

\* A handler left behind writes what it would have written.
LEMMA LateNames ==
    ASSUME TypeInv, NamesInv, NEW r \in late, LateHash(r) \/ LateManifest(r)
    PROVE  NamesInv'
<1>1. /\ UNCHANGED <<blob, own, job>>
      /\ r \in [name : Name, digest : Digest \cup {None}]
      /\ man \in [Name -> Digest \cup {Absent}]
  BY DEF LateHash, LateManifest, TypeInv, TypeOK
<1>2. CASE LateHash(r)
  <2> DEFINE q == [r EXCEPT !.digest = blob[r.name]]
  <2>1. late' = (late \ {r}) \cup {q} /\ man' = man
    BY <1>2 DEF LateHash
  <2>2. q.name = r.name /\ q.digest = blob[r.name] /\ r.name \in Name
    BY <1>1
  <2> HIDE DEF q
  <2>3. q.digest \in Kv => q.digest = Content(q.name)
    BY <2>2 DEF NamesInv, SameHashSameState
  <2>4. SeenInv' /\ SameHashSameState'
    BY <1>1, <2>1, <2>3 DEF NamesInv, SeenInv, SameHashSameState
  <2> QED BY <1>1, <2>4 DEF NamesInv
<1>3. CASE LateManifest(r)
  <2>1. PICK m \in {r.digest, Absent} : man' = [man EXCEPT ![r.name] = m]
    BY <1>3 DEF LateManifest
  <2>2. m \in Kv => m = Content(r.name)
    BY <2>1, ValueAssumption DEF NamesInv, SeenInv
  <2>3. SameHashSameState'
    BY <1>1, <2>1, <2>2 DEF NamesInv, SameHashSameState
  <2>4. SeenInv'
    BY <1>1, <1>3 DEF LateManifest, NamesInv, SeenInv
  <2> QED BY <1>1, <2>3, <2>4 DEF NamesInv
<1> QED BY <1>2, <1>3

\* Fields, jobs and files go by the names of their caches, as long as nobody
\* calls step after a step that has failed.
LEMMA NamesInvariance == ASSUME ~Retry PROVE Spec => []NamesInv
<1>1. Init => NamesInv
  BY ValueAssumption
  DEF Init, NamesInv, NameInv, SeenInv, SameHashSameState, NoState, Idle
<1>2. TypeInv /\ TypeInv' /\ NamesInv /\ [Next]_vars => NamesInv'
  <2> SUFFICES ASSUME TypeInv, TypeInv', NamesInv, [Next]_vars
               PROVE  NamesInv'
    OBVIOUS
  <2>1. CASE Next
    BY <2>1, OwnNames, BlobNames, ReadNames, AdoptNames, BreakNames, LateNames
    DEF Next
  <2>2. CASE UNCHANGED vars
    BY <2>2 DEF vars, NamesInv, SeenInv, SameHashSameState
  <2> QED BY <2>1, <2>2
<1> QED BY <1>1, <1>2, TypeInvariance, PTL DEF Spec

\* When callers do not go on with step after a failed one, the cache a client
\* holds is the one its hash stands for (_past and _state_hash of
\* stateless_client.py), whatever fails when.
THEOREM ClientsKeepNames == ASSUME ~Retry PROVE Spec => []ClientNames
<1>1. NamesInv => ClientNames
  BY DEF NamesInv, ClientNames, NameInv, Idle
<1> QED BY <1>1, NamesInvariance, PTL

\* And what is stored under a hash is the state the hash stands for, or torn
\* (the blobs of stateless_client.py, the manifests of server.rs).
THEOREM HashesKeepStates == ASSUME ~Retry PROVE Spec => []SameHashSameState
<1>1. NamesInv => SameHashSameState
  BY DEF NamesInv
<1> QED BY <1>1, NamesInvariance, PTL

-----------------------------------------------------------------------------
(* Compaction *)

\* The deltas since the last compaction, in and between operations.
DueInv ==
    \A c \in Client :
        /\ own[c].since <= MaxSteps + errors
        /\ job[c].op # "fold" => own[c].since < MaxSteps + errors

\* Only an answer to a step adds a delta, and one too many begins a compaction.
LEMMA DueStep ==
    ASSUME CompactsInTime, TypeInv, DueInv, NEW c \in Client,
           WriteManifest(c)
    PROVE  DueInv'
<1> DEFINE o == Adopted(own[c], job[c].op, job[c].target)
           j == Continue(c, o)
<1>1. /\ own' = [own EXCEPT ![c] = o] /\ job' = [job EXCEPT ![c] = j]
      /\ errors' = errors
  BY DEF WriteManifest
<1>2. /\ own[c] \in Fields /\ own[c].since \in Nat /\ errors \in Nat
      /\ job[c].op \in {"base", "step", "fold"}
      /\ MinSteps \in Nat /\ MaxSteps \in Nat /\ 0 < MaxSteps
  BY BoundAssumption DEF WriteManifest, TypeInv, TypeOK, JobInv, Job, Fields
<1>3. /\ o.since <= MaxSteps + errors
      /\ j.op # "fold" => o.since < MaxSteps + errors
  <2>1. CASE job[c].op = "base"
    <3>1. o = own[c]
      BY <2>1 DEF Adopted
    <3> QED BY <2>1, <3>1 DEF DueInv
  <2>2. CASE job[c].op = "step"
    <3>1. o.since = own[c].since + 1
      BY <1>2, <2>2 DEF Adopted, Fields
    <3>2. own[c].since < MaxSteps + errors
      BY <2>2 DEF DueInv
    <3>3. CASE ShouldCompact(o.since, Tokens(o.hash))
      <4>1. j.op = "fold"
        BY <2>2, <3>3 DEF Continue, Storing, Idle
      <4> HIDE DEF o, j
      <4> QED BY <1>2, <3>1, <3>2, <4>1
    <3>4. CASE ~ShouldCompact(o.since, Tokens(o.hash))
      <4> HIDE DEF o, j
      <4>1. o.since < MaxSteps
        <5>0. o.since \in Nat /\ 0 < o.since
          BY <1>2, <3>1
        <5>1. CASE Policy = "threshold"
          BY <1>2, <3>4, <5>0, <5>1 DEF ShouldCompact, CompactsInTime
        <5>2. CASE Policy = "savings"
          BY <1>2, <3>4, <5>0, <5>2 DEF ShouldCompact
        <5>3. CASE Policy = "always"
          BY <3>4, <5>0, <5>3 DEF ShouldCompact
        <5>4. Policy \in {"threshold", "savings", "always"}
          BY BoundAssumption DEF CompactsInTime
        <5> QED BY <5>1, <5>2, <5>3, <5>4
      <4> QED BY <1>2, <3>1, <4>1
    <3> QED BY <3>3, <3>4
  <2>3. CASE job[c].op = "fold"
    <3>1. o.since = 0
      BY <1>2, <2>3 DEF Adopted, Fields
    <3> HIDE DEF o, j
    <3> QED BY <1>2, <3>1
  <2> QED BY <1>2, <2>1, <2>2, <2>3
<1> HIDE DEF o, j
<1> QED BY <1>1, <1>3 DEF DueInv, TypeInv, TypeOK

\* A compaction that is due is done, or has failed: a client is never left
\* with more deltas than max_steps and its failures allow, under each of the
\* policies that has such a limit (_deltas in stateless_client.py).
THEOREM CompactionsAreDone ==
    ASSUME CompactsInTime PROVE Spec => []DeltasBounded
<1>0. MaxSteps \in Nat /\ 0 < MaxSteps
  BY BoundAssumption
<1>1. Init => DueInv
  BY <1>0 DEF Init, DueInv, NoState, Idle
<1>2. TypeInv /\ DueInv /\ [Next]_vars => DueInv'
  <2> SUFFICES ASSUME TypeInv, DueInv, [Next]_vars PROVE DueInv'
    OBVIOUS
  <2>0. /\ errors \in Nat /\ job \in [Client -> Job] /\ own \in [Client -> Fields]
        /\ \A e \in Client : own[e].since \in Nat
    BY Bounds DEF TypeInv, TypeOK, Fields
  <2>1. ASSUME NEW c \in Client, NEW t \in Text, SetBase(c, t)
        PROVE  DueInv'
    BY <2>0, <2>1 DEF SetBase, DueInv, Storing, Idle
  <2>2. ASSUME NEW c \in Client, NEW d \in DeltaText, Step(c, d)
        PROVE  DueInv'
    BY <2>0, <2>2 DEF Step, DueInv, Storing, Idle, Fields
  <2>3. ASSUME NEW c \in Client, OpenBlob(c)
        PROVE  DueInv'
    BY <2>0, <2>3 DEF OpenBlob, DueInv, Job
  <2>4. ASSUME NEW c \in Client, SaveBlob(c)
        PROVE  DueInv'
    BY <1>0, <2>0, <2>4 DEF SaveBlob, DueInv, Job
  <2>5. ASSUME NEW c \in Client, InferLoad(c) \/ InferVerify(c) \/ HashBlob(c)
        PROVE  DueInv'
    BY <2>0, <2>5 DEF InferLoad, InferVerify, HashBlob, DueInv, Job
  <2>6. ASSUME NEW c \in Client, Refused(c)
        PROVE  DueInv'
    BY <2>0, <2>6 DEF Refused, DueInv, TypeInv, JobInv, Fields
  <2>7. ASSUME NEW c \in Client, Fail(c) \/ Kill(c)
        PROVE  DueInv'
    <3>1. Leave(c)
      BY <2>7 DEF Fail, Kill
    <3>2. errors' = errors + 1
      BY <3>1 DEF Leave
    <3>3. \A e \in Client : own'[e].since \in {own[e].since, 0}
      BY <2>0, <2>7 DEF Fail, Kill, NoState, Fields
    <3>4. \A e \in Client : own[e].since <= MaxSteps + errors
      BY DEF DueInv
    <3>5. ASSUME NEW e \in Client
          PROVE  own'[e].since < MaxSteps + errors'
      <4>1. /\ own[e].since \in Nat /\ own[e].since <= MaxSteps + errors
            /\ own'[e].since = own[e].since \/ own'[e].since = 0
        BY <2>0, <3>3, <3>4
      <4> QED BY <1>0, <2>0, <3>2, <4>1
    <3>6. \A e \in Client : own'[e].since <= MaxSteps + errors'
      <4> SUFFICES ASSUME NEW e \in Client
                   PROVE  own'[e].since <= MaxSteps + errors'
        OBVIOUS
      <4>1. own[e].since \in Nat /\ own'[e].since \in {own[e].since, 0}
        BY <2>0, <3>3
      <4> QED BY <1>0, <2>0, <3>2, <3>5, <4>1
    <3> QED BY <3>5, <3>6 DEF DueInv
  <2>8. ASSUME NEW r \in late, LateHash(r) \/ LateManifest(r)
        PROVE  DueInv'
    BY <2>8 DEF LateHash, LateManifest, DueInv
  <2>9. CASE Next
    BY <2>1, <2>2, <2>3, <2>4, <2>5, <2>6, <2>7, <2>8, <2>9, DueStep DEF Next
  <2>10. CASE UNCHANGED vars
    BY <2>10 DEF vars, DueInv
  <2> QED BY <2>9, <2>10
<1>3. DueInv => DeltasBounded
  BY DEF DueInv, DeltasBounded, Idle
<1> QED BY <1>1, <1>2, <1>3, TypeInvariance, PTL DEF Spec
=============================================================================
