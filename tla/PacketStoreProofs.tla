------------------------- MODULE PacketStoreProofs -------------------------
(***************************************************************************)
(* Theorems about the packet store, for every set of processes, texts,     *)
(* deltas and blobs.                                                       *)
(***************************************************************************)
EXTENDS PacketStore, SequenceTheorems, FiniteSetTheorems, TLAPS

-----------------------------------------------------------------------------
(* Addresses *)

\* The digest of a base text, and of a delta folded into an address, are
\* addresses (create_packet and merge_packet only write under such names).
LEMMA AddrClosed ==
    /\ \A t \in Text : BaseAddr(t) \in Addr
    /\ \A h \in Addr, d \in DeltaText :
          CanExtend(h) => MergedAddr(h, d) \in Addr
<1>1. \A c \in Chain, d \in DeltaText :
         Len(c) < MaxChain => Append(c, d) \in Chain
  <2> SUFFICES ASSUME NEW n \in 0..MaxChain, NEW c \in [1..n -> DeltaText],
                      NEW d \in DeltaText, Len(c) < MaxChain
               PROVE  Append(c, d) \in Chain
    BY DEF Chain
  <2>1. c \in Seq(DeltaText) /\ Len(c) = n
    BY MaxChainAssumption
  <2>2. Append(c, d) \in [1..(n + 1) -> DeltaText]
    BY <2>1, AppendProperties, LenProperties
  <2>3. n + 1 \in 0..MaxChain
    BY <2>1, MaxChainAssumption
  <2> QED BY <2>2, <2>3 DEF Chain
<1>2. << >> \in Chain
  <2>1. 0 \in 0..MaxChain
    BY MaxChainAssumption
  <2>2. << >> \in [1..0 -> DeltaText]
    OBVIOUS
  <2> QED BY <2>1, <2>2 DEF Chain
<1> QED BY <1>1, <1>2 DEF Addr, BaseAddr, MergedAddr, CanExtend

-----------------------------------------------------------------------------
(* Type correctness *)

\* Every step of a process that creates or merges keeps the types.
LEMMA WriterType ==
    ASSUME TypeOK, NEW p \in Proc, WriterStep(p)
    PROVE  TypeOK'
<1> USE DEF TypeOK, Job, Task, Pc, WritePc, Fd, Idle, Blob, Manifest, Digest
<1>1. CASE \E t \in Text, v \in Variant : StartCreate(p, t, v)
  BY <1>1, AddrClosed DEF StartCreate
<1>2. CASE /\ p \in CliProc
           /\ \E dp \in deltas, v \in Variant : StartMergeCli(p, dp, v)
  BY <1>2, AddrClosed DEF StartMergeCli, DeltaPacket
<1>3. CASE /\ p \in PyProc
           /\ \E h \in Addr, d \in DeltaText, v \in Variant :
                 StartMergePy(p, h, d, v)
  BY <1>3, AddrClosed DEF StartMergePy
<1>4. CASE OpenDest(p)
  BY <1>4 DEF OpenDest
<1>5. CASE CloseDest(p)
  <2>1. Copied(p) \subseteq Blob
    BY <1>5 DEF Copied, CloseDest
  <2>2. blob' \in [Addr -> Blob]
    BY <1>5, <2>1 DEF CloseDest
  <2>3. job' \in [Proc -> Job] /\ fd' \in [Proc -> Fd]
    BY <1>5 DEF CloseDest
  <2> QED BY <1>5, <2>2, <2>3 DEF CloseDest
<1>6. CASE HashDest(p)
  BY <1>6 DEF HashDest
<1>7. CASE WriteManifest(p)
  BY <1>7 DEF WriteManifest, Touch, Listed
<1> QED BY <1>1, <1>2, <1>3, <1>4, <1>5, <1>6, <1>7 DEF WriterStep

\* So does every step of delta and infer.
LEMMA ReaderType ==
    ASSUME TypeOK, NEW p \in Proc, ReaderStep(p)
    PROVE  TypeOK'
<1> USE DEF TypeOK, Job, Task, Pc, WritePc, Fd, Idle, Blob, Manifest, Digest
<1>1. ASSUME NEW h \in Addr, NEW d \in DeltaText, CutDelta(p, h, d)
      PROVE  TypeOK'
  BY <1>1 DEF CutDelta, Parses, DeltaPacket
<1>2. ASSUME NEW dp \in deltas, StartInferCli(p, dp)
      PROVE  TypeOK'
  BY <1>2 DEF StartInferCli, DeltaPacket
<1>3. ASSUME NEW h \in Addr, NEW d \in DeltaText, InferPy(p, h, d)
      PROVE  TypeOK'
  BY <1>3 DEF InferPy, Parses, Receipt
<1>4. CASE CheckBlob(p)
  BY <1>4 DEF CheckBlob, Receipt
<1> QED BY <1>1, <1>2, <1>3, <1>4 DEF ReaderStep

\* So does every step of gc.
LEMMA GcType ==
    ASSUME TypeOK, NEW p \in Proc, GcBegin(p) \/ GcWork(p)
    PROVE  TypeOK'
<1> USE DEF TypeOK, Job, Task, Pc, WritePc, Fd, Idle, Blob, Manifest
<1>1. ASSUME NEW cut \in SUBSET Addr, GcList(p, cut)
      PROVE  TypeOK'
  BY <1>1 DEF GcList
<1>2. ASSUME NEW h \in Addr, GcRemoveManifest(p, h)
      PROVE  TypeOK'
  BY <1>2 DEF GcRemoveManifest
<1>3. CASE GcRemoveBlob(p)
  BY <1>3 DEF GcRemoveBlob
<1>4. KeepCut \in SUBSET Addr /\ AgeCuts \subseteq SUBSET Addr
  BY DEF KeepCut, AgeCuts, Listed
<1> QED BY <1>1, <1>2, <1>3, <1>4 DEF GcBegin, GcWork

\* And so does killing a process at any point.
LEMMA CrashType ==
    ASSUME TypeOK, NEW p \in Proc, Crash(p)
    PROVE  TypeOK'
<1> USE DEF TypeOK, Job, Task, Pc, WritePc, Fd, Idle, Manifest, Touch, Listed
<1>1. job' \in [Proc -> Job] /\ fd' \in [Proc -> Fd]
  BY DEF Crash
<1>2. man' \in [Addr -> Manifest] /\ older' \subseteq Addr \X Addr
  BY DEF Crash
<1> QED BY <1>1, <1>2 DEF Crash

\* Nothing the processes of a store do, in any order and with any of them
\* killed at any point, leaves a file, a handle, a delta packet or a receipt
\* outside its type (main.rs and store.py, every command).
THEOREM TypeCorrect == Spec => []TypeOK
<1>1. Init => TypeOK
  BY DEF Init, TypeOK, Job, Task, Pc, WritePc, Fd, Idle, Blob, Manifest
<1>2. TypeOK /\ [Next]_vars => TypeOK'
  <2> SUFFICES ASSUME TypeOK, [Next]_vars PROVE TypeOK'
    OBVIOUS
  <2>1. CASE Next
    BY <2>1, WriterType, ReaderType, GcType, CrashType DEF Next
  <2>2. CASE UNCHANGED vars
    BY <2>2 DEF vars, TypeOK
  <2> QED BY <2>1, <2>2
<1> QED BY <1>1, <1>2, PTL DEF Spec

-----------------------------------------------------------------------------
(* Concurrent writers of the same blob *)

\* The inductive invariant of a store written by the CLI alone and never
\* cleaned: a torn blob is being written by the process that truncated it
\* last, and a manifest is written after its blob.
IntactInv ==
    /\ TypeOK
    /\ \A p \in Proc : job[p].pc \notin CleanPc \cup {"hashing"}
    /\ \A p \in Proc : job[p].pc \in WritePc => job[p].var \in Variant
    /\ \A p \in Proc : job[p].pc = "copying" => fd[p] \in {"sole", "clobbered"}
    /\ \A p \in Proc : job[p].pc \in {"copying", "closed"} =>
                           blob[job[p].addr] # Absent
    /\ \A h \in Addr : man[h] # Absent =>
                           man[h] \in Variant /\ blob[h] # Absent
    /\ \A h \in Addr : blob[h] = Torn =>
          \E q \in Proc : /\ job[q].pc = "copying" /\ job[q].addr = h
                          /\ fd[q] = "sole"

\* When all writers of an address bring the same blob and hash it before
\* copying it, as create_packet and merge_packet do, no interleaving of
\* opens, copies and manifest writes leaves a resting packet torn.
THEOREM RestingPackets ==
    ASSUME PyProc = {}, \A v, w \in Variant : v = w
    PROVE  ServeSpec => []RestingPacketsIntact
<1> USE ValueAssumption
<1>1. Init => IntactInv
  <2> SUFFICES ASSUME Init PROVE IntactInv
    OBVIOUS
  <2>1. TypeOK
    BY DEF Init, TypeOK, Job, Task, Pc, WritePc, Fd, Idle, Blob, Manifest
  <2> QED BY <2>1 DEF Init, IntactInv, Idle, Task, WritePc, CleanPc
<1>2. IntactInv /\ [ServeNext]_vars => IntactInv'
  <2> SUFFICES ASSUME IntactInv, [ServeNext]_vars PROVE IntactInv'
    OBVIOUS
  <2>0. CASE UNCHANGED vars
    BY <2>0 DEF vars, IntactInv, TypeOK
  <2> SUFFICES ASSUME NEW p \in Proc, WriterStep(p) \/ ReaderStep(p)
               PROVE  IntactInv'
    BY <2>0 DEF ServeNext
  <2>1. TypeOK /\ TypeOK' /\ p \in CliProc
    BY WriterType, ReaderType DEF IntactInv, Proc
  <2> USE <2>1 DEF IntactInv, TypeOK, Job, Task, Idle, WritePc, CleanPc
  <2>2. ASSUME NEW h \in Addr, NEW v \in Variant,
               job[p] = Idle,
              job' = [job EXCEPT ![p] = Task("ready", h, v, None, {})],
               UNCHANGED <<blob, man, fd>>
        PROVE  IntactInv'
    BY <2>2
  <2>3. CASE \E t \in Text, v \in Variant : StartCreate(p, t, v)
    BY <2>2, <2>3, AddrClosed DEF StartCreate
  <2>4. CASE \E dp \in deltas, v \in Variant : StartMergeCli(p, dp, v)
    BY <2>2, <2>4, AddrClosed DEF StartMergeCli, DeltaPacket
  <2>5. CASE OpenDest(p)
    <3>1. ~\E q \in Sharers(job[p].addr) : job[q].var # job[p].var
      BY <2>5 DEF OpenDest, Sharers
    <3>2. fd' = [q \in Proc |-> IF q = p THEN "sole"
                               ELSE IF q \in Sharers(job[p].addr)
                                    THEN "clobbered" ELSE fd[q]]
      BY <2>5, <3>1 DEF OpenDest
    <3>3. /\ job[p].pc = "ready" /\ job[p].addr \in Addr
          /\ job' = [job EXCEPT ![p].pc = "copying"]
          /\ blob' = [blob EXCEPT ![job[p].addr] = Torn]
          /\ UNCHANGED man
      BY <2>5 DEF OpenDest
    <3>4. \A h \in Addr : blob'[h] = Torn =>
             \E q \in Proc : /\ job'[q].pc = "copying" /\ job'[q].addr = h
                             /\ fd'[q] = "sole"
      <4> SUFFICES ASSUME NEW h \in Addr, blob'[h] = Torn
                   PROVE  \E q \in Proc : /\ job'[q].pc = "copying"
                                          /\ job'[q].addr = h /\ fd'[q] = "sole"
        OBVIOUS
      <4>1. CASE h = job[p].addr
        BY <3>2, <3>3, <4>1
      <4>2. CASE h # job[p].addr
        BY <3>2, <3>3, <4>2 DEF Sharers
      <4> QED BY <4>1, <4>2
    <3> QED BY <3>2, <3>3, <3>4
  <2>6. CASE CloseDest(p)
    BY <2>6 DEF CloseDest, Copied, Blob
  <2>7. CASE WriteManifest(p)
    BY <2>7 DEF WriteManifest
  <2>8. CASE ReaderStep(p)
    <3>1. ASSUME NEW j \in Job, j.pc \in {"idle", "checking"},
                 job[p].pc \in {"idle", "checking"},
                 job' = [job EXCEPT ![p] = j], UNCHANGED <<blob, man, fd>>
          PROVE  IntactInv'
      BY <3>1
    <3>2. CASE UNCHANGED <<blob, man, fd, job>>
      BY <3>2
    <3>3. ASSUME NEW dp \in deltas, StartInferCli(p, dp)
          PROVE  IntactInv'
      <4>1. Task("checking", dp.addr, man[dp.addr], dp.text, {}) \in Job
        BY <3>3 DEF StartInferCli, DeltaPacket, Pc
      <4> QED BY <3>1, <3>3, <4>1 DEF StartInferCli
    <3>4. CASE CheckBlob(p)
      <4>1. Idle \in Job
        BY DEF Pc
      <4> QED BY <3>1, <3>4, <4>1 DEF CheckBlob
    <3> QED BY <2>8, <3>2, <3>3, <3>4 DEF ReaderStep, CutDelta, InferPy
  <2>9. ~HashDest(p) /\ p \notin PyProc
    BY DEF HashDest
  <2> QED BY <2>3, <2>4, <2>5, <2>6, <2>7, <2>8, <2>9 DEF WriterStep
<1>3. IntactInv => RestingPacketsIntact
  BY DEF IntactInv, RestingPacketsIntact, Sharers, TypeOK, Blob
<1> QED BY <1>1, <1>2, <1>3, PTL DEF ServeSpec

-----------------------------------------------------------------------------
(* gc and crashes *)

\* The inductive invariant of a store cleaned while nothing is written: a
\* blob with a writer behind it exists, and the packet whose blob gc is about
\* to remove has lost its manifest.
MaintInv ==
    /\ TypeOK
    /\ \A p, q \in Proc : ~(Writing(p) /\ Cleaning(q))
    /\ \A p \in Proc : job[p].pc \in {"copying", "hashing", "closed"} =>
                           blob[job[p].addr] # Absent
    /\ \A p \in Proc : job[p].pc = "unlinking" => man[job[p].addr] = Absent
    /\ ManifestHasBlob

\* The steps of a writer, none of which falls into a run of gc, keep it.
LEMMA MaintWriter ==
    ASSUME GcApart, MaintInv, NEW p \in Proc, WriterStep(p)
    PROVE  MaintInv'
<1> USE ValueAssumption DEF MaintInv, Writing, Cleaning
<1>1. TypeOK /\ TypeOK'
  BY WriterType
<1> USE <1>1 DEF TypeOK, Job, Task, Idle, WritePc, CleanPc, ManifestHasBlob
<1>2. ASSUME NEW h \in Addr, NEW v \in Variant,
             job[p] = Idle, MayWrite,
             job' = [job EXCEPT ![p] = Task("ready", h, v, None, {})],
             UNCHANGED <<blob, man>>
      PROVE  MaintInv'
  BY <1>2 DEF MayWrite
<1>3. CASE \E t \in Text, v \in Variant : StartCreate(p, t, v)
  BY <1>2, <1>3, AddrClosed DEF StartCreate
<1>4. CASE \E dp \in deltas, v \in Variant : StartMergeCli(p, dp, v)
  BY <1>2, <1>4, AddrClosed DEF StartMergeCli, DeltaPacket
<1>5. CASE \E h \in Addr, d \in DeltaText, v \in Variant :
              StartMergePy(p, h, d, v)
  BY <1>2, <1>5, AddrClosed DEF StartMergePy
<1>6. CASE OpenDest(p)
  BY <1>6 DEF OpenDest
<1>7. CASE CloseDest(p)
  <2>1. \A b \in Copied(p) : b # Absent
    BY <1>7 DEF CloseDest, Copied, Digest
  <2> QED BY <1>7, <2>1 DEF CloseDest
<1>8. CASE HashDest(p)
  BY <1>8 DEF HashDest
<1>9. CASE WriteManifest(p)
  BY <1>9 DEF WriteManifest
<1> QED BY <1>3, <1>4, <1>5, <1>6, <1>7, <1>8, <1>9 DEF WriterStep

\* So do the steps of gc, which starts while nothing is being written.
LEMMA MaintGc ==
    ASSUME GcApart, MaintInv, NEW p \in Proc, GcBegin(p) \/ GcWork(p)
    PROVE  MaintInv'
<1> USE ValueAssumption DEF MaintInv, Writing, Cleaning
<1>1. TypeOK /\ TypeOK'
  BY GcType
<1> USE <1>1 DEF TypeOK, Job, Task, Idle, WritePc, CleanPc, ManifestHasBlob
<1>2. ASSUME NEW cut, GcList(p, cut)
      PROVE  MaintInv'
  BY <1>2 DEF GcList, MayClean
<1>3. ASSUME NEW h \in Addr, GcRemoveManifest(p, h)
      PROVE  MaintInv'
  BY <1>3 DEF GcRemoveManifest
<1>4. CASE GcRemoveBlob(p)
  BY <1>4 DEF GcRemoveBlob
<1> QED BY <1>2, <1>3, <1>4 DEF GcBegin, GcWork

\* And so does killing any process at any point.
LEMMA MaintCrash ==
    ASSUME MaintInv, NEW p \in Proc, Crash(p)
    PROVE  MaintInv'
<1> USE ValueAssumption DEF MaintInv, Writing, Cleaning
<1>1. TypeOK /\ TypeOK'
  BY CrashType
<1> USE <1>1 DEF TypeOK, Job, Task, Idle, WritePc, CleanPc, ManifestHasBlob
<1>2. job' = [job EXCEPT ![p] = Idle] /\ UNCHANGED blob
  BY DEF Crash
<1>3. \/ UNCHANGED man
      \/ job[p].pc = "closed" /\ man' = [man EXCEPT ![job[p].addr] = Unreadable]
  BY DEF Crash
<1> QED BY <1>2, <1>3

\* A manifest never outlives its blob when gc runs while nothing is being
\* written, whoever is killed and when: the blob is written before the
\* manifest (create_packet, merge_packet, PacketStore.create and merge) and
\* removed after it (run_gc).
THEOREM ManifestsHaveBlobs ==
    ASSUME GcApart
    PROVE  Spec => []ManifestHasBlob
<1>1. Init => MaintInv
  <2> SUFFICES ASSUME Init PROVE MaintInv
    OBVIOUS
  <2>1. TypeOK
    BY DEF Init, TypeOK, Job, Task, Pc, WritePc, Fd, Idle, Blob, Manifest
  <2> QED BY <2>1 DEF Init, MaintInv, ManifestHasBlob, Writing, Cleaning,
                      Idle, Task, WritePc, CleanPc
<1>2. MaintInv /\ [Next]_vars => MaintInv'
  <2> SUFFICES ASSUME MaintInv, [Next]_vars PROVE MaintInv'
    OBVIOUS
  <2>1. CASE UNCHANGED vars
    BY <2>1 DEF vars, MaintInv, TypeOK, ManifestHasBlob, Writing, Cleaning
  <2>2. ASSUME NEW p \in Proc, ReaderStep(p) PROVE MaintInv'
    <3>1. TypeOK /\ TypeOK'
      BY <2>2, ReaderType DEF MaintInv
    <3> USE <3>1 DEF MaintInv, TypeOK, Job, Task, Idle, WritePc, CleanPc,
                     ManifestHasBlob, Writing, Cleaning
    <3>2. CASE UNCHANGED <<blob, man, job>>
      BY <3>2
    <3>3. ASSUME NEW dp \in deltas, StartInferCli(p, dp) PROVE MaintInv'
      BY <3>3 DEF StartInferCli
    <3>4. CASE CheckBlob(p)
      BY <3>4 DEF CheckBlob
    <3> QED BY <2>2, <3>2, <3>3, <3>4 DEF ReaderStep, CutDelta, InferPy
  <2> QED BY <2>1, <2>2, MaintWriter, MaintGc, MaintCrash DEF Next
<1>3. MaintInv => ManifestHasBlob
  BY DEF MaintInv
<1> QED BY <1>1, <1>2, <1>3, PTL DEF Spec

-----------------------------------------------------------------------------
(* Receipts *)

\* The inductive invariant behind DeltaBinding: an infer that is about to
\* check the blob checks it against the packet its delta was cut from.
BindingInv ==
    /\ TypeOK
    /\ \A p \in Proc : job[p].pc = "checking" =>
          \E dp \in deltas : /\ dp.addr = job[p].addr
                             /\ dp.text = job[p].text /\ dp.var = job[p].var
    /\ DeltaBinding

\* Every infer receipt of the CLI speaks of the very packet the delta was cut
\* against, in the face of re-creation under the same address, gc at any time
\* and crashes (packet_id, create_delta and infer_packet).
THEOREM ReceiptsBound == Spec => []DeltaBinding
<1>1. Init => BindingInv
  <2> SUFFICES ASSUME Init PROVE BindingInv
    OBVIOUS
  <2>1. TypeOK
    BY DEF Init, TypeOK, Job, Task, Pc, WritePc, Fd, Idle, Blob, Manifest
  <2> QED BY <2>1 DEF Init, BindingInv, DeltaBinding, Idle, Task
<1>2. BindingInv /\ [Next]_vars => BindingInv'
  <2> SUFFICES ASSUME BindingInv, [Next]_vars PROVE BindingInv'
    OBVIOUS
  <2>0. CASE UNCHANGED vars
    BY <2>0 DEF vars, BindingInv, TypeOK, DeltaBinding
  <2> SUFFICES ASSUME NEW p \in Proc,
                      \/ WriterStep(p) \/ ReaderStep(p) \/ GcBegin(p)
                      \/ GcWork(p) \/ Crash(p)
               PROVE  BindingInv'
    BY <2>0 DEF Next
  <2>1. TypeOK /\ TypeOK'
    BY WriterType, ReaderType, GcType, CrashType DEF BindingInv
  <2> USE <2>1 DEF BindingInv, DeltaBinding, TypeOK
  <2>3. CASE WriterStep(p) \/ GcBegin(p) \/ GcWork(p) \/ Crash(p)
    <3>1. UNCHANGED <<deltas, receipt>>
      BY <2>3 DEF WriterStep, StartCreate, StartMergeCli, StartMergePy,
         OpenDest, CloseDest, HashDest, WriteManifest, GcBegin, GcWork,
         GcList, GcRemoveManifest, GcRemoveBlob, Crash
    <3>2. job'[p].pc # "checking" /\ \A q \in Proc \ {p} : job'[q] = job[q]
      BY <2>3 DEF WriterStep, StartCreate, StartMergeCli, StartMergePy,
         OpenDest, CloseDest, HashDest, WriteManifest, GcBegin, GcWork,
         GcList, GcRemoveManifest, GcRemoveBlob, Crash, Task, Idle, Job
    <3> QED BY <3>1, <3>2
  <2>4. ASSUME NEW h \in Addr, NEW d \in DeltaText, CutDelta(p, h, d)
        PROVE  BindingInv'
    BY <2>4 DEF CutDelta
  <2>5. ASSUME NEW dp \in deltas, StartInferCli(p, dp)
        PROVE  BindingInv'
    BY <2>5 DEF StartInferCli, Task
  <2>6. ASSUME NEW h \in Addr, NEW d \in DeltaText, InferPy(p, h, d)
        PROVE  BindingInv'
    BY <2>6 DEF InferPy
  <2>7. CASE CheckBlob(p)
    BY <2>7 DEF CheckBlob, Task, Idle
  <2> QED BY <2>3, <2>4, <2>5, <2>6, <2>7 DEF ReaderStep
<1>3. BindingInv => DeltaBinding
  BY DEF BindingInv
<1> QED BY <1>1, <1>2, <1>3, PTL DEF Spec

-----------------------------------------------------------------------------
(* What gc keeps *)

\* The packets that are newer than h, and those gc may remove: h is gone
\* already, or as many as are to be kept are newer.
Newer(h) == {g \in Listed : <<h, g>> \in older}
Stale(h) == man[h] = Absent \/ Cardinality(Newer(h)) >= KeepLatest

\* The inductive invariant behind RecentSurvives: the modification times
\* order the packets that are there, of which there are finitely many, and
\* what a run of gc has listed stays stale while it is removed.
OrderInv ==
    /\ IsFiniteSet(Listed)
    /\ older \subseteq Listed \X Listed
    /\ \A h \in Addr : <<h, h>> \notin older
    /\ \A f, g, h \in Addr :
          <<f, g>> \in older /\ <<g, h>> \in older => <<f, h>> \in older
RecentInv ==
    /\ TypeOK
    /\ OrderInv
    /\ \A p, q \in Proc : ~(Writing(p) /\ Cleaning(q))
    /\ \A p \in Proc : Cleaning(p) => \A h \in job[p].todo : Stale(h)

\* A manifest that is written becomes the newest one.
LEMMA WriteOrder ==
    ASSUME TypeOK, OrderInv, NEW h \in Addr, NEW m \in Manifest, m # Absent,
           man' = [man EXCEPT ![h] = m], older' = Touch(h)
    PROVE  OrderInv'
<1>1. Listed' = Listed \cup {h}
  BY DEF TypeOK, Listed
<1>2. IsFiniteSet(Listed')
  BY <1>1, FS_AddElement DEF OrderInv
<1>3. older' \subseteq Listed' \X Listed'
  BY <1>1 DEF OrderInv, Touch
<1>4. \A g \in Addr : <<g, g>> \notin older'
  BY DEF OrderInv, Touch
<1>5. ASSUME NEW e \in Addr, NEW f \in Addr, NEW g \in Addr,
             <<e, f>> \in older', <<f, g>> \in older'
      PROVE  <<e, g>> \in older'
  <2>1. e # h /\ f # h /\ <<e, f>> \in older /\ e \in Listed
    BY <1>5 DEF OrderInv, Touch
  <2>2. CASE g = h
    BY <2>1, <2>2 DEF Touch
  <2>3. CASE g # h
    BY <1>5, <2>1, <2>3 DEF OrderInv, Touch
  <2> QED BY <2>2, <2>3
<1> QED BY <1>2, <1>3, <1>4, <1>5 DEF OrderInv

\* When a stale packet loses its manifest, the order of the others and what
\* is stale among them stay as they are: whoever was newer than a packet
\* removed is newer than all that were older than it.
LEMMA RemoveOrder ==
    ASSUME TypeOK, OrderInv, NEW h \in Addr, Stale(h),
           man' = [man EXCEPT ![h] = Absent],
           older' = {e \in older : e[1] # h /\ e[2] # h}
    PROVE  /\ OrderInv'
           /\ \A k \in Addr : Stale(k) => Stale(k)'
<1>1. Listed' = Listed \ {h}
  BY DEF TypeOK, Listed
<1>2. OrderInv'
  <2>1. IsFiniteSet(Listed')
    BY <1>1, FS_RemoveElement DEF OrderInv
  <2> QED BY <1>1, <2>1 DEF OrderInv
<1>3. ASSUME NEW k \in Addr, Stale(k)
      PROVE  Stale(k)'
  <2>1. CASE man'[k] = Absent
    BY <2>1 DEF Stale
  <2>2. CASE man'[k] # Absent
    <3>1. k # h /\ man[k] # Absent
      BY <2>2 DEF TypeOK
    <3>2. /\ IsFiniteSet(Newer(k)) /\ Cardinality(Newer(k)) \in Nat
          /\ Cardinality(Newer(k)) >= KeepLatest
      BY <1>3, <3>1, FS_Subset, FS_CardinalityType DEF OrderInv, Newer, Stale
    <3>3. Newer(k)' = Newer(k) \ {h}
      BY <1>1, <3>1 DEF Newer
    <3>4. CASE h \notin Newer(k)
      BY <3>2, <3>3, <3>4 DEF Stale
    <3>5. CASE h \in Newer(k)
      <4>1. Cardinality(Newer(h)) >= KeepLatest
        BY <3>5 DEF Stale, Newer, Listed
      <4>2. Newer(h) \subseteq Newer(k) \ {h}
        BY <3>5 DEF OrderInv, Newer, Listed
      <4>3. IsFiniteSet(Newer(k) \ {h})
        BY <3>2, FS_RemoveElement
      <4>4. /\ Cardinality(Newer(h)) <= Cardinality(Newer(k) \ {h})
            /\ Cardinality(Newer(h)) \in Nat
            /\ Cardinality(Newer(k) \ {h}) \in Nat
        BY <4>2, <4>3, FS_Subset, FS_CardinalityType
      <4> QED BY <3>3, <4>1, <4>4, KeepAssumption DEF Stale
    <3> QED BY <3>4, <3>5
  <2> QED BY <2>1, <2>2
<1> QED BY <1>2, <1>3

\* A process that writes no manifest and is not gc leaves the order alone.
LEMMA OtherRecent ==
    ASSUME RecentInv, TypeOK', NEW p \in Proc, UNCHANGED <<man, older>>,
           \A q \in Proc \ {p} : job'[q] = job[q],
           ~Cleaning(p)',
           Writing(p)' => Writing(p) \/ \A q \in Proc : ~Cleaning(q)
    PROVE  RecentInv'
<1>1. OrderInv' /\ \A h \in Addr : Stale(h) => Stale(h)'
  BY DEF RecentInv, OrderInv, Stale, Newer, Listed
<1>2. \A q \in Proc : Cleaning(q)' => Cleaning(q) /\ job'[q] = job[q]
  BY DEF Cleaning
<1>3. \A q, r \in Proc : ~(Writing(q)' /\ Cleaning(r)')
  BY <1>2 DEF RecentInv, Writing
<1>4. \A q \in Proc : Cleaning(q)' => \A h \in job'[q].todo : Stale(h)'
  <2>1. \A q \in Proc : job[q].todo \subseteq Addr
    BY DEF RecentInv, TypeOK, Job
  <2> QED BY <1>1, <1>2, <2>1 DEF RecentInv
<1> QED BY <1>1, <1>3, <1>4 DEF RecentInv

\* One that writes a manifest does so while no gc is under way.
LEMMA ManifestRecent ==
    ASSUME RecentInv, TypeOK', NEW p \in Proc, Writing(p),
           NEW m \in Manifest, m # Absent,
           man' = [man EXCEPT ![job[p].addr] = m],
           older' = Touch(job[p].addr),
           job' = [job EXCEPT ![p] = Idle]
    PROVE  RecentInv'
<1>1. job[p].addr \in Addr
  BY DEF RecentInv, TypeOK, Job, Writing
<1>2. OrderInv'
  BY <1>1, WriteOrder DEF RecentInv
<1>3. Idle.pc \notin CleanPc \cup WritePc
  BY DEF Idle, Task, CleanPc, WritePc
<1>4. \A q \in Proc : ~Cleaning(q)'
  BY <1>3 DEF RecentInv, TypeOK, Cleaning
<1> QED BY <1>2, <1>4 DEF RecentInv

\* gc removes only what is stale, and starts while nothing is written.
LEMMA GcRecent ==
    ASSUME GcApart, AgeLimit = FALSE, RecentInv, NEW p \in Proc,
           GcBegin(p) \/ GcWork(p)
    PROVE  RecentInv' /\ \A h \in Addr : man'[h] = man[h] \/ Stale(h)
<1>1. TypeOK /\ TypeOK'
  BY GcType DEF RecentInv
<1>2. CASE GcList(p, KeepCut)
  <2>1. /\ MayClean /\ UNCHANGED <<man, older>>
        /\ job' = [job EXCEPT ![p] = Task("listed", None, None, None, KeepCut)]
    BY <1>2 DEF GcList
  <2>2. \A h \in KeepCut : Stale(h)
    BY DEF KeepCut, Stale, Newer
  <2>3. OrderInv' /\ \A h \in Addr : Stale(h) => Stale(h)'
    BY <2>1 DEF RecentInv, OrderInv, Stale, Newer, Listed
  <2>4. /\ job'[p].todo = KeepCut /\ job'[p].pc = "listed"
        /\ \A q \in Proc \ {p} : job'[q] = job[q]
    BY <1>1, <2>1 DEF TypeOK, Task
  <2>5. \A q, r \in Proc : ~(Writing(q)' /\ Cleaning(r)')
    BY <2>1, <2>4 DEF MayClean, Writing, WritePc
  <2>6. \A q \in Proc : job[q].todo \subseteq Addr /\ KeepCut \subseteq Addr
    BY <1>1 DEF TypeOK, Job, KeepCut, Listed
  <2>7. \A q \in Proc : Cleaning(q)' => \A h \in job'[q].todo : Stale(h)'
    BY <2>2, <2>3, <2>4, <2>6 DEF RecentInv, Cleaning
  <2> QED BY <1>1, <2>1, <2>3, <2>5, <2>7 DEF RecentInv
<1>3. ASSUME NEW h \in Addr, GcRemoveManifest(p, h)
      PROVE  RecentInv' /\ \A k \in Addr : man'[k] = man[k] \/ Stale(k)
  <2>1. /\ job[p].pc = "listed" /\ h \in job[p].todo
        /\ man' = [man EXCEPT ![h] = Absent]
        /\ older' = {e \in older : e[1] # h /\ e[2] # h}
        /\ job' = [job EXCEPT ![p] =
                     Task("unlinking", h, None, None, job[p].todo \ {h})]
    BY <1>3 DEF GcRemoveManifest
  <2>2. Stale(h)
    BY <2>1 DEF RecentInv, Cleaning, CleanPc
  <2>3. OrderInv' /\ \A k \in Addr : Stale(k) => Stale(k)'
    BY <2>1, <2>2, RemoveOrder DEF RecentInv
  <2>4. /\ job'[p].todo \subseteq job[p].todo /\ job'[p].pc = "unlinking"
        /\ \A q \in Proc \ {p} : job'[q] = job[q]
    BY <1>1, <2>1 DEF TypeOK, Task
  <2>5. \A q \in Proc : /\ Writing(q)' => Writing(q)
                        /\ Cleaning(q)' => Cleaning(q)
                        /\ job'[q].todo \subseteq job[q].todo
    BY <2>1, <2>4 DEF Writing, Cleaning, WritePc, CleanPc
  <2>6. \A q \in Proc : job[q].todo \subseteq Addr
    BY <1>1 DEF TypeOK, Job
  <2>7. \A q \in Proc : Cleaning(q)' => \A k \in job'[q].todo : Stale(k)'
    BY <2>3, <2>5, <2>6 DEF RecentInv
  <2> QED BY <1>1, <2>1, <2>2, <2>3, <2>5, <2>7 DEF RecentInv, TypeOK
<1>4. CASE GcRemoveBlob(p)
  <2>1. /\ job[p].pc = "unlinking" /\ UNCHANGED <<man, older>>
        /\ job' = [job EXCEPT ![p] =
                     IF job[p].todo = {} THEN Idle
                     ELSE Task("listed", None, None, None, job[p].todo)]
    BY <1>4 DEF GcRemoveBlob
  <2>2. OrderInv' /\ \A k \in Addr : Stale(k) => Stale(k)'
    BY <2>1 DEF RecentInv, OrderInv, Stale, Newer, Listed
  <2>3. \A q \in Proc : /\ Writing(q)' => Writing(q)
                        /\ Cleaning(q)' => Cleaning(q)
                        /\ job'[q].todo \subseteq job[q].todo
    BY <1>1, <2>1
    DEF TypeOK, Writing, Cleaning, WritePc, CleanPc, Task, Idle
  <2>4. \A q \in Proc : job[q].todo \subseteq Addr
    BY <1>1 DEF TypeOK, Job
  <2>5. \A q \in Proc : Cleaning(q)' => \A k \in job'[q].todo : Stale(k)'
    BY <2>2, <2>3, <2>4 DEF RecentInv
  <2> QED BY <1>1, <2>1, <2>2, <2>3, <2>5 DEF RecentInv
<1> QED BY <1>2, <1>3, <1>4 DEF GcBegin, GcWork

\* What writers and readers do keeps RecentInv and removes no manifest.
LEMMA ServeRecent ==
    ASSUME GcApart, RecentInv, NEW p \in Proc, WriterStep(p) \/ ReaderStep(p)
    PROVE  RecentInv' /\ \A h \in Addr : man[h] # Absent => man'[h] # Absent
<1>1. TypeOK /\ TypeOK'
  BY WriterType, ReaderType DEF RecentInv
<1>2. CASE WriteManifest(p)
  <2>1. job[p].pc = "closed" /\ job[p].var \in Digest /\ Writing(p)
    BY <1>1, <1>2 DEF WriteManifest, TypeOK, Job, Writing, WritePc
  <2>2. Absent \notin Digest
    BY ValueAssumption DEF Digest
  <2>3. job[p].var \in Manifest /\ job[p].var # Absent
    BY <2>1, <2>2 DEF Manifest
  <2>4. RecentInv'
    BY <1>1, <1>2, <2>1, <2>3, ManifestRecent DEF WriteManifest
  <2> QED BY <1>1, <1>2, <2>3, <2>4 DEF WriteManifest, TypeOK
<1>3. CASE ~WriteManifest(p)
  <2> USE DEF Writing, Cleaning, WritePc, CleanPc, Task, Idle
  <2>1. /\ UNCHANGED <<man, older>>
        /\ \A q \in Proc \ {p} : job'[q] = job[q]
    BY <1>1, <1>3 DEF TypeOK, WriterStep, ReaderStep, StartCreate,
       StartMergeCli, StartMergePy, OpenDest, CloseDest, HashDest, CutDelta,
       StartInferCli, CheckBlob, InferPy
  <2>2. ~Cleaning(p)'
    BY <1>1, <1>3 DEF TypeOK, Job, WriterStep, ReaderStep, StartCreate,
       StartMergeCli, StartMergePy, OpenDest, CloseDest, HashDest, CutDelta,
       StartInferCli, CheckBlob, InferPy
  <2>3. Writing(p)' => Writing(p) \/ \A q \in Proc : ~Cleaning(q)
    BY <1>1, <1>3 DEF TypeOK, Job, WriterStep, ReaderStep, StartCreate,
       StartMergeCli, StartMergePy, OpenDest, CloseDest, HashDest, CutDelta,
       StartInferCli, CheckBlob, InferPy, MayWrite
  <2>4. RecentInv'
    BY <1>1, <2>1, <2>2, <2>3, OtherRecent
  <2> QED BY <2>1, <2>4
<1> QED BY <1>2, <1>3

\* So does killing a process.
LEMMA CrashRecent ==
    ASSUME RecentInv, NEW p \in Proc, Crash(p)
    PROVE  RecentInv' /\ \A h \in Addr : man[h] # Absent => man'[h] # Absent
<1>1. TypeOK /\ TypeOK'
  BY CrashType DEF RecentInv
<1>2. job' = [job EXCEPT ![p] = Idle]
  BY DEF Crash
<1>3. Idle.pc \notin CleanPc \cup WritePc
  BY DEF Idle, Task, CleanPc, WritePc
<1>4. CASE UNCHANGED <<man, older>>
  BY <1>1, <1>2, <1>3, <1>4, OtherRecent DEF TypeOK, Writing, Cleaning
<1>5. CASE /\ job[p].pc = "closed"
           /\ man' = [man EXCEPT ![job[p].addr] = Unreadable]
           /\ older' = Touch(job[p].addr)
  <2>1. Writing(p)
    BY <1>5 DEF Writing, WritePc
  <2>2. Unreadable \in Manifest /\ Unreadable # Absent
    BY ValueAssumption DEF Manifest
  <2> QED BY <1>1, <1>2, <1>5, <2>1, <2>2, ManifestRecent DEF TypeOK
<1> QED BY <1>4, <1>5 DEF Crash

\* gc --keep-latest n that runs apart from writers never removes one of the n
\* newest packets, however many runs of gc work at once from listings of
\* their own and whoever is killed (run_gc).
THEOREM RecentPacketsSurvive ==
    ASSUME GcApart, AgeLimit = FALSE
    PROVE  Spec => RecentSurvives
<1> DEFINE Safe == \A h \in Addr :
              /\ man[h] # Absent
              /\ Cardinality({g \in Listed : <<h, g>> \in older}) < KeepLatest
              => man'[h] # Absent
<1>1. Init => RecentInv
  <2> SUFFICES ASSUME Init PROVE RecentInv
    OBVIOUS
  <2>1. TypeOK
    BY DEF Init, TypeOK, Job, Task, Pc, WritePc, Fd, Idle, Blob, Manifest
  <2>2. Listed = {} /\ older = {}
    BY DEF Init, Listed
  <2>3. OrderInv
    BY <2>2, FS_EmptySet DEF OrderInv
  <2> QED BY <2>1, <2>3 DEF Init, RecentInv, Writing, Cleaning, Idle, Task,
                            WritePc, CleanPc
<1>2. ASSUME RecentInv, [Next]_vars
      PROVE  RecentInv' /\ [Safe]_vars
  <2>1. CASE UNCHANGED vars
    BY <1>2, <2>1 DEF vars, RecentInv, OrderInv, TypeOK, Writing, Cleaning,
                      Stale, Newer, Listed
  <2>2. ASSUME NEW p \in Proc, GcBegin(p) \/ GcWork(p)
        PROVE  RecentInv' /\ Safe
    <3>1. RecentInv' /\ \A h \in Addr : man'[h] = man[h] \/ Stale(h)
      BY <1>2, <2>2, GcRecent
    <3>2. ASSUME NEW h \in Addr, man[h] # Absent,
                 Cardinality({g \in Listed : <<h, g>> \in older}) < KeepLatest
          PROVE  man'[h] # Absent
      <4>1. Cardinality(Newer(h)) \in Nat
        BY <1>2, FS_Subset, FS_CardinalityType DEF RecentInv, OrderInv, Newer
      <4>2. ~Stale(h)
        BY <3>2, <4>1, KeepAssumption DEF Stale, Newer
      <4> QED BY <3>1, <3>2, <4>2
    <3> QED BY <3>1, <3>2
  <2>3. ASSUME NEW p \in Proc, WriterStep(p) \/ ReaderStep(p) \/ Crash(p)
        PROVE  RecentInv' /\ Safe
    BY <1>2, <2>3, ServeRecent, CrashRecent
  <2> QED BY <1>2, <2>1, <2>2, <2>3 DEF Next
<1> QED BY <1>1, <1>2, PTL DEF Spec, RecentSurvives
=============================================================================
