---------------------------- MODULE PacketStore ----------------------------
(***************************************************************************)
(* The packet store: a directory with two files per state address, the     *)
(* blob state_packet_<h>.pt and the manifest state_packet_<h>.json that    *)
(* names the blob by its digest, and the processes that share it without   *)
(* any lock.  CliProc are runs of the Rust command line (src/main.rs),     *)
(* PyProc are threads inside the Python PacketStore (state_pack/store.py). *)
(*                                                                         *)
(* Every system call another process can fall between is a step of its     *)
(* own: opening the destination (which truncates it), the end of the copy, *)
(* the hash of the destination in Python, the manifest write, the two      *)
(* reads of infer and verify, and the two unlinks of gc.                   *)
(***************************************************************************)
EXTENDS StatePack

CONSTANTS
    CliProc,     \* runs of the Rust CLI
    PyProc,      \* callers of the Python PacketStore
    Variant,     \* complete blobs an address may be given (dtype, model)
    KeepLatest,  \* the n of gc --keep-latest n
    AgeLimit,    \* is gc also run with --older-than
    GcApart,     \* is gc only run while nothing is being written
    Absent,      \* no such file
    Torn,        \* bytes that are no complete blob; the digest of such bytes
    Unreadable,  \* a manifest that does not parse
    None         \* no value

ASSUME ProcAssumption == CliProc \cap PyProc = {}
ASSUME KeepAssumption ==
    KeepLatest \in Nat /\ {AgeLimit, GcApart} \subseteq BOOLEAN
ASSUME ValueAssumption ==
    /\ {Absent, Torn, Unreadable, None} \cap Variant = {}
    /\ Absent # Torn /\ Absent # Unreadable /\ Torn # Unreadable
    /\ None \notin {Absent, Torn, Unreadable}
    /\ None \notin DeltaText /\ None \notin Addr

Proc == CliProc \cup PyProc

Blob     == Variant \cup {Absent, Torn}
\* What a manifest that parses says its blob is: blob_sha256, and with the
\* address the packet_id.
Digest   == Variant \cup {Torn}
Manifest == Digest \cup {Absent, Unreadable}

\* A delta packet: the text, and the packet it was cut against.
DeltaPacket == [addr : Addr, var : Digest, text : DeltaText]
\* An infer receipt: packet is the packet_id it carries, blob the
\* blob_sha256, text the delta.
Receipt == [by : {"cli", "py"}, addr : Addr, packet : Digest, blob : Digest,
            text : DeltaText]

VARIABLES
    blob,      \* blob files, by address
    man,       \* manifest files, by address
    older,     \* <<g, h>>: the manifest of g was modified before that of h
    job,       \* what each process is doing
    fd,        \* the destination file each process holds open
    deltas,    \* delta packets cut so far
    receipt    \* the infer receipt emitted last

vars == <<blob, man, older, job, fd, deltas, receipt>>

Pc == {"idle", "ready", "copying", "hashing", "closed", "checking",
       "listed", "unlinking"}
WritePc == {"ready", "copying", "hashing", "closed"}
CleanPc == {"listed", "unlinking"}

\* What a process is doing: to the packet of addr, with the blob var and the
\* delta text in hand; todo are the packets gc has still to remove.
Job ==
    {j \in [pc : Pc, addr : Addr \cup {None}, var : Digest \cup {None},
            text : DeltaText \cup {None}, todo : SUBSET Addr] :
        /\ j.pc \in WritePc \cup {"checking", "unlinking"} => j.addr \in Addr
        /\ j.pc \in WritePc \cup {"checking"} => j.var \in Digest
        /\ j.pc = "checking" => j.text \in DeltaText}

Task(pc, h, v, d, todo) ==
    [pc |-> pc, addr |-> h, var |-> v, text |-> d, todo |-> todo]
Idle == Task("idle", None, None, None, {})

\* A file held open for writing.  "sole": nobody truncated the file after
\* this process did.  "clobbered": a writer of the same bytes did.  "mixed":
\* the final bytes depend on the order of the writes.  "unlinked": the file
\* has no name any more.
Fd == {"none", "sole", "clobbered", "mixed", "unlinked"}

Parses(h) == man[h] \in Digest
Listed    == {h \in Addr : man[h] # Absent}

Init ==
    /\ blob = [h \in Addr |-> Absent]
    /\ man = [h \in Addr |-> Absent]
    /\ older = {}
    /\ job = [p \in Proc |-> Idle]
    /\ fd = [p \in Proc |-> "none"]
    /\ deltas = {}
    /\ receipt = None

-----------------------------------------------------------------------------
(* How the store is operated.  No code enforces it: with GcApart nobody     *)
(* starts to write while gc runs, nor gc while somebody writes.            *)

Writing(p)  == job[p].pc \in WritePc
Cleaning(p) == job[p].pc \in CleanPc

MayWrite == GcApart => \A q \in Proc : ~Cleaning(q)
MayClean == GcApart => \A q \in Proc : ~Writing(q)

-----------------------------------------------------------------------------
(* CREATE and MERGE *)

\* The inputs are read and hashed.  The CLI is given a finished blob v and
\* has its digest from here on; Python is given the tensors.
StartCreate(p, t, v) ==
    /\ job[p] = Idle
    /\ MayWrite
    /\ job' = [job EXCEPT ![p] =
                 Task("ready", BaseAddr(t), v, None, {})]
    /\ UNCHANGED <<blob, man, older, fd, deltas, receipt>>

\* merge_packet: the delta packet must have been cut against the manifest.
StartMergeCli(p, dp, v) ==
    /\ job[p] = Idle
    /\ MayWrite
    /\ CanExtend(dp.addr)
    /\ man[dp.addr] = dp.var
    /\ job' = [job EXCEPT ![p] =
                 Task("ready", MergedAddr(dp.addr, dp.text), v, None, {})]
    /\ UNCHANGED <<blob, man, older, fd, deltas, receipt>>

\* PacketStore.merge: no packet id, the manifest only has to parse.
StartMergePy(p, h, d, v) ==
    /\ job[p] = Idle
    /\ MayWrite
    /\ CanExtend(h)
    /\ Parses(h)
    /\ job' = [job EXCEPT ![p] =
                 Task("ready", MergedAddr(h, d), v, None, {})]
    /\ UNCHANGED <<blob, man, older, fd, deltas, receipt>>

\* The processes that hold the file now named by h open for writing.
Sharers(h) ==
    {q \in Proc : job[q].pc = "copying" /\ job[q].addr = h
                  /\ fd[q] # "unlinked"}

\* Mutant of OpenDest: the old blob is removed before the new one is written.
RemoveThenOpen(p) ==
    /\ job[p].pc = "ready"
    /\ blob' = [blob EXCEPT ![job[p].addr] = Absent]
    /\ fd' = [fd EXCEPT ![p] = "sole"]
    /\ job' = [job EXCEPT ![p].pc = "copying"]
    /\ UNCHANGED <<man, older, deltas, receipt>>

\* fs::copy and torch.save open the destination truncating it: whatever the
\* sharers had written is lost, and they write on at their own offsets.
OpenDest(p) ==
    LET h      == job[p].addr
        clash  == \E q \in Sharers(h) : job[q].var # job[p].var
    IN  /\ job[p].pc = "ready"
        /\ blob' = [blob EXCEPT ![h] = Torn]
        /\ fd' = [q \in Proc |->
                    IF q = p THEN IF clash THEN "mixed" ELSE "sole"
                    ELSE IF q \in Sharers(h)
                         THEN IF clash THEN "mixed" ELSE "clobbered"
                    ELSE fd[q]]
        /\ job' = [job EXCEPT ![p].pc = "copying"]
        /\ UNCHANGED <<man, older, deltas, receipt>>

\* What the file can hold when p has written its last byte.
Copied(p) ==
    LET h == job[p].addr
    IN  CASE fd[p] = "sole"  -> {job[p].var}
          [] fd[p] = "mixed" -> {job[p].var, Torn, blob[h]}
          [] OTHER           -> {blob[h]}

\* Mutant of CloseDest: the CLI, too, hashes the destination afterwards.
CloseThenHash(p) ==
    /\ job[p].pc = "copying"
    /\ \E b \in Copied(p) : blob' = [blob EXCEPT ![job[p].addr] = b]
    /\ fd' = [fd EXCEPT ![p] = "none"]
    /\ job' = [job EXCEPT ![p].pc = "hashing"]
    /\ UNCHANGED <<man, older, deltas, receipt>>

CloseDest(p) ==
    /\ job[p].pc = "copying"
    /\ \E b \in Copied(p) : blob' = [blob EXCEPT ![job[p].addr] = b]
    /\ fd' = [fd EXCEPT ![p] = "none"]
    /\ job' = [job EXCEPT ![p].pc =
                 IF p \in CliProc THEN "closed" ELSE "hashing"]
    /\ UNCHANGED <<man, older, deltas, receipt>>

\* Mutant of HashDest: a missing file is not an error.
HashWhateverIsThere(p) ==
    /\ job[p].pc = "hashing"
    /\ job' = [job EXCEPT ![p] =
                 Task("closed", job[p].addr, blob[job[p].addr], None, {})]
    /\ UNCHANGED <<blob, man, older, fd, deltas, receipt>>

\* Python takes blob_sha256 from the file it finds under the name, and
\* raises when there is none.
HashDest(p) ==
    /\ job[p].pc = "hashing"
    /\ job' = [job EXCEPT ![p] =
                 IF blob[job[p].addr] = Absent THEN Idle
                 ELSE Task("closed", job[p].addr, blob[job[p].addr], None, {})]
    /\ UNCHANGED <<blob, man, older, fd, deltas, receipt>>

\* h becomes the most recently modified manifest.
Touch(h) == {e \in older : e[1] # h /\ e[2] # h}
            \cup {<<g, h>> : g \in Listed \ {h}}

WriteManifest(p) ==
    /\ job[p].pc = "closed"
    /\ man' = [man EXCEPT ![job[p].addr] = job[p].var]
    /\ older' = Touch(job[p].addr)
    /\ job' = [job EXCEPT ![p] = Idle]
    /\ UNCHANGED <<blob, fd, deltas, receipt>>

WriterStep(p) ==
    \/ \E t \in Text, v \in Variant : StartCreate(p, t, v)
    \/ /\ p \in CliProc
       /\ \E dp \in deltas, v \in Variant : StartMergeCli(p, dp, v)
    \/ /\ p \in PyProc
       /\ \E h \in Addr, d \in DeltaText, v \in Variant :
             StartMergePy(p, h, d, v)
    \/ OpenDest(p)
    \/ CloseDest(p)
    \/ HashDest(p)
    \/ WriteManifest(p)

-----------------------------------------------------------------------------
(* DELTA and INFER *)

CutDelta(p, h, d) ==
    /\ job[p] = Idle
    /\ Parses(h)
    /\ deltas' = deltas \cup {[addr |-> h, var |-> man[h], text |-> d]}
    /\ UNCHANGED <<blob, man, older, job, fd, receipt>>

\* Mutant of StartInferCli: the packet_id is not compared.
StartInferUnbound(p, dp) ==
    /\ job[p] = Idle
    /\ Parses(dp.addr)
    /\ job' = [job EXCEPT ![p] =
                 Task("checking", dp.addr, man[dp.addr], dp.text, {})]
    /\ UNCHANGED <<blob, man, older, fd, deltas, receipt>>

\* infer_packet reads the manifest of the delta packet's base and refuses
\* one with another packet_id.
StartInferCli(p, dp) ==
    /\ job[p] = Idle
    /\ man[dp.addr] = dp.var
    /\ job' = [job EXCEPT ![p] =
                 Task("checking", dp.addr, man[dp.addr], dp.text, {})]
    /\ UNCHANGED <<blob, man, older, fd, deltas, receipt>>

\* Then the blob is hashed.  Two files of torn bytes may or may not have the
\* same digest.  (verify_packet does the same two reads and emits a receipt
\* without a delta; it changes nothing.)
CheckBlob(p) ==
    LET h == job[p].addr
        v == job[p].var
        r == [by |-> "cli", addr |-> h, packet |-> v, blob |-> v,
              text |-> job[p].text]
    IN  /\ job[p].pc = "checking"
        /\ \/ blob[h] = v /\ receipt' = r
           \/ (blob[h] # v \/ v = Torn) /\ UNCHANGED receipt
        /\ job' = [job EXCEPT ![p] = Idle]
        /\ UNCHANGED <<blob, man, older, fd, deltas>>

\* PacketStore.infer answers from the manifest alone.
InferPy(p, h, d) ==
    /\ job[p] = Idle
    /\ Parses(h)
    /\ receipt' = [by |-> "py", addr |-> h, packet |-> man[h],
                   blob |-> man[h], text |-> d]
    /\ UNCHANGED <<blob, man, older, job, fd, deltas>>

ReaderStep(p) ==
    \/ /\ p \in CliProc
       /\ \/ \E h \in Addr, d \in DeltaText : CutDelta(p, h, d)
          \/ \E dp \in deltas : StartInferCli(p, dp)
    \/ /\ p \in PyProc
       /\ \E h \in Addr, d \in DeltaText : InferPy(p, h, d)
    \/ CheckBlob(p)

-----------------------------------------------------------------------------
(* GC *)

\* Mutant of KeepCut: the listing is sorted oldest first.
OldestFirstCut ==
    {h \in Listed : Cardinality({g \in Listed : <<g, h>> \in older})
                      >= KeepLatest}

\* --keep-latest n: all but the first n of the listing, newest first.
KeepCut ==
    {h \in Listed : Cardinality({g \in Listed : <<h, g>> \in older})
                      >= KeepLatest}

\* --older-than, alone or with --keep-latest: whatever is older than
\* something stale is stale.
AgeCuts ==
    {S \in SUBSET Listed :
        \A h \in S : \A g \in Listed : <<g, h>> \in older => g \in S}

\* The directory is listed, sorted and cut once.
GcList(p, cut) ==
    /\ p \in CliProc
    /\ job[p] = Idle
    /\ MayClean
    /\ cut # {}
    /\ job' = [job EXCEPT ![p] =
                 Task("listed", None, None, None, cut)]
    /\ UNCHANGED <<blob, man, older, fd, deltas, receipt>>

\* Then every packet of the cut loses its manifest ...
GcRemoveManifest(p, h) ==
    /\ job[p].pc = "listed"
    /\ h \in job[p].todo
    /\ man' = [man EXCEPT ![h] = Absent]
    /\ older' = {e \in older : e[1] # h /\ e[2] # h}
    /\ job' = [job EXCEPT ![p] =
                 Task("unlinking", h, None, None, job[p].todo \ {h})]
    /\ UNCHANGED <<blob, fd, deltas, receipt>>

\* ... and its blob.  A process that holds the blob open writes on into a
\* file without a name.
GcRemoveBlob(p) ==
    /\ job[p].pc = "unlinking"
    /\ blob' = [blob EXCEPT ![job[p].addr] = Absent]
    /\ fd' = [q \in Proc |->
                IF q \in Sharers(job[p].addr) THEN "unlinked" ELSE fd[q]]
    /\ job' = [job EXCEPT ![p] =
                 IF job[p].todo = {} THEN Idle
                 ELSE Task("listed", None, None, None, job[p].todo)]
    /\ UNCHANGED <<man, older, deltas, receipt>>

GcBegin(p) == \/ GcList(p, KeepCut)
              \/ AgeLimit /\ \E cut \in AgeCuts : GcList(p, cut)

GcWork(p) == \/ \E h \in Addr : GcRemoveManifest(p, h)
             \/ GcRemoveBlob(p)

-----------------------------------------------------------------------------
(* CRASH: a process is killed, or gives up at a system call that fails;     *)
(* nothing cleans up after it.                                             *)

Crash(p) ==
    /\ job[p] # Idle
    /\ job' = [job EXCEPT ![p] = Idle]
    \* Who relied on p to write the bytes it truncated away is left with a
    \* hole in the file.
    /\ fd' = [q \in Proc |->
                IF q = p THEN "none"
                ELSE IF /\ q \in Sharers(job[p].addr)
                        /\ fd[p] = "sole" /\ fd[q] = "clobbered"
                     THEN "mixed" ELSE fd[q]]
    /\ \/ UNCHANGED <<man, older>>
       \/ /\ job[p].pc = "closed"    \* truncated, not yet written
          /\ man' = [man EXCEPT ![job[p].addr] = Unreadable]
          /\ older' = Touch(job[p].addr)
    /\ UNCHANGED <<blob, deltas, receipt>>

-----------------------------------------------------------------------------
\* Writers and readers only.
ServeNext == \E p \in Proc : WriterStep(p) \/ ReaderStep(p)
ServeSpec == Init /\ [][ServeNext]_vars

\* With gc, and any process may be killed.
Next ==
    \E p \in Proc :
        WriterStep(p) \/ ReaderStep(p) \/ GcBegin(p) \/ GcWork(p) \/ Crash(p)
Spec == Init /\ [][Next]_vars

-----------------------------------------------------------------------------
(* Properties *)

TypeOK ==
    /\ blob \in [Addr -> Blob]
    /\ man \in [Addr -> Manifest]
    /\ older \subseteq Addr \X Addr
    /\ job \in [Proc -> Job]
    /\ fd \in [Proc -> Fd]
    /\ deltas \subseteq DeltaPacket
    /\ receipt \in Receipt \cup {None}

\* Processes that create or merge the same packet at the same time, from
\* the same blob, leave it loadable: once nobody is writing the blob of h, a
\* manifest of h names the blob that is there (create_packet and
\* merge_packet hash the source, not the shared destination).
RestingPacketsIntact ==
    \A h \in Addr :
        man[h] # Absent /\ Sharers(h) = {} => man[h] = blob[h]

\* A receipt speaks of the packet its delta was cut against: two infer
\* receipts of the CLI for one delta packet name the same blob, whatever
\* was re-created, collected or lost under that address in between
\* (packet_id is checked by infer_packet before anything is used).
DeltaBinding ==
    receipt # None /\ receipt.by = "cli" =>
        \E dp \in deltas :
            /\ dp.addr = receipt.addr /\ dp.text = receipt.text
            /\ dp.var = receipt.packet /\ dp.var = receipt.blob

\* In a store cleaned only while nothing is being written, a manifest never
\* outlives its blob, though writers, readers and gc are killed at any
\* point: writers write the blob first and gc removes it last.
ManifestHasBlob ==
    \A h \in Addr : man[h] # Absent => blob[h] # Absent

\* gc --keep-latest n removes no manifest that is among the n most recently
\* modified ones when it is removed ("Keep only the N most recently modified
\* packets").
RecentSurvives ==
    [][\A h \in Addr :
          /\ man[h] # Absent
          /\ Cardinality({g \in Listed : <<h, g>> \in older}) < KeepLatest
          => man'[h] # Absent]_vars
=============================================================================
