-------------------------- MODULE ProtocolServer --------------------------
(***************************************************************************)
(* The protocol of src/server.rs with the clients that use it, processes   *)
(* of state_pack/stateless_client.py on the same store directory.  A       *)
(* client runs the model, writes the blob of the new state itself, and     *)
(* then asks the server to check the state it started from (/infer) and to *)
(* write the manifest of the new one (/states, /compact).                  *)
(*                                                                         *)
(* Calls are synchronous, so a client and the handler that works for it    *)
(* are one process, until a call is given up (a lost connection, a dead    *)
(* client): the handler then goes on by itself or is lost.  /merge, which  *)
(* no client calls, and the read-only routes are left out.                 *)
(***************************************************************************)
EXTENDS Naturals, Sequences, FiniteSets

CONSTANTS
    Client,       \* client processes
    Text,         \* base texts
    DeltaText,    \* delta texts
    MaxChain,     \* bound: deltas behind one state
    MaxErrors,    \* bound: operations that break off
    Policy,       \* which compaction policy the clients have
    MinSteps,     \* ThresholdPolicy: min_steps,
    MaxSteps,     \*   max_steps (SavingsPolicy too)
    Ratio,        \*   and token_ratio, in percent
    MinSavings,   \* SavingsPolicy: min_savings_pct
    BaseTokens,   \* tokens of a base text
    DeltaTokens,  \* tokens of a delta
    DeltaWords,   \* words of a delta
    Retry,        \* does the caller go on with step after a failed step
    Absent,       \* no such file, or a manifest that does not parse
    Torn,         \* bytes that are no complete blob, or their digest
    None          \* no value

ASSUME BoundAssumption ==
    /\ {MaxChain, MaxErrors, MinSteps, Ratio, BaseTokens} \subseteq Nat
    /\ {DeltaTokens, DeltaWords, MinSavings} \subseteq Nat
    /\ Policy \in {"threshold", "savings", "always", "never"}
    /\ MaxSteps \in Nat \ {0}
    /\ Retry \in BOOLEAN

Deltas == UNION { [1..n -> DeltaText] : n \in 0..MaxChain }
Kv     == [base : Text, deltas : Deltas]

\* State hashes, by what was hashed: the base text, then parent|delta for
\* each step, and parent|compact|deltas for a compaction, which comes after
\* the first k deltas for each k in folds.
Name == {h \in [base : Text, deltas : Deltas, folds : SUBSET (1..MaxChain)] :
            h.folds \subseteq 1..Len(h.deltas)}

BaseName(t) == [base |-> t, deltas |-> << >>, folds |-> {}]
StepName(h, d) ==
    [base |-> h.base, deltas |-> Append(h.deltas, d), folds |-> h.folds]
FoldName(h) ==
    [base |-> h.base, deltas |-> h.deltas,
     folds |-> h.folds \cup {Len(h.deltas)}]

\* The cache a hash stands for.
Content(h) == [base |-> h.base, deltas |-> h.deltas]
\* The cache kv with d run on it.
After(kv, d) == [base |-> kv.base, deltas |-> Append(kv.deltas, d)]

ASSUME ValueAssumption ==
    /\ {Absent, Torn, None} \cap Kv = {} /\ Absent # Torn
    /\ None \notin {Absent, Torn} \cup Name

Digest == Kv \cup {Torn}

VARIABLES
    blob,   \* blob files, by name
    man,    \* manifest files, by name: the digest in it
    own,    \* the fields of each client
    job,    \* the operation each client is in
    late,   \* handlers whose client does not wait for them any more
    errors  \* operations that have broken off

vars == <<blob, man, own, job, late, errors>>

\* The fields a client keeps: _state_hash, _past, the number of _deltas;
\* failed when a step has broken off after it replaced _past and before it
\* replaced _state_hash, and no set_base has replaced both since.
Fields == [hash : Name \cup {None}, past : Kv \cup {None},
           since : 0..MaxChain, failed : BOOLEAN]
NoState == [hash |-> None, past |-> None, since |-> 0, failed |-> FALSE]

Pc == {"idle", "open", "save", "load", "verify", "hash", "manifest"}

\* The operation on its way to the state target, whose tensors are snap;
\* seen is the digest the handler has read or computed, fd the blob file
\* held open: "sole", "clobbered" by a writer of the same tensors, or
\* "mixed" with other ones.
Job == [pc : Pc, op : {"none", "base", "step", "fold"},
        target : Name \cup {None}, snap : Kv \cup {None},
        seen : Digest \cup {None},
        fd : {"none", "sole", "clobbered", "mixed"}]
Idle == [pc |-> "idle", op |-> "none", target |-> None, snap |-> None,
         seen |-> None, fd |-> "none"]

Storing(op, h, kv) ==
    [Idle EXCEPT !.pc = "open", !.op = op, !.target = h, !.snap = kv]

Init ==
    /\ blob = [h \in Name |-> Absent]
    /\ man = [h \in Name |-> Absent]
    /\ own = [c \in Client |-> NoState]
    /\ job = [c \in Client |-> Idle]
    /\ late = {}
    /\ errors = 0

-----------------------------------------------------------------------------
(* The client *)

\* Mutant of SetBase: the base text is run on top of the cache at hand.
SetBaseOnTop(c, t) ==
    /\ job[c] = Idle
    /\ job' = [job EXCEPT ![c] = Storing("base", BaseName(t),
                 [base |-> t, deltas |-> IF own[c].past = None THEN << >>
                                         ELSE own[c].past.deltas])]
    /\ UNCHANGED <<blob, man, own, late, errors>>

SetBase(c, t) ==
    /\ job[c] = Idle
    /\ job' = [job EXCEPT ![c] =
                 Storing("base", BaseName(t), Content(BaseName(t)))]
    /\ UNCHANGED <<blob, man, own, late, errors>>

\* The model is run, which replaces _past; the hash is replaced only when
\* the server has answered.
Step(c, d) ==
    LET kv == After(own[c].past, d)
    IN  /\ job[c] = Idle
        /\ own[c].past # None
        /\ own[c].failed => Retry
        /\ Len(own[c].past.deltas) < MaxChain
        /\ own' = [own EXCEPT ![c].past = kv]
        /\ job' = [job EXCEPT ![c] =
                     Storing("step", StepName(own[c].hash, d), kv)]
        /\ UNCHANGED <<blob, man, late, errors>>

Savers(h) == {c \in Client : job[c].pc = "save" /\ job[c].target = h}

\* torch.save opens the file, truncating it.
OpenBlob(c) ==
    LET h == job[c].target
        clash == \E e \in Savers(h) : job[e].snap # job[c].snap
    IN  /\ job[c].pc = "open"
        /\ blob' = [blob EXCEPT ![h] = Torn]
        /\ job' = [e \in Client |->
                     IF e = c
                     THEN [job[e] EXCEPT
                             !.pc = "save",
                             !.fd = IF clash THEN "mixed" ELSE "sole"]
                     ELSE IF e \in Savers(h)
                     THEN [job[e] EXCEPT !.fd = IF clash THEN "mixed"
                                                ELSE "clobbered"]
                     ELSE job[e]]
        /\ UNCHANGED <<man, own, late, errors>>

\* What the file can hold when c has written its last byte.
Saved(c) ==
    CASE job[c].fd = "sole"  -> {job[c].snap}
      [] job[c].fd = "mixed" -> {job[c].snap, Torn, blob[job[c].target]}
      [] OTHER               -> {blob[job[c].target]}

\* The last byte; set_base then assigns the fields.
SaveBlob(c) ==
    /\ job[c].pc = "save"
    /\ \E b \in Saved(c) : blob' = [blob EXCEPT ![job[c].target] = b]
    /\ job' = [job EXCEPT
                 ![c].pc = IF job[c].op = "step" THEN "load" ELSE "hash",
                 ![c].fd = "none"]
    /\ own' = IF job[c].op # "base" THEN own
              ELSE [own EXCEPT ![c] =
                      [hash |-> job[c].target, past |-> job[c].snap,
                       since |-> 0, failed |-> FALSE]]
    /\ UNCHANGED <<man, late, errors>>

\* should_compact, for n deltas since the last compaction; tokens counts the
\* base and every delta.
ShouldCompact(n, tokens) ==
    CASE Policy = "threshold" ->
            /\ n >= MinSteps
            /\ n >= MaxSteps \/ 100 * n * DeltaWords > tokens * Ratio
      [] Policy = "savings" ->
            /\ n > 0
            /\ n >= MaxSteps \/ 100 * tokens < MinSavings * (tokens + DeltaWords)
      [] Policy = "always" -> n > 0
      [] Policy = "never" -> FALSE

\* _base_tokens once the state h is adopted.
Tokens(h) == BaseTokens + DeltaTokens * Len(h.deltas)

\* Mutant of Adopted: _deltas is not cleared by a compaction.
AdoptedUncleared(o, op, h) ==
    CASE op = "base" -> o
      [] op = "step" -> [o EXCEPT !.hash = h, !.since = @ + 1]
      [] op = "fold" -> [o EXCEPT !.hash = h]

\* Mutant of Adopted: the step leaves the hash behind.
AdoptedDelta(o, op, h) ==
    CASE op = "base" -> o
      [] op = "step" -> [o EXCEPT !.since = @ + 1]
      [] op = "fold" -> [o EXCEPT !.hash = h, !.since = 0]

\* The fields o of a client whose operation op has made the state h.
Adopted(o, op, h) ==
    CASE op = "base" -> o
      [] op = "step" -> [o EXCEPT !.hash = h, !.since = @ + 1]
      [] op = "fold" -> [o EXCEPT !.hash = h, !.since = 0]

\* What the client does when it is answered: a step may have to compact.
Continue(c, o) ==
    IF job[c].op = "step" /\ ShouldCompact(o.since, Tokens(o.hash))
    THEN Storing("fold", FoldName(o.hash), o.past) ELSE Idle

-----------------------------------------------------------------------------
(* The server *)

\* Mutant of InferLoad: a missing manifest is not an error.
InferLoadAny(c) ==
    /\ job[c].pc = "load"
    /\ job' = [job EXCEPT ![c].pc = "verify", ![c].seen = man[own[c].hash]]
    /\ UNCHANGED <<blob, man, own, late, errors>>

\* infer: the manifest is read ...
InferLoad(c) ==
    /\ job[c].pc = "load"
    /\ man[own[c].hash] \in Digest
    /\ job' = [job EXCEPT ![c].pc = "verify", ![c].seen = man[own[c].hash]]
    /\ UNCHANGED <<blob, man, own, late, errors>>

\* ... and then the blob is hashed.  Torn bytes may differ from torn bytes.
InferVerify(c) ==
    /\ job[c].pc = "verify"
    /\ blob[own[c].hash] = job[c].seen
    /\ job' = [job EXCEPT ![c].pc = "hash", ![c].seen = None]
    /\ UNCHANGED <<blob, man, own, late, errors>>

\* register and compact: the digest is taken from the file under the name
\* (where the client has just put it: compact copies nothing) ...
HashBlob(c) ==
    /\ job[c].pc = "hash"
    /\ job' = [job EXCEPT ![c].pc = "manifest",
                          ![c].seen = blob[job[c].target]]
    /\ UNCHANGED <<blob, man, own, late, errors>>

\* ... and the manifest is written; the client gets its answer.
WriteManifest(c) ==
    /\ job[c].pc = "manifest"
    /\ man' = [man EXCEPT ![job[c].target] = job[c].seen]
    /\ \E o \in {Adopted(own[c], job[c].op, job[c].target)} :
          /\ own' = [own EXCEPT ![c] = o]
          /\ job' = [job EXCEPT ![c] = Continue(c, o)]
    /\ UNCHANGED <<blob, late, errors>>

-----------------------------------------------------------------------------
(* Errors *)

\* infer answers 404 (no manifest, or one that does not parse) or 422 (the
\* blob does not match).
Refused(c) ==
    /\ \/ job[c].pc = "load" /\ man[own[c].hash] \notin Digest
       \/ /\ job[c].pc = "verify"
          /\ blob[own[c].hash] # job[c].seen \/ job[c].seen = Torn
    /\ job' = [job EXCEPT ![c] = Idle]
    /\ own' = [own EXCEPT ![c].failed = TRUE]
    /\ UNCHANGED <<blob, man, late, errors>>

\* The handler c leaves behind, if it had one that still writes a manifest.
Left(c) ==
    IF job[c].pc \in {"hash", "manifest"}
    THEN {[name |-> job[c].target, digest |-> job[c].seen]} ELSE {}

\* c leaves its operation at any point.  Who relied on c for the bytes it
\* had truncated away is left with a hole in the file.
Leave(c) ==
    /\ job[c] # Idle
    /\ errors < MaxErrors
    /\ errors' = errors + 1
    /\ job' = [e \in Client |->
                 IF e = c THEN Idle
                 ELSE IF /\ e \in Savers(job[c].target)
                         /\ job[c].fd = "sole" /\ job[e].fd = "clobbered"
                      THEN [job[e] EXCEPT !.fd = "mixed"] ELSE job[e]]
    /\ late' = late \cup Left(c)
    /\ UNCHANGED <<blob, man>>

\* An exception in the client: the connection is lost, the disk is full.  It
\* leaves the fields as the operation has them at that point.
Fail(c) ==
    /\ Leave(c)
    /\ own' = [own EXCEPT ![c].failed = @ \/ job[c].op = "step"]

\* The client process is killed; another one takes its place.
Kill(c) == Leave(c) /\ own' = [own EXCEPT ![c] = NoState]

\* A handler nobody waits for goes on, and may be killed with the server
\* while it writes the manifest.  One that is lost just does nothing.
LateHash(r) ==
    /\ r.digest = None
    /\ late' = (late \ {r}) \cup {[r EXCEPT !.digest = blob[r.name]]}
    /\ UNCHANGED <<blob, man, own, job, errors>>
LateManifest(r) ==
    /\ r.digest # None
    /\ \E m \in {r.digest, Absent} : man' = [man EXCEPT ![r.name] = m]
    /\ late' = late \ {r}
    /\ UNCHANGED <<blob, own, job, errors>>

-----------------------------------------------------------------------------
Next ==
    \/ \E c \in Client :
          \/ \E t \in Text : SetBase(c, t)
          \/ \E d \in DeltaText : Step(c, d)
          \/ OpenBlob(c) \/ SaveBlob(c)
          \/ InferLoad(c) \/ InferVerify(c)
          \/ HashBlob(c) \/ WriteManifest(c)
          \/ Refused(c) \/ Fail(c) \/ Kill(c)
    \/ \E r \in late : LateHash(r) \/ LateManifest(r)

Spec == Init /\ [][Next]_vars

-----------------------------------------------------------------------------
(* Properties *)

TypeOK ==
    /\ blob \in [Name -> Digest \cup {Absent}]
    /\ man \in [Name -> Digest \cup {Absent}]
    /\ own \in [Client -> Fields]
    /\ job \in [Client -> Job]
    /\ late \subseteq [name : Name, digest : Digest \cup {None}]
    /\ errors \in 0..MaxErrors

\* Between two operations the cache a client holds is the one its hash stands
\* for, through steps and compactions, and through failures of set_base and
\* of a compaction, unless a step has failed (_past and _state_hash are
\* replaced at different points of set_base, step and _compact).
ClientNames ==
    \A c \in Client :
        job[c] = Idle /\ ~own[c].failed /\ own[c].hash # None =>
            own[c].past = Content(own[c].hash)

\* A blob that is not torn, and a manifest that does not name torn bytes,
\* are of the state their hash stands for: whichever client wrote it last,
\* however the calls of others failed in between ("The same state_hash from
\* any client always returns the same result").
SameHashSameState ==
    \A h \in Name :
        /\ blob[h] \in Kv => blob[h] = Content(h)
        /\ man[h] \in Kv => man[h] = Content(h)

\* The policy has an upper limit that min_steps does not lift.
CompactsInTime ==
    Policy # "never" /\ (Policy = "threshold" => MinSteps <= MaxSteps)

\* A compaction that is due is done before the step returns: a client comes
\* to max_steps deltas or more only by a compaction that failed, and to one
\* more for each failure (the policy is asked after each step, _deltas is
\* cleared after the call).
DeltasBounded ==
    CompactsInTime =>
        \A c \in Client : job[c] = Idle => own[c].since < MaxSteps + errors
=============================================================================
