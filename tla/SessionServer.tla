--------------------------- MODULE SessionServer ---------------------------
(***************************************************************************)
(* state_pack/session_server.py: POST /sessions, POST /sessions/{id}/step  *)
(* and DELETE /sessions/{id}, run by the threads of a pool over the        *)
(* dictionaries _base_cache, _base_tokens and _sessions, without a lock.   *)
(* A cached base is shared by reference with every session opened on it.   *)
(*                                                                         *)
(* A KV cache is represented by the text it was computed from, and a delta *)
(* by the session it was sent to.  Token counters, dtypes and elapsed      *)
(* times are left out, the blob is (nothing here reads it), and of the     *)
(* manifest only its presence counts.  A request that fails before it has  *)
(* changed anything (404) is not a step.  A step ends where a thread has   *)
(* read or written something shared, runs the model or does file I/O.      *)
(***************************************************************************)
EXTENDS Naturals, Sequences, FiniteSets

CONSTANTS
    Thread,     \* threads of the server's pool
    Session,    \* session ids uuid4 can return
    Text,       \* base texts
    MaxSteps,   \* bound: steps sent to one session
    MaxErrors,  \* bound: packets that cannot be stored
    MaxObj,     \* live cache objects (texts + sessions + threads + 1: no bound)
    InPlace,    \* does a forward pass append to the cache it is given
    None        \* no value

ASSUME ThreadAssumption == IsFiniteSet(Thread)
ASSUME BoundAssumption ==
    {MaxSteps, MaxErrors} \subseteq Nat /\ MaxObj \in Nat /\ InPlace \in BOOLEAN

\* A text and the deltas run on it, by the sessions they were sent to.
Cache == [base : Text, deltas : Seq(Session)]
\* DynamicCache objects.
Obj == 1..MaxObj

\* The fields of a session: base_sha256, past, step.
Fields == [base : Text, past : Obj, step : Nat]

ASSUME ValueAssumption == None \notin Obj \cup Session \cup Text \cup Fields

VARIABLES
    shared,   \* _base_cache: the object cached for a base text
    counted,  \* _base_tokens: the texts that have an entry
    heap,     \* the contents of the live objects
    man,      \* the texts whose packet has a manifest in the store
    sess,     \* the dictionary of each session opened so far
    open,     \* the keys of _sessions
    req,      \* what each thread is doing
    lost,     \* history: texts whose packet could not be stored
    sent,     \* history: steps begun on each session
    mixed,    \* history: sessions on which two steps have overlapped
    errors    \* packets that could not be stored, so far

vars == <<shared, counted, heap, man, sess, open, req, lost, sent, mixed,
          errors>>
history == <<lost, sent, mixed, errors>>

Pc == {"idle", "insert", "count", "persist", "return",
       "run", "put", "read", "write", "receipt"}

\* A request on its way: for the text base or the session sid; obj is the
\* cache in hand, seen the step counter it has read.
Req == {r \in [pc : Pc, base : Text \cup {None}, sid : Session \cup {None},
               obj : Obj \cup {None}, seen : Nat] :
           /\ r.base # None <=>
                 r.pc \in {"insert", "count", "persist", "return"}
           /\ r.sid # None <=>
                 r.pc \in {"run", "put", "read", "write", "receipt"}
           /\ r.obj # None <=> r.pc \in {"insert", "run", "put"}}
Idle == [pc |-> "idle", base |-> None, sid |-> None, obj |-> None, seen |-> 0]

Opened == {s \in Session : sess[s] # None}
Held == ({shared[t] : t \in Text} \cup {sess[s].past : s \in Opened}
         \cup {req[i].obj : i \in Thread}) \ {None}
\* A new object: the first one nobody refers to.
Fresh == {o \in Obj \ Held : \A p \in 1..(o - 1) : p \in Held}
\* An object nobody refers to any more is gone; o now holds kv.
HeapKept == \E held \in {Held'} : heap' = [x \in held |-> heap[x]]
HeapWith(o, kv) ==
    \E held \in {Held'} :
        heap' = [x \in held |-> IF x = o THEN kv ELSE heap[x]]

Init ==
    /\ shared = [t \in Text |-> None]
    /\ counted = {}
    /\ heap = << >>
    /\ man = {}
    /\ sess = [s \in Session |-> None]
    /\ open = {}
    /\ req = [i \in Thread |-> Idle]
    /\ lost = {}
    /\ sent = [s \in Session |-> 0]
    /\ mixed = {}
    /\ errors = 0

-----------------------------------------------------------------------------
(* POST /sessions: _get_or_create_base, then the new entry of _sessions *)

\* Bound: there is an id left for every session on its way to be opened.
IdLeft == Cardinality(Opened) + Cardinality({j \in Thread : req[j].base # None})
          < Cardinality(Session)

\* A text not seen before: the model reads it into a new cache.
CreateMiss(i, t) ==
    /\ req[i] = Idle
    /\ IdLeft
    /\ shared[t] = None
    /\ UNCHANGED <<shared, counted, man, sess, open, history>>
    /\ \E o \in Fresh :
          /\ req' = [req EXCEPT ![i] = [Idle EXCEPT !.pc = "insert",
                                                    !.base = t, !.obj = o]]
          /\ HeapWith(o, [base |-> t, deltas |-> << >>])

CreateHit(i, t) ==
    /\ req[i] = Idle
    /\ IdLeft
    /\ shared[t] # None
    /\ req' = [req EXCEPT ![i] = [Idle EXCEPT !.pc = "return", !.base = t]]
    /\ UNCHANGED <<shared, counted, heap, man, sess, open, history>>

\* The cache replaces the one another thread may have put there meanwhile.
InsertCache(i) ==
    /\ req[i].pc = "insert"
    /\ shared' = [shared EXCEPT ![req[i].base] = req[i].obj]
    /\ req' = [req EXCEPT ![i].pc = "count", ![i].obj = None]
    /\ UNCHANGED <<counted, man, sess, open, history>>
    /\ HeapKept

\* Mutant of InsertTokens: the count is taken from the stored packet, after
\* the request has returned.
InsertTokensLater(i) ==
    /\ req[i].pc = "count"
    /\ counted' = counted \cup (man \cap {req[i].base})
    /\ req' = [req EXCEPT ![i].pc = "persist"]
    /\ UNCHANGED <<shared, heap, man, sess, open, history>>

InsertTokens(i) ==
    /\ req[i].pc = "count"
    /\ counted' = counted \cup {req[i].base}
    /\ req' = [req EXCEPT ![i].pc = "persist"]
    /\ UNCHANGED <<shared, heap, man, sess, open, history>>

\* PacketStore.create: the packet is in the store when it returns.
Persist(i) ==
    /\ req[i].pc = "persist"
    /\ man' = man \cup {req[i].base}
    /\ req' = [req EXCEPT ![i].pc = "return"]
    /\ UNCHANGED <<shared, counted, heap, sess, open, history>>

\* The disk is full: the request fails, perhaps in the middle of the
\* manifest.  The cache stays in _base_cache.
PersistFails(i) ==
    /\ req[i].pc = "persist"
    /\ errors < MaxErrors
    /\ errors' = errors + 1
    /\ man' \in {man, man \ {req[i].base}}
    /\ lost' = lost \cup {req[i].base}
    /\ req' = [req EXCEPT ![i] = Idle]
    /\ UNCHANGED <<shared, counted, heap, sess, open, sent, mixed>>

\* What the dictionaries have now is returned, whoever put it there, and a
\* session is opened on it; no entry of _base_tokens is a KeyError.
OpenSession(i) ==
    LET t == req[i].base
    IN  /\ req[i].pc = "return"
        /\ req' = [req EXCEPT ![i] = Idle]
        /\ IF t \in counted
           THEN \E s \in Session \ Opened :
                   /\ sess' = [sess EXCEPT ![s] =
                         [base |-> t, past |-> shared[t], step |-> 0]]
                   /\ open' = open \cup {s}
           ELSE UNCHANGED <<sess, open>>
        /\ UNCHANGED <<shared, counted, heap, man, history>>

-----------------------------------------------------------------------------
(* POST /sessions/{id}/step *)

\* The steps under way on session s.
Steppers(s) == {i \in Thread : req[i].sid = s}

\* Mutant of StartStep: every step starts from the shared cache.
StartStepFromBase(i, s) ==
    /\ req[i] = Idle
    /\ s \in open
    /\ sent[s] < MaxSteps
    /\ sent' = [sent EXCEPT ![s] = @ + 1]
    /\ mixed' = IF Steppers(s) = {} THEN mixed ELSE mixed \cup {s}
    /\ req' = [req EXCEPT ![i] = [Idle EXCEPT !.pc = "run", !.sid = s,
                                  !.obj = shared[sess[s].base]]]
    /\ UNCHANGED <<shared, counted, heap, man, sess, open, lost, errors>>

\* The session is looked up and its cache taken.
StartStep(i, s) ==
    /\ req[i] = Idle
    /\ s \in open
    /\ sent[s] < MaxSteps
    /\ sent' = [sent EXCEPT ![s] = @ + 1]
    /\ mixed' = IF Steppers(s) = {} THEN mixed ELSE mixed \cup {s}
    /\ req' = [req EXCEPT ![i] = [Idle EXCEPT !.pc = "run", !.sid = s,
                                              !.obj = sess[s].past]]
    /\ UNCHANGED <<shared, counted, heap, man, sess, open, lost, errors>>

\* The cache kv with a delta of session s run on it.
After(kv, s) == [base |-> kv.base, deltas |-> Append(kv.deltas, s)]

\* Mutant of Forward: the model appends to the cache of the session.
ForwardInPlace(i) ==
    /\ req[i].pc = "run"
    /\ req' = [req EXCEPT ![i].pc = "put"]
    /\ UNCHANGED <<shared, counted, man, sess, open, history>>
    /\ HeapWith(req[i].obj, After(heap[req[i].obj], req[i].sid))

Forward(i) ==
    /\ req[i].pc = "run"
    /\ UNCHANGED <<shared, counted, man, sess, open, history>>
    /\ \E o \in IF InPlace THEN {req[i].obj} ELSE Fresh :
          /\ req' = [req EXCEPT ![i].pc = "put", ![i].obj = o]
          /\ HeapWith(o, After(heap[req[i].obj], req[i].sid))

\* The dictionary of the session is changed whether or not it still is in
\* _sessions: sess["past"] = ..., then sess["step"] += 1, a read and a write.
PutPast(i) ==
    /\ req[i].pc = "put"
    /\ sess' = [sess EXCEPT ![req[i].sid].past = req[i].obj]
    /\ req' = [req EXCEPT ![i].pc = "read", ![i].obj = None]
    /\ UNCHANGED <<shared, counted, man, open, history>>
    /\ HeapKept

ReadStep(i) ==
    /\ req[i].pc = "read"
    /\ req' = [req EXCEPT ![i].pc = "write",
                          ![i].seen = sess[req[i].sid].step]
    /\ UNCHANGED <<shared, counted, heap, man, sess, open, history>>

\* Mutant of WriteStep: the session is put back into _sessions.
WriteStepBack(i) ==
    /\ req[i].pc = "write"
    /\ sess' = [sess EXCEPT ![req[i].sid].step = req[i].seen + 1]
    /\ open' = open \cup {req[i].sid}
    /\ req' = [req EXCEPT ![i].pc = "receipt", ![i].seen = 0]
    /\ UNCHANGED <<shared, counted, heap, man, history>>

WriteStep(i) ==
    /\ req[i].pc = "write"
    /\ sess' = [sess EXCEPT ![req[i].sid].step = req[i].seen + 1]
    /\ req' = [req EXCEPT ![i].pc = "receipt", ![i].seen = 0]
    /\ UNCHANGED <<shared, counted, heap, man, open, history>>

\* Mutant of EmitReceipt: a missing manifest is waited for.
EmitReceiptWaiting(i) ==
    /\ req[i].pc = "receipt"
    /\ sess[req[i].sid].base \in man
    /\ req' = [req EXCEPT ![i] = Idle]
    /\ UNCHANGED <<shared, counted, heap, man, sess, open, history>>

\* PacketStore.infer: the step is answered with a receipt, or with an error
\* when the manifest is not there; the session has advanced either way.
EmitReceipt(i) ==
    /\ req[i].pc = "receipt"
    /\ req' = [req EXCEPT ![i] = Idle]
    /\ UNCHANGED <<shared, counted, heap, man, sess, open, history>>

-----------------------------------------------------------------------------
(* DELETE /sessions/{id}, and a step that comes after expires_at *)

\* Mutant of CloseSession: the dictionary of the session is emptied.
CloseAndClear(i, s) ==
    /\ req[i] = Idle
    /\ s \in open
    /\ open' = open \ {s}
    /\ sess' = [sess EXCEPT ![s] = None]
    /\ UNCHANGED <<shared, counted, man, req, history>>
    /\ HeapKept

\* Time is read by step alone, which removes an expired session as DELETE
\* does: every open session may be found expired.
CloseSession(i, s) ==
    /\ req[i] = Idle
    /\ s \in open
    /\ open' = open \ {s}
    /\ UNCHANGED <<shared, counted, heap, man, sess, req, history>>

-----------------------------------------------------------------------------
\* What a thread does with the request it has.
Work(i) ==
    \/ InsertCache(i) \/ InsertTokens(i) \/ Persist(i) \/ OpenSession(i)
    \/ Forward(i) \/ PutPast(i) \/ ReadStep(i) \/ WriteStep(i)
    \/ EmitReceipt(i)

Next ==
    \/ \E i \in Thread :
          \/ \E t \in Text : CreateMiss(i, t) \/ CreateHit(i, t)
          \/ \E s \in Session :
                StartStep(i, s) \/ CloseSession(i, s)
          \/ Work(i) \/ PersistFails(i)

Spec == Init /\ [][Next]_vars

\* A thread that has a request goes on with it; clients and time do as they
\* please, and the disk may work for ever.
FairSpec == Spec /\ \A i \in Thread : WF_vars(Work(i))

-----------------------------------------------------------------------------
(* Properties *)

TypeOK ==
    /\ shared \in [Text -> Obj \cup {None}]
    /\ counted \subseteq Text
    /\ man \subseteq Text
    /\ sess \in [Session -> Fields \cup {None}]
    /\ open \subseteq Opened
    /\ req \in [Thread -> Req]
    /\ \A i \in Thread : req[i].sid # None => req[i].sid \in Opened
    /\ heap \in [Held -> Cache]
    /\ lost \subseteq Text
    /\ sent \in [Session -> 0..MaxSteps]
    /\ mixed \subseteq Session
    /\ errors \in 0..MaxErrors

\* Sessions that share a base never see each other's deltas: what a session
\* is computed from is its base text and deltas that were sent to it, and the
\* shared cache is the base text alone ("shared reference - do NOT mutate").
SessionsApart ==
    /\ \A t \in Text : shared[t] # None =>
          heap[shared[t]] = [base |-> t, deltas |-> << >>]
    /\ \A s \in Opened :
          /\ heap[sess[s].past].base = sess[s].base
          /\ heap[sess[s].past].deltas \in Seq({s})

\* The counter of a session is the number of deltas in its cache whenever no
\* step is under way, also after steps that were answered with an error or
\* that ran while the session was closed, unless two steps have overlapped;
\* and no overlap makes a delta count twice (step: past, then the counter).
StepsCounted ==
    \A s \in Opened :
        /\ Len(heap[sess[s].past].deltas) <= sent[s]
        /\ sess[s].step <= sent[s]
        /\ s \notin mixed /\ Steppers(s) = {} =>
              sess[s].step = Len(heap[sess[s].past].deltas)

\* When no request is under way, a text that looks cached has all a session
\* needs: the token count and, unless storing it has failed, the packet, by
\* whichever of the threads that computed it at once.
BasesReady ==
    (\A i \in Thread : req[i] = Idle) =>
        \A t \in Text : shared[t] # None =>
            t \in counted /\ t \in man \cup lost

\* A session that has left _sessions, closed or expired, does not come back,
\* whatever steps on it are still under way.
StaysClosed == [][Opened \ open \subseteq Opened' \ open']_vars

\* What clients of SessionService see: the cache of every session, and the one
\* that each step under way is making, its delta run on the cache it took.
Caches == [s \in Opened |-> heap[sess[s].past]]
Stepping == {i \in Thread : req[i].pc \in {"run", "put"}}
Made(i) ==
    [sid |-> req[i].sid,
     kv |-> IF req[i].pc = "run" THEN After(heap[req[i].obj], req[i].sid)
            ELSE heap[req[i].obj]]
Jobs == [i \in Stepping |-> Made(i)]
Service == INSTANCE SessionService WITH cache <- Caches, job <- Jobs

\* The server is the service of SessionService, whatever objects its caches
\* share: a session starts on its base text alone, the only thing that changes
\* its cache is the end of a step that was begun on it while it was open
\* (sess["past"] = ...), and that adds one delta to what it then was.
ServesSessions == Service!Spec

\* Every request is answered, one way or the other.
Answered == \A i \in Thread : req[i].pc # "idle" ~> req[i].pc = "idle"
=============================================================================
