------------------------ MODULE SessionServerProofs ------------------------
(***************************************************************************)
(* Proofs about SessionServer.                                             *)
(***************************************************************************)
EXTENDS SessionServer, Counting, SequenceTheorems, TLAPS

(* Types *)

\* A request that has a cached base left to return finds one in _base_cache,
\* which loses no entry.
CachedInv ==
    \A i \in Thread :
        req[i].pc \in {"count", "persist", "return"} =>
            shared[req[i].base] # None
TypeInv == TypeOK /\ CachedInv

\* The heap holds the objects somebody refers to, whoever stops doing so.
LEMMA HeapKeptTypes ==
    ASSUME TypeOK, HeapKept, Held' \subseteq Held
    PROVE  heap' \in [Held' -> Cache]
BY DEF TypeOK, HeapKept

\* So it does when one object gets new contents.
LEMMA HeapWithTypes ==
    ASSUME TypeOK, NEW o, NEW kv \in Cache, HeapWith(o, kv),
           Held' \subseteq Held \cup {o}
    PROVE  heap' \in [Held' -> Cache]
BY DEF TypeOK, HeapWith

\* Objects, and the caches in them.
LEMMA HeldTypes ==
    ASSUME TypeOK
    PROVE  /\ \A t \in Text : shared[t] # None =>
                 shared[t] \in Obj \cap Held /\ heap[shared[t]] \in Cache
           /\ \A s \in Opened :
                 /\ sess[s] \in Fields /\ sess[s].past \in Obj \cap Held
                 /\ heap[sess[s].past] \in Cache
           /\ \A i \in Thread : req[i].obj # None =>
                 req[i].obj \in Obj \cap Held /\ heap[req[i].obj] \in Cache
           /\ \A s, ds : s \in Session /\ ds \in Cache =>
                 After(ds, s) \in Cache
<1>1. \A t \in Text : shared[t] # None => shared[t] \in Obj \cap Held
  BY DEF TypeOK, Held
<1>2. \A s \in Opened : sess[s] \in Fields /\ sess[s].past \in Obj \cap Held
  BY ValueAssumption DEF TypeOK, Opened, Held, Fields
<1>3. \A i \in Thread : req[i].obj # None => req[i].obj \in Obj \cap Held
  BY DEF TypeOK, Held, Req
<1>4. \A s, ds : s \in Session /\ ds \in Cache => After(ds, s) \in Cache
  <2> SUFFICES ASSUME NEW s \in Session, NEW kv \in Cache
               PROVE  After(kv, s) \in Cache
    OBVIOUS
  <2>1. kv.base \in Text /\ kv.deltas \in Seq(Session)
    BY DEF Cache
  <2>2. Append(kv.deltas, s) \in Seq(Session)
    BY <2>1, AppendProperties
  <2> QED BY <2>1, <2>2 DEF After, Cache
<1> QED BY <1>1, <1>2, <1>3, <1>4 DEF TypeOK

\* POST /sessions.
LEMMA CreateType ==
    ASSUME TypeInv, NEW i \in Thread, NEW t \in Text,
           CreateMiss(i, t) \/ CreateHit(i, t)
    PROVE  TypeInv'
<1>1. CASE CreateMiss(i, t)
  <2>1. PICK o \in Fresh :
           /\ req' = [req EXCEPT ![i] = [Idle EXCEPT !.pc = "insert",
                                                     !.base = t, !.obj = o]]
           /\ HeapWith(o, [base |-> t, deltas |-> << >>])
    BY <1>1 DEF CreateMiss
  <2>2. o \in Obj /\ [base |-> t, deltas |-> << >>] \in Cache
    BY DEF Fresh, Cache
  <2>3. [Idle EXCEPT !.pc = "insert", !.base = t, !.obj = o] \in Req
    BY <2>2, ValueAssumption DEF Idle, Req, Pc
  <2>4. /\ req' \in [Thread -> Req]
        /\ \A j \in Thread : req'[j].obj \in {req[j].obj, o}
        /\ \A j \in Thread : req'[j].sid \in {req[j].sid, None}
        /\ \A j \in Thread : req'[j].pc = "insert" \/ req'[j] = req[j]
    BY <2>1, <2>3 DEF TypeInv, TypeOK, Idle
  <2>5. UNCHANGED <<shared, counted, man, sess, open, lost, sent, mixed,
                    errors>>
    BY <1>1 DEF CreateMiss, history
  <2>6. Held' \subseteq Held \cup {o}
    BY <2>4, <2>5 DEF Held, Opened
  <2>7. heap' \in [Held' -> Cache]
    BY <2>1, <2>2, <2>6, HeapWithTypes DEF TypeInv
  <2> QED BY <2>4, <2>5, <2>7 DEF TypeInv, TypeOK, CachedInv, Opened
<1>2. CASE CreateHit(i, t)
  <2>1. [Idle EXCEPT !.pc = "return", !.base = t] \in Req
    BY ValueAssumption DEF Idle, Req, Pc
  <2>2. UNCHANGED <<shared, counted, heap, man, sess, open, lost, sent, mixed,
                    errors>>
    BY <1>2 DEF CreateHit, history
  <2>3. /\ req' \in [Thread -> Req]
        /\ \A j \in Thread : req'[j].obj = req[j].obj
        /\ \A j \in Thread : req'[j].sid = req[j].sid
        /\ \A j \in Thread : req'[j] = req[j] \/ req'[j].base = t
    BY <1>2, <2>1 DEF CreateHit, TypeInv, TypeOK, Idle
  <2>4. Held' = Held
    BY <2>2, <2>3 DEF Held, Opened
  <2>5. shared[t] # None
    BY <1>2 DEF CreateHit
  <2> QED BY <2>2, <2>3, <2>4, <2>5 DEF TypeInv, TypeOK, CachedInv, Opened
<1> QED BY <1>1, <1>2

\* The rest of _get_or_create_base, and the new session.
LEMMA BaseType ==
    ASSUME TypeInv, NEW i \in Thread,
           \/ InsertCache(i) \/ InsertTokens(i) \/ Persist(i)
           \/ PersistFails(i) \/ OpenSession(i)
    PROVE  TypeInv'
<1>1. req[i] \in Req /\ UNCHANGED <<sent, mixed>>
  BY DEF TypeInv, TypeOK, InsertCache, InsertTokens, Persist, PersistFails,
         OpenSession, history
<1>2. CASE InsertCache(i)
  <2>1. /\ req[i].pc = "insert" /\ req[i].base \in Text /\ req[i].obj \in Obj
        /\ UNCHANGED <<counted, man, sess, open, lost, errors>> /\ HeapKept
        /\ shared' = [shared EXCEPT ![req[i].base] = req[i].obj]
    BY <1>1, <1>2 DEF InsertCache, Req, history
  <2>2. [req[i] EXCEPT !.pc = "count", !.obj = None] \in Req
    BY <1>1, <2>1 DEF Req, Pc
  <2>3. /\ req' \in [Thread -> Req]
        /\ \A j \in Thread : req'[j].obj \in {req[j].obj, None}
        /\ \A j \in Thread : req'[j].sid = req[j].sid
        /\ \A j \in Thread : req'[j].base = req[j].base
        /\ \A j \in Thread : req'[j] = req[j] \/ j = i
    BY <1>1, <1>2, <2>2 DEF InsertCache, TypeInv, TypeOK, Req
  <2>4. Held' \subseteq Held
    BY <2>1, <2>3 DEF Held, Opened, TypeInv, TypeOK
  <2>5. heap' \in [Held' -> Cache]
    BY <2>1, <2>4, HeapKeptTypes DEF TypeInv
  <2>6. shared' \in [Text -> Obj \cup {None}]
    BY <2>1 DEF TypeInv, TypeOK
  <2>7. CachedInv'
    BY <2>1, <2>3, ValueAssumption DEF TypeInv, TypeOK, CachedInv, Req
  <2> QED BY <1>1, <2>1, <2>3, <2>5, <2>6, <2>7 DEF TypeInv, TypeOK, Opened
<1>3. CASE InsertTokens(i) \/ Persist(i) \/ PersistFails(i)
  <2>1. /\ UNCHANGED <<shared, heap, sess, open>>
        /\ req[i].pc \in {"count", "persist"} /\ req[i].base \in Text
    BY <1>1, <1>3 DEF InsertTokens, Persist, PersistFails, Req
  <2>2. /\ counted' \subseteq Text /\ man' \subseteq Text
        /\ lost' \subseteq Text /\ errors' \in 0..MaxErrors
    BY <1>3, <2>1, BoundAssumption
    DEF InsertTokens, Persist, PersistFails, TypeInv, TypeOK, history
  <2>3. /\ [req[i] EXCEPT !.pc = "persist"] \in Req
        /\ [req[i] EXCEPT !.pc = "return"] \in Req
        /\ Idle \in Req
    BY <1>1, <2>1 DEF Req, Pc, Idle
  <2>4. /\ req' \in [Thread -> Req]
        /\ \A j \in Thread : req'[j].obj = req[j].obj
        /\ \A j \in Thread : req'[j].sid = req[j].sid
        /\ \A j \in Thread \ {i} : req'[j] = req[j]
        /\ req'[i].base = req[i].base \/ req'[i].pc = "idle"
    <3>1. \/ req' = [req EXCEPT ![i] = [req[i] EXCEPT !.pc = "persist"]]
          \/ req' = [req EXCEPT ![i] = [req[i] EXCEPT !.pc = "return"]]
          \/ req' = [req EXCEPT ![i] = Idle]
      BY <1>3 DEF InsertTokens, Persist, PersistFails, TypeInv, TypeOK
    <3>2. req[i].obj = None /\ req[i].sid = None
      BY <1>1, <2>1 DEF Req
    <3> QED BY <1>1, <2>3, <3>1, <3>2 DEF TypeInv, TypeOK, Req, Idle
  <2>5. Held' = Held
    BY <2>1, <2>4 DEF Held, Opened
  <2>6. CachedInv'
    BY <2>1, <2>4 DEF TypeInv, CachedInv
  <2> QED BY <1>1, <2>1, <2>2, <2>4, <2>5, <2>6 DEF TypeInv, TypeOK, Opened
<1>4. CASE OpenSession(i)
  <2> DEFINE t == req[i].base
  <2>1. /\ UNCHANGED <<shared, counted, heap, man, lost, errors>>
        /\ req[i].pc = "return" /\ t \in Text /\ req[i].sid = None
        /\ req[i].obj = None
        /\ req' = [req EXCEPT ![i] = Idle]
    BY <1>1, <1>4 DEF OpenSession, Req, history
  <2>2. shared[t] \in Obj
    BY <2>1 DEF TypeInv, TypeOK, CachedInv
  <2>3. Idle \in Req
    BY DEF Req, Pc, Idle
  <2>4. /\ req' \in [Thread -> Req]
        /\ \A j \in Thread : req'[j].obj = req[j].obj
        /\ \A j \in Thread : req'[j].sid = req[j].sid
        /\ \A j \in Thread : req'[j] = req[j] \/ req'[j].pc = "idle"
    BY <2>1, <2>3 DEF TypeInv, TypeOK, Idle
  <2>5. /\ sess' \in [Session -> Fields \cup {None}]
        /\ open' \subseteq Opened' /\ Opened \subseteq Opened'
        /\ Held' = Held
    <3>1. CASE t \in counted
      <4>1. PICK s \in Session \ Opened :
               /\ sess' = [sess EXCEPT ![s] =
                     [base |-> t, past |-> shared[t], step |-> 0]]
               /\ open' = open \cup {s}
        BY <1>4, <3>1 DEF OpenSession
      <4>2. [base |-> t, past |-> shared[t], step |-> 0] \in Fields
        BY <2>1, <2>2 DEF Fields
      <4>3. [base |-> t, past |-> shared[t], step |-> 0] # None
        BY <4>2, ValueAssumption
      <4> QED BY <2>1, <2>2, <2>4, <4>1, <4>2, <4>3
              DEF TypeInv, TypeOK, Opened, Held
    <3>2. CASE t \notin counted
      <4>1. UNCHANGED <<sess, open>>
        BY <1>4, <3>2 DEF OpenSession
      <4> QED BY <2>1, <2>4, <4>1 DEF TypeInv, TypeOK, Opened, Held
    <3> QED BY <3>1, <3>2
  <2>6. CachedInv'
    BY <2>1, <2>4 DEF TypeInv, CachedInv
  <2> QED BY <1>1, <2>1, <2>4, <2>5, <2>6 DEF TypeInv, TypeOK
<1> QED BY <1>2, <1>3, <1>4

\* POST /sessions/{id}/step: the session stays where it is ...
LEMMA StartType ==
    ASSUME TypeInv, NEW i \in Thread, NEW s \in Session,
           StartStep(i, s) \/ CloseSession(i, s)
    PROVE  TypeInv'
<1>1. CASE StartStep(i, s)
  <2> DEFINE o == sess[s].past
  <2>1. /\ UNCHANGED <<shared, counted, heap, man, sess, open, lost, errors>>
        /\ s \in Opened /\ sent[s] < MaxSteps /\ req[i] = Idle
        /\ sent' = [sent EXCEPT ![s] = @ + 1]
        /\ mixed' \in {mixed, mixed \cup {s}}
        /\ req' = [req EXCEPT ![i] = [Idle EXCEPT !.pc = "run", !.sid = s,
                                                  !.obj = o]]
    BY <1>1 DEF StartStep, TypeInv, TypeOK
  <2>2. o \in Obj \cap Held
    BY <2>1, HeldTypes DEF TypeInv
  <2>3. [Idle EXCEPT !.pc = "run", !.sid = s, !.obj = o] \in Req
    BY <2>2, ValueAssumption DEF Idle, Req, Pc
  <2>4. /\ req' \in [Thread -> Req]
        /\ \A j \in Thread : req'[j].obj \in {req[j].obj, o}
        /\ \A j \in Thread : req'[j].sid \in {req[j].sid, s}
        /\ \A j \in Thread : req'[j].pc = "run" \/ req'[j] = req[j]
        /\ req[i].obj = None
    BY <2>1, <2>3 DEF TypeInv, TypeOK, Idle
  <2>5. sent' \in [Session -> 0..MaxSteps] /\ mixed' \subseteq Session
    BY <2>1, BoundAssumption DEF TypeInv, TypeOK
  <2>6. Held' = Held
    <3>1. Opened' = Opened
      BY <2>1 DEF Opened
    <3>2. \A j \in Thread \ {i} : req'[j].obj = req[j].obj
      BY <2>1 DEF TypeInv, TypeOK
    <3> QED BY <2>1, <2>2, <2>4, <3>1, <3>2 DEF Held
  <2> QED BY <2>1, <2>4, <2>5, <2>6 DEF TypeInv, TypeOK, CachedInv, Opened
<1>2. CASE CloseSession(i, s)
  BY <1>2 DEF CloseSession, history, TypeInv, TypeOK, CachedInv, Opened, Held
<1> QED BY <1>1, <1>2

\* ... and a new object becomes its cache.
LEMMA ForwardType ==
    ASSUME TypeInv, NEW i \in Thread, Forward(i)
    PROVE  TypeInv'
<1> DEFINE kv == After(heap[req[i].obj], req[i].sid)
<1>1. /\ req[i] \in Req /\ req[i].pc = "run" /\ req[i].obj # None
      /\ req[i].sid \in Session
      /\ UNCHANGED <<shared, counted, man, sess, open, lost, sent, mixed,
                     errors>>
  BY DEF Forward, TypeInv, TypeOK, Req, history
<1>2. req[i].obj \in Obj \cap Held /\ kv \in Cache
  BY <1>1, HeldTypes DEF TypeInv
<1>3. PICK o \in IF InPlace THEN {req[i].obj} ELSE Fresh :
         /\ req' = [req EXCEPT ![i].pc = "put", ![i].obj = o]
         /\ HeapWith(o, kv)
  BY DEF Forward
<1>4. o \in Obj
  BY <1>2, <1>3 DEF Fresh
<1>5. [req[i] EXCEPT !.pc = "put", !.obj = o] \in Req
  BY <1>1, <1>4, ValueAssumption DEF Req, Pc
<1>6. /\ req' \in [Thread -> Req]
      /\ \A j \in Thread : req'[j].obj \in {req[j].obj, o}
      /\ \A j \in Thread : req'[j].sid = req[j].sid
      /\ \A j \in Thread : req'[j].pc = "put" \/ req'[j] = req[j]
  BY <1>1, <1>3, <1>5 DEF TypeInv, TypeOK, Req
<1>7. Held' \subseteq Held \cup {o}
  BY <1>1, <1>6 DEF Held, Opened
<1>8. heap' \in [Held' -> Cache]
  BY <1>2, <1>3, <1>7, HeapWithTypes DEF TypeInv
<1> QED BY <1>1, <1>6, <1>8 DEF TypeInv, TypeOK, CachedInv, Opened

\* The two assignments of step, and its receipt.
LEMMA AdvanceType ==
    ASSUME TypeInv, NEW i \in Thread,
           PutPast(i) \/ ReadStep(i) \/ WriteStep(i) \/ EmitReceipt(i)
    PROVE  TypeInv'
<1> DEFINE s == req[i].sid
<1>1. /\ req[i] \in Req
      /\ req[i].pc \in {"put", "read", "write", "receipt"}
      /\ s \in Opened /\ s \in Session /\ sess[s] \in Fields
      /\ UNCHANGED <<shared, counted, man, open, lost, sent, mixed, errors>>
  BY HeldTypes DEF PutPast, ReadStep, WriteStep, EmitReceipt, TypeInv, TypeOK,
     Req, history
<1>2. /\ sess' \in [Session -> Fields \cup {None}] /\ Opened' = Opened
      /\ req' \in [Thread -> Req]
      /\ \A j \in Thread : req'[j].sid \in {req[j].sid, None}
      /\ \A j \in Thread : req'[j] = req[j] \/ req'[j].pc \notin
                                    {"count", "persist", "return"}
      /\ Held' \subseteq Held /\ heap' \in [Held' -> Cache]
  <2>1. CASE PutPast(i)
    <3>1. /\ req[i].pc = "put" /\ req[i].obj \in Obj /\ HeapKept
          /\ sess' = [sess EXCEPT ![s].past = req[i].obj]
          /\ req' = [req EXCEPT ![i].pc = "read", ![i].obj = None]
      BY <1>1, <2>1 DEF PutPast, Req
    <3>2. /\ [sess[s] EXCEPT !.past = req[i].obj] \in Fields
          /\ [req[i] EXCEPT !.pc = "read", !.obj = None] \in Req
      BY <1>1, <3>1 DEF Fields, Req, Pc
    <3>3. /\ sess' \in [Session -> Fields \cup {None}] /\ Opened' = Opened
          /\ \A u \in Opened : sess'[u].past \in {sess[u].past, req[i].obj}
      BY <1>1, <3>1, <3>2, ValueAssumption DEF TypeInv, TypeOK, Opened, Fields
    <3>4. /\ req' \in [Thread -> Req]
          /\ \A j \in Thread : req'[j].sid = req[j].sid
          /\ \A j \in Thread : req'[j] = req[j] \/ req'[j].pc = "read"
          /\ \A j \in Thread : req'[j].obj \in {req[j].obj, None}
      BY <1>1, <3>1, <3>2 DEF TypeInv, TypeOK, Req
    <3>5. Held' \subseteq Held
      BY <1>1, <3>1, <3>3, <3>4 DEF Held
    <3> QED BY <3>1, <3>3, <3>4, <3>5, HeapKeptTypes DEF TypeInv
  <2>2. CASE ReadStep(i) \/ EmitReceipt(i)
    <3>1. UNCHANGED <<heap, sess>> /\ sess[s].step \in Nat
      BY <1>1, <2>2 DEF ReadStep, EmitReceipt, Fields
    <3>2. /\ ReadStep(i) =>
                [req[i] EXCEPT !.pc = "write", !.seen = sess[s].step] \in Req
          /\ Idle \in Req
      BY <1>1, <3>1 DEF Req, Pc, Idle, ReadStep
    <3>3. /\ req' \in [Thread -> Req]
          /\ \A j \in Thread : req'[j].sid \in {req[j].sid, None}
          /\ \A j \in Thread : req'[j] = req[j]
                               \/ req'[j].pc \in {"write", "idle"}
          /\ \A j \in Thread : req'[j].obj = req[j].obj
      <4>1. CASE ReadStep(i)
        BY <1>1, <2>2, <3>2, <4>1 DEF ReadStep, TypeInv, TypeOK, Req
      <4>2. CASE EmitReceipt(i)
        BY <1>1, <2>2, <3>2, <4>2 DEF EmitReceipt, TypeInv, TypeOK, Req, Idle
      <4> QED BY <2>2, <4>1, <4>2
    <3>4. Opened' = Opened
      BY <3>1 DEF Opened
    <3>5. Held' = Held
      BY <1>1, <3>1, <3>3, <3>4 DEF Held
    <3> QED BY <3>1, <3>3, <3>4, <3>5 DEF TypeInv, TypeOK
  <2>3. CASE WriteStep(i)
    <3>1. /\ UNCHANGED heap /\ req[i].pc = "write" /\ req[i].seen \in Nat
          /\ sess' = [sess EXCEPT ![s].step = req[i].seen + 1]
          /\ req' = [req EXCEPT ![i].pc = "receipt", ![i].seen = 0]
      BY <1>1, <2>3 DEF WriteStep, Req
    <3>2. /\ [sess[s] EXCEPT !.step = req[i].seen + 1] \in Fields
          /\ [req[i] EXCEPT !.pc = "receipt", !.seen = 0] \in Req
      <4>1. [sess[s] EXCEPT !.step = req[i].seen + 1] \in Fields
        BY <1>1, <3>1 DEF Fields
      <4>2. [req[i] EXCEPT !.pc = "receipt", !.seen = 0] \in Req
        BY <1>1, <3>1 DEF Req, Pc
      <4> QED BY <4>1, <4>2
    <3>3. /\ sess' \in [Session -> Fields \cup {None}] /\ Opened' = Opened
          /\ \A u \in Opened : sess'[u].past = sess[u].past
      BY <1>1, <3>1, <3>2, ValueAssumption DEF TypeInv, TypeOK, Opened, Fields
    <3>4. /\ req' \in [Thread -> Req]
          /\ \A j \in Thread : req'[j].sid = req[j].sid
          /\ \A j \in Thread : req'[j] = req[j] \/ req'[j].pc = "receipt"
          /\ \A j \in Thread : req'[j].obj = req[j].obj
      BY <1>1, <3>1, <3>2 DEF TypeInv, TypeOK, Req
    <3>5. Held' = Held
      BY <1>1, <3>3, <3>4 DEF Held
    <3> QED BY <3>1, <3>3, <3>4, <3>5 DEF TypeInv, TypeOK
  <2> QED BY <1>1, <2>1, <2>2, <2>3
    DEF PutPast, ReadStep, WriteStep, EmitReceipt
<1> QED BY <1>1, <1>2 DEF TypeInv, TypeOK, CachedInv

\* Every step keeps the types.
LEMMA StepType == TypeInv /\ [Next]_vars => TypeInv'
<1> SUFFICES ASSUME TypeInv, [Next]_vars PROVE TypeInv'
  OBVIOUS
<1>1. CASE Next
  BY <1>1, CreateType, BaseType, StartType, ForwardType, AdvanceType
  DEF Next, Work
<1>2. CASE UNCHANGED vars
  BY <1>2 DEF vars, TypeInv, TypeOK, CachedInv, Opened, Held
<1> QED BY <1>1, <1>2

\* Nothing is cached and nobody asks, to begin with.
LEMMA InitType == Init => TypeInv
<1> SUFFICES ASSUME Init PROVE TypeInv
  OBVIOUS
<1>1. Opened = {} /\ Held = {}
  BY DEF Init, Opened, Held, Idle
<1>2. Idle \in Req
  BY DEF Idle, Req, Pc
<1>3. heap \in [Held -> Cache]
  BY <1>1 DEF Init
<1> QED BY <1>1, <1>2, <1>3, BoundAssumption
        DEF Init, TypeInv, TypeOK, CachedInv, Idle

\* The dictionaries, the sessions, the objects in memory and the requests on
\* their way always have their types; in particular the cache of every
\* session is a live object, also of one that has been closed under a step.
THEOREM SessionTypeCorrect == Spec => []TypeOK
<1>1. Init => TypeInv
  BY InitType
<1>2. TypeInv /\ [Next]_vars => TypeInv'
  BY StepType
<1>3. TypeInv => TypeOK
  BY DEF TypeInv
<1> QED BY <1>1, <1>2, <1>3, PTL DEF Spec

\* A session that has left _sessions does not come back: nothing but a new
\* session, with an id of its own, enters it, whatever the steps under way on
\* closed sessions still write (create_session, step, close_session).
THEOREM SessionsStayClosed == Spec => StaysClosed
<1>1. TypeInv /\ [Next]_vars => [Opened \ open \subseteq Opened' \ open']_vars
  <2> SUFFICES ASSUME TypeInv, Next
               PROVE  Opened \ open \subseteq Opened' \ open'
    OBVIOUS
  <2>1. ASSUME NEW i \in Thread, OpenSession(i)
        PROVE  Opened \ open \subseteq Opened' \ open'
    <3>1. CASE req[i].base \in counted
      <4>1. PICK s \in Session \ Opened :
               /\ open' = open \cup {s}
               /\ sess' = [sess EXCEPT ![s] =
                     [base |-> req[i].base, past |-> shared[req[i].base],
                      step |-> 0]]
        BY <2>1, <3>1 DEF OpenSession
      <4> QED BY <4>1 DEF TypeInv, TypeOK, Opened
    <3>2. CASE req[i].base \notin counted
      BY <2>1, <3>2 DEF OpenSession, Opened
    <3> QED BY <3>1, <3>2
  <2>2. ASSUME NEW i \in Thread, PutPast(i) \/ WriteStep(i)
        PROVE  Opened \ open \subseteq Opened' \ open'
    <3>1. /\ open' = open /\ sess[req[i].sid] \in Fields
          /\ req[i].sid \in Session
      <4>1. req[i].sid # None
        BY <2>2 DEF PutPast, WriteStep, TypeInv, TypeOK, Req
      <4> QED BY <2>2, <4>1, HeldTypes
              DEF PutPast, WriteStep, TypeInv, TypeOK, Opened
    <3>2. PICK f \in Fields : sess' = [sess EXCEPT ![req[i].sid] = f]
      <4>1. req[i] \in Req
        BY DEF TypeInv, TypeOK
      <4>2. CASE PutPast(i)
        <5>1. req[i].obj \in Obj
          BY <4>1, <4>2 DEF PutPast, Req
        <5>2. [sess[req[i].sid] EXCEPT !.past = req[i].obj] \in Fields
          BY <3>1, <5>1 DEF Fields
        <5> QED BY <4>2, <5>2 DEF PutPast
      <4>3. CASE WriteStep(i)
        <5>1. [sess[req[i].sid] EXCEPT !.step = req[i].seen + 1] \in Fields
          BY <3>1, <4>1 DEF Fields, Req
        <5> QED BY <4>3, <5>1 DEF WriteStep
      <4> QED BY <2>2, <4>2, <4>3
    <3> QED BY <3>1, <3>2, ValueAssumption DEF TypeInv, TypeOK, Opened
  <2> QED BY <2>1, <2>2 DEF Next, Work, CreateMiss, CreateHit, InsertCache,
      InsertTokens, Persist, PersistFails, StartStep, Forward, ReadStep,
      EmitReceipt, CloseSession, Opened
<1> QED BY <1>1, InitType, StepType, PTL DEF Spec, StaysClosed

-----------------------------------------------------------------------------
(* Sessions and what is in their caches *)

BaseOnly(o, t) == heap[o] = [base |-> t, deltas |-> << >>]
OwnOf(o, s) == heap[o].base = sess[s].base /\ heap[o].deltas \in Seq({s})

\* The inductive invariant behind SessionsApart, for a model that returns a
\* new cache: the caches in the hands of the threads are what they will be
\* shared or kept as.
ApartReq(r) ==
    /\ r.pc = "insert" => BaseOnly(r.obj, r.base)
    /\ r.pc \in {"run", "put"} => OwnOf(r.obj, r.sid)
ApartInv ==
    /\ \A t \in Text : shared[t] # None => BaseOnly(shared[t], t)
    /\ \A s \in Opened : OwnOf(sess[s].past, s)
    /\ \A i \in Thread : ApartReq(req[i])

\* The objects that stay referred to keep their contents, and the sessions
\* their base.
HeapSame == \A x \in Held \cap Held' : heap'[x] = heap[x]
BasesSame == \A s \in Opened : s \in Opened' /\ sess'[s].base = sess[s].base

LEMMA HeapFrame ==
    /\ HeapKept => HeapSame
    /\ \A o, kv : HeapWith(o, kv) /\ o \notin Held =>
          HeapSame /\ (o \in Held' => heap'[o] = kv)
BY DEF HeapKept, HeapWith, HeapSame

\* A step that leaves the objects in use alone.
LEMMA ApartFrame ==
    ASSUME TypeInv, TypeInv', ApartInv, HeapSame, BasesSame,
           NEW i \in Thread, \A j \in Thread \ {i} : req'[j] = req[j],
           ApartReq(req[i])',
           \A t \in Text : shared'[t] # None =>
              shared'[t] = shared[t] \/ BaseOnly(shared[t], t)',
           \A s \in Opened' :
              \/ s \in Opened /\ sess'[s].past = sess[s].past
              \/ OwnOf(sess[s].past, s)'
    PROVE  ApartInv'
<1>1. /\ \A t \in Text : shared[t] # None => shared[t] \in Held
      /\ \A s \in Opened : sess[s].past \in Held
      /\ \A j \in Thread : req[j].obj # None => req[j].obj \in Held
  BY HeldTypes DEF TypeInv
<1>2. /\ \A t \in Text : shared'[t] # None => shared'[t] \in Held'
      /\ \A s \in Opened' : sess'[s].past \in Held'
      /\ \A j \in Thread : req'[j].obj # None => req'[j].obj \in Held'
  <2>1. \A s \in Opened' : sess'[s].past # None
    BY ValueAssumption DEF TypeInv, TypeOK, Opened, Fields
  <2> QED BY <2>1 DEF Held
<1>3. \A t \in Text : shared'[t] # None => BaseOnly(shared[t], t)'
  BY <1>1, <1>2 DEF ApartInv, BaseOnly, HeapSame
<1>4. \A s \in Opened' : OwnOf(sess[s].past, s)'
  <2> SUFFICES ASSUME NEW s \in Opened', s \in Opened,
                      sess'[s].past = sess[s].past
               PROVE  OwnOf(sess[s].past, s)'
    OBVIOUS
  <2>1. heap'[sess[s].past] = heap[sess[s].past] /\ sess'[s].base = sess[s].base
    BY <1>1, <1>2 DEF HeapSame, BasesSame
  <2>2. OwnOf(sess[s].past, s)
    BY DEF ApartInv
  <2> QED BY <2>1, <2>2 DEF OwnOf
<1>5. ASSUME NEW j \in Thread \ {i} PROVE ApartReq(req[j])'
  <2>1. /\ req[j].pc = "insert" => req[j].obj # None
        /\ req[j].pc \in {"run", "put"} =>
              req[j].obj # None /\ req[j].sid \in Opened
    BY DEF TypeInv, TypeOK, Req
  <2>2. req[j].obj # None => heap'[req[j].obj] = heap[req[j].obj]
    BY <1>1, <1>2 DEF HeapSame
  <2>3. ApartReq(req[j])
    BY DEF ApartInv
  <2>4. CASE req[j].pc = "insert"
    BY <2>1, <2>2, <2>3, <2>4 DEF ApartReq, BaseOnly
  <2>5. CASE req[j].pc \in {"run", "put"}
    <3>1. sess'[req[j].sid].base = sess[req[j].sid].base
      BY <2>1, <2>5 DEF BasesSame
    <3> QED BY <2>1, <2>2, <2>3, <2>5, <3>1 DEF ApartReq, OwnOf
  <2>6. CASE req[j].pc \notin {"insert", "run", "put"}
    BY <2>6 DEF ApartReq
  <2> QED BY <2>4, <2>5, <2>6
<1> QED BY <1>3, <1>4, <1>5 DEF ApartInv

\* A base is computed into a cache of its own and then shared.
LEMMA BaseApart ==
    ASSUME TypeInv, TypeInv', ApartInv, NEW i \in Thread,
           \/ \E t \in Text : CreateMiss(i, t) \/ CreateHit(i, t)
           \/ InsertCache(i) \/ InsertTokens(i) \/ Persist(i)
           \/ PersistFails(i)
    PROVE  ApartInv'
<1>1. /\ UNCHANGED sess /\ \A j \in Thread \ {i} : req'[j] = req[j]
      /\ BasesSame
  BY DEF CreateMiss, CreateHit, InsertCache, InsertTokens, Persist,
     PersistFails, BasesSame, Opened, TypeInv, TypeOK
<1>2. ASSUME NEW t \in Text, CreateMiss(i, t)
      PROVE  ApartInv'
  <2>1. PICK o \in Fresh :
           /\ req' = [req EXCEPT ![i] = [Idle EXCEPT !.pc = "insert",
                                                     !.base = t, !.obj = o]]
           /\ HeapWith(o, [base |-> t, deltas |-> << >>])
    BY <1>2 DEF CreateMiss
  <2>2. o \notin Held /\ o \in Obj
    BY DEF Fresh
  <2>3. req'[i].pc = "insert" /\ req'[i].base = t /\ req'[i].obj = o
    BY <2>1 DEF TypeInv, TypeOK, Idle
  <2>4. o \in Held'
    BY <2>2, <2>3, ValueAssumption DEF Held
  <2>5. HeapSame /\ heap'[o] = [base |-> t, deltas |-> << >>]
    BY <2>1, <2>2, <2>4, HeapFrame
  <2>6. ApartReq(req[i])'
    BY <2>3, <2>5 DEF ApartReq, BaseOnly
  <2>7. UNCHANGED shared
    BY <1>2 DEF CreateMiss
  <2> QED BY <1>1, <2>5, <2>6, <2>7, ApartFrame DEF Opened
<1>3. CASE InsertCache(i)
  <2>1. /\ req[i].pc = "insert" /\ req[i].base \in Text /\ req[i].obj \in Obj
        /\ shared' = [shared EXCEPT ![req[i].base] = req[i].obj] /\ HeapSame
    BY <1>3, HeapFrame DEF InsertCache, TypeInv, TypeOK, Req
  <2>2. shared'[req[i].base] = req[i].obj /\ req[i].obj # None
    BY <2>1, ValueAssumption DEF TypeInv, TypeOK
  <2>3. req[i].obj \in Held \cap Held'
    BY <2>1, <2>2 DEF Held
  <2>4. BaseOnly(shared[req[i].base], req[i].base)'
    <3>1. heap'[req[i].obj] = [base |-> req[i].base, deltas |-> << >>]
      BY <2>1, <2>3 DEF HeapSame, ApartInv, ApartReq, BaseOnly
    <3>2. heap'[shared'[req[i].base]]
             = [base |-> req[i].base, deltas |-> << >>]
      BY <2>2, <3>1
    <3>3. req'[i].base = req[i].base
      BY <1>3 DEF InsertCache, TypeInv, TypeOK, Req
    <3> QED BY <3>2, <3>3 DEF BaseOnly
  <2>5. ASSUME NEW t \in Text, shared'[t] # None
        PROVE  shared'[t] = shared[t] \/ BaseOnly(shared[t], t)'
    <3>1. CASE t = req[i].base
      <4>1. req'[i].base = req[i].base
        BY <1>3 DEF InsertCache, TypeInv, TypeOK, Req
      <4> QED BY <2>4, <3>1, <4>1 DEF BaseOnly
    <3>2. CASE t # req[i].base
      BY <2>1, <3>2 DEF TypeInv, TypeOK
    <3> QED BY <3>1, <3>2
  <2>6. ApartReq(req[i])'
    BY <1>3 DEF InsertCache, TypeInv, TypeOK, ApartReq
  <2> QED BY <1>1, <2>1, <2>5, <2>6, ApartFrame DEF Opened
<1>4. CASE \/ \E t \in Text : CreateHit(i, t)
           \/ InsertTokens(i) \/ Persist(i) \/ PersistFails(i)
  <2>1. UNCHANGED <<shared, heap>> /\ HeapSame
    BY <1>4 DEF CreateHit, InsertTokens, Persist, PersistFails, HeapSame
  <2>2. req'[i].pc \in {"idle", "persist", "return"}
    <3>1. ASSUME NEW t \in Text, CreateHit(i, t)
          PROVE  req'[i].pc = "return"
      BY <3>1 DEF CreateHit, TypeInv, TypeOK, Idle
    <3>2. CASE InsertTokens(i) \/ Persist(i)
      BY <3>2 DEF InsertTokens, Persist, TypeInv, TypeOK, Req
    <3>3. CASE PersistFails(i)
      BY <3>3 DEF PersistFails, TypeInv, TypeOK, Idle
    <3> QED BY <1>4, <3>1, <3>2, <3>3
  <2>3. ApartReq(req[i])'
    BY <2>2 DEF ApartReq
  <2> QED BY <1>1, <2>1, <2>3, ApartFrame DEF Opened
<1> QED BY <1>2, <1>3, <1>4

\* A session starts from the base it is opened on.
LEMMA OpenApart ==
    ASSUME TypeInv, TypeInv', ApartInv, NEW i \in Thread,
           \/ OpenSession(i)
           \/ \E s \in Session : StartStep(i, s) \/ CloseSession(i, s)
    PROVE  ApartInv'
<1>1. UNCHANGED <<shared, heap>> /\ HeapSame
  BY DEF OpenSession, StartStep, CloseSession, HeapSame
<1>2. CASE OpenSession(i)
  <2> DEFINE t == req[i].base
  <2>1. /\ \A j \in Thread \ {i} : req'[j] = req[j]
        /\ req'[i].pc = "idle" /\ req[i].pc = "return" /\ t \in Text
    BY <1>2 DEF OpenSession, TypeInv, TypeOK, Idle, Req
  <2>2. shared[t] # None
    BY <2>1 DEF TypeInv, CachedInv
  <2>3. \/ UNCHANGED sess
        \/ \E s \in Session \ Opened :
              sess' = [sess EXCEPT ![s] =
                          [base |-> t, past |-> shared[t], step |-> 0]]
    BY <1>2 DEF OpenSession
  <2>4. ASSUME NEW s \in Session \ Opened,
               sess' = [sess EXCEPT ![s] =
                           [base |-> t, past |-> shared[t], step |-> 0]]
        PROVE  ApartInv'
    <3>1. /\ sess'[s].base = t /\ sess'[s].past = shared[t]
          /\ \A u \in Session \ {s} : sess'[u] = sess[u]
      BY <2>4 DEF TypeInv, TypeOK
    <3>2. BasesSame
      BY <2>4, <3>1 DEF BasesSame, Opened
    <3>3. heap'[sess'[s].past] = [base |-> t, deltas |-> << >>]
      BY <1>1, <2>1, <2>2, <3>1 DEF ApartInv, BaseOnly
    <3>4. << >> \in Seq({s})
      OBVIOUS
    <3>5. OwnOf(sess[s].past, s)'
      BY <3>1, <3>3, <3>4 DEF OwnOf
    <3>6. \A u \in Opened' : \/ u \in Opened /\ sess'[u].past = sess[u].past
                             \/ OwnOf(sess[u].past, u)'
      <4> SUFFICES ASSUME NEW u \in Opened', u # s
                   PROVE  u \in Opened /\ sess'[u].past = sess[u].past
        BY <3>5
      <4> QED BY <3>1 DEF Opened
    <3>7. ApartReq(req[i])'
      BY <2>1 DEF ApartReq
    <3> QED BY <1>1, <2>1, <3>2, <3>6, <3>7, ApartFrame
  <2>5. CASE UNCHANGED sess
    <3>1. ApartReq(req[i])' /\ BasesSame
      BY <2>1, <2>5 DEF ApartReq, BasesSame, Opened
    <3> QED BY <1>1, <2>1, <2>5, <3>1, ApartFrame DEF Opened
  <2> QED BY <2>3, <2>4, <2>5
<1>3. ASSUME NEW s \in Session, StartStep(i, s)
      PROVE  ApartInv'
  <2>1. /\ UNCHANGED sess /\ s \in Opened
        /\ req' = [req EXCEPT ![i] = [Idle EXCEPT !.pc = "run", !.sid = s,
                                                  !.obj = sess[s].past]]
    BY <1>3 DEF StartStep, TypeInv, TypeOK
  <2>2. /\ req'[i].pc = "run" /\ req'[i].sid = s
        /\ req'[i].obj = sess[s].past
        /\ \A j \in Thread \ {i} : req'[j] = req[j]
    BY <2>1 DEF TypeInv, TypeOK, Idle
  <2>3. OwnOf(sess[s].past, s)
    BY <2>1 DEF ApartInv
  <2>4. ApartReq(req[i])' /\ BasesSame
    BY <1>1, <2>1, <2>2, <2>3 DEF ApartReq, OwnOf, BasesSame, Opened
  <2> QED BY <1>1, <2>1, <2>2, <2>4, ApartFrame DEF Opened
<1>4. ASSUME NEW s \in Session, CloseSession(i, s)
      PROVE  ApartInv'
  BY <1>4 DEF CloseSession, ApartInv, ApartReq, BaseOnly, OwnOf, Opened
<1> QED BY <1>2, <1>3, <1>4

\* A step of a session adds a delta of that session.
LEMMA StepApart ==
    ASSUME InPlace = FALSE, TypeInv, TypeInv', ApartInv, NEW i \in Thread,
           \/ Forward(i) \/ PutPast(i) \/ ReadStep(i) \/ WriteStep(i)
           \/ EmitReceipt(i)
    PROVE  ApartInv'
<1> DEFINE s == req[i].sid
<1>1. /\ req[i] \in Req /\ s \in Opened /\ s \in Session /\ sess[s] \in Fields
      /\ UNCHANGED shared
  <2>1. s # None
    BY DEF Forward, PutPast, ReadStep, WriteStep, EmitReceipt, TypeInv,
       TypeOK, Req
  <2> QED BY <2>1, HeldTypes DEF Forward, PutPast, ReadStep, WriteStep,
      EmitReceipt, TypeInv, TypeOK, Opened
<1>2. \A j \in Thread \ {i} : req'[j] = req[j]
  BY DEF Forward, PutPast, ReadStep, WriteStep, EmitReceipt, TypeInv, TypeOK
<1>3. CASE Forward(i)
  <2> DEFINE kv == After(heap[req[i].obj], s)
  <2>1. PICK o \in Fresh :
           /\ req' = [req EXCEPT ![i].pc = "put", ![i].obj = o]
           /\ HeapWith(o, kv)
    BY <1>3 DEF Forward
  <2>2. /\ o \notin Held /\ o \in Obj /\ req[i].pc = "run" /\ UNCHANGED sess
    BY <1>3 DEF Fresh, Forward
  <2>3. req'[i].pc = "put" /\ req'[i].sid = s /\ req'[i].obj = o
    BY <1>1, <2>1 DEF TypeInv, TypeOK, Req
  <2>4. o \in Held'
    BY <2>2, <2>3, ValueAssumption DEF Held
  <2>5. HeapSame /\ heap'[o] = kv
    BY <2>1, <2>2, <2>4, HeapFrame
  <2>6. kv.base = sess[s].base /\ kv.deltas \in Seq({s})
    <3>1. OwnOf(req[i].obj, s)
      BY <2>2 DEF ApartInv, ApartReq
    <3>2. Append(heap[req[i].obj].deltas, s) \in Seq({s})
      BY <3>1, AppendProperties DEF OwnOf
    <3> QED BY <3>1, <3>2 DEF After, OwnOf
  <2>7. ApartReq(req[i])'
    BY <2>2, <2>3, <2>5, <2>6 DEF ApartReq, OwnOf
  <2> QED BY <1>1, <1>2, <2>2, <2>5, <2>7, ApartFrame DEF BasesSame, Opened
<1>4. CASE PutPast(i)
  <2>1. /\ req[i].pc = "put" /\ req[i].obj \in Obj /\ HeapSame
        /\ sess' = [sess EXCEPT ![s].past = req[i].obj]
        /\ req'[i].pc = "read"
    BY <1>1, <1>4, HeapFrame DEF PutPast, TypeInv, TypeOK, Req
  <2>2. /\ sess'[s].past = req[i].obj /\ sess'[s].base = sess[s].base
        /\ \A u \in Session \ {s} : sess'[u] = sess[u]
    BY <1>1, <2>1 DEF TypeInv, TypeOK, Fields
  <2>3. Opened' = Opened
    <3>1. [sess[s] EXCEPT !.past = req[i].obj] \in Fields
      BY <1>1, <2>1 DEF Fields
    <3> QED BY <1>1, <2>1, <3>1, ValueAssumption DEF TypeInv, TypeOK, Opened
  <2>4. req[i].obj \in Held \cap Held'
    BY <1>1, <2>1, <2>2, <2>3, ValueAssumption DEF Held
  <2>5. OwnOf(req[i].obj, s)
    BY <2>1 DEF ApartInv, ApartReq
  <2>6. heap'[sess'[s].past].base = sess'[s].base
        /\ heap'[sess'[s].past].deltas \in Seq({s})
    <3>1. heap'[req[i].obj] = heap[req[i].obj]
      BY <2>1, <2>4 DEF HeapSame
    <3> QED BY <2>2, <2>5, <3>1 DEF OwnOf
  <2>7. \A u \in Opened' : \/ u \in Opened /\ sess'[u].past = sess[u].past
                           \/ OwnOf(sess[u].past, u)'
    <3> SUFFICES ASSUME NEW u \in Opened', u # s
                 PROVE  u \in Opened /\ sess'[u].past = sess[u].past
      BY <2>6 DEF OwnOf
    <3> QED BY <2>2, <2>3 DEF Opened
  <2>8. ApartReq(req[i])' /\ BasesSame
    BY <2>1, <2>2, <2>3 DEF ApartReq, BasesSame, Opened
  <2> QED BY <1>1, <1>2, <2>1, <2>7, <2>8, ApartFrame
<1>5. CASE ReadStep(i) \/ WriteStep(i) \/ EmitReceipt(i)
  <2>1. UNCHANGED heap /\ HeapSame
    BY <1>5 DEF ReadStep, WriteStep, EmitReceipt, HeapSame
  <2>2. ApartReq(req[i])'
    <3>1. CASE ReadStep(i) \/ WriteStep(i)
      BY <3>1 DEF ReadStep, WriteStep, TypeInv, TypeOK, Req, ApartReq
    <3>2. CASE EmitReceipt(i)
      BY <3>2 DEF EmitReceipt, TypeInv, TypeOK, ApartReq, Idle
    <3> QED BY <1>5, <3>1, <3>2
  <2>3. /\ \A u \in Session : sess'[u] # None =>
              u \in Opened /\ sess'[u].past = sess[u].past
        /\ BasesSame
    <3>1. CASE WriteStep(i)
      <4>1. /\ sess' = [sess EXCEPT ![s].step = req[i].seen + 1]
            /\ req[i].seen \in Nat
        BY <1>1, <3>1 DEF WriteStep, Req
      <4>2. [sess[s] EXCEPT !.step = req[i].seen + 1] \in Fields
        BY <1>1, <4>1 DEF Fields
      <4> QED BY <1>1, <4>1, <4>2, ValueAssumption
              DEF TypeInv, TypeOK, Opened, Fields, BasesSame
    <3>2. CASE ReadStep(i) \/ EmitReceipt(i)
      BY <3>2 DEF ReadStep, EmitReceipt, Opened, BasesSame
    <3> QED BY <1>5, <3>1, <3>2
  <2> QED BY <1>1, <1>2, <2>1, <2>2, <2>3, ApartFrame DEF Opened
<1> QED BY <1>3, <1>4, <1>5

\* With a model that returns a new cache, what is shared is never touched:
\* every session is computed from its base text and from deltas that were
\* sent to it, however the requests of all sessions overlap (create_session,
\* step: "shared reference - do NOT mutate").
THEOREM SessionsStayApart ==
    ASSUME InPlace = FALSE
    PROVE  Spec => []SessionsApart
<1> DEFINE IInv == TypeInv /\ ApartInv
<1>1. Init => IInv
  <2>1. Init => Opened = {}
    BY DEF Init, Opened
  <2> QED BY <2>1, InitType DEF Init, ApartInv, ApartReq, Idle
<1>2. IInv /\ [Next]_vars => IInv'
  <2> SUFFICES ASSUME IInv, [Next]_vars PROVE IInv'
    OBVIOUS
  <2>1. TypeInv'
    BY StepType
  <2>2. CASE Next
    BY <2>1, <2>2, BaseApart, OpenApart, StepApart DEF Next, Work
  <2>3. CASE UNCHANGED vars
    BY <2>1, <2>3 DEF vars, ApartInv, ApartReq, BaseOnly, OwnOf, Opened
  <2> QED BY <2>1, <2>2, <2>3
<1>3. IInv => SessionsApart
  BY DEF ApartInv, BaseOnly, OwnOf, SessionsApart
<1> QED BY <1>1, <1>2, <1>3, PTL DEF Spec

-----------------------------------------------------------------------------
(* A base that looks cached *)

\* The inductive invariant behind BasesReady: what a shared text has not got
\* yet is on its way to be put there.
Filling(t, pcs) == \E i \in Thread : req[i].pc \in pcs /\ req[i].base = t
ReadyInv ==
    \A t \in Text : shared[t] # None =>
        /\ t \in counted \/ Filling(t, {"count"})
        /\ t \in man \cup lost \/ Filling(t, {"count", "persist"})

\* Requests at other places do not fill anything.
LEMMA ReadyFrame ==
    ASSUME ReadyInv, UNCHANGED <<shared, counted, man, lost>>,
           NEW i \in Thread, \A j \in Thread \ {i} : req'[j] = req[j],
           req[i].pc \notin {"count", "persist"}
    PROVE  ReadyInv'
<1> SUFFICES ASSUME NEW t \in Text, shared[t] # None
             PROVE  /\ t \in counted \/ Filling(t, {"count"})'
                    /\ t \in man \cup lost \/ Filling(t, {"count", "persist"})'
  BY DEF ReadyInv
<1>1. ASSUME NEW pcs \in SUBSET {"count", "persist"}, Filling(t, pcs)
      PROVE  Filling(t, pcs)'
  <2>1. PICK j \in Thread : req[j].pc \in pcs /\ req[j].base = t
    BY <1>1 DEF Filling
  <2> QED BY <2>1 DEF Filling
<1> QED BY <1>1 DEF ReadyInv

\* Nor does a step that changes nothing.
LEMMA ReadyStutter == ReadyInv /\ UNCHANGED vars => ReadyInv'
<1> SUFFICES ASSUME ReadyInv, UNCHANGED vars, NEW t \in Text, shared[t] # None
             PROVE  /\ t \in counted \/ Filling(t, {"count"})'
                    /\ t \in man \cup lost \/ Filling(t, {"count", "persist"})'
  BY DEF ReadyInv, vars
<1>1. \A pcs : Filling(t, pcs) => Filling(t, pcs)'
  BY DEF vars, Filling
<1> QED BY <1>1 DEF ReadyInv

\* _get_or_create_base gives a shared text its count and its packet.
LEMMA BaseReady ==
    ASSUME TypeInv, ReadyInv, NEW i \in Thread,
           InsertCache(i) \/ InsertTokens(i) \/ Persist(i) \/ PersistFails(i)
    PROVE  ReadyInv'
<1>0. PICK b \in Text : req[i].base = b
  BY DEF InsertCache, InsertTokens, Persist, PersistFails, TypeInv, TypeOK,
     Req
<1>1. /\ req[i] \in Req /\ \A j \in Thread \ {i} : req'[j] = req[j]
      /\ PersistFails(i) \/ req'[i].base = b
  BY <1>0 DEF InsertCache, InsertTokens, Persist, PersistFails, TypeInv,
     TypeOK, Req
<1>2. ASSUME NEW t \in Text \ {b}, shared'[t] # None
      PROVE  /\ t \in counted' \/ Filling(t, {"count"})'
             /\ t \in (man \cup lost)' \/ Filling(t, {"count", "persist"})'
  <2>1. shared[t] # None
    BY <1>0, <1>2 DEF InsertCache, InsertTokens, Persist, PersistFails,
       TypeInv, TypeOK
  <2>2. /\ t \in counted => t \in counted'
        /\ t \in man \cup lost => t \in (man \cup lost)'
    BY <1>0 DEF InsertCache, InsertTokens, Persist, PersistFails, history
  <2>3. ASSUME NEW pcs, Filling(t, pcs) PROVE Filling(t, pcs)'
    <3>1. PICK j \in Thread : req[j].pc \in pcs /\ req[j].base = t
      BY <2>3 DEF Filling
    <3> QED BY <1>0, <1>1, <3>1 DEF Filling
  <2> QED BY <2>1, <2>2, <2>3 DEF ReadyInv
<1>3. shared'[b] # None =>
         /\ b \in counted' \/ Filling(b, {"count"})'
         /\ b \in (man \cup lost)' \/ Filling(b, {"count", "persist"})'
  <2>1. CASE InsertCache(i)
    <3>1. req'[i].pc = "count"
      BY <2>1 DEF InsertCache, TypeInv, TypeOK, Req
    <3>2. Filling(b, {"count"})' /\ Filling(b, {"count", "persist"})'
      <4>1. req'[i].base = b
        BY <1>0, <1>1, <2>1 DEF InsertCache, TypeInv, TypeOK, Req
      <4> QED BY <3>1, <4>1 DEF Filling
    <3> QED BY <3>2
  <2>2. CASE InsertTokens(i)
    <3>1. /\ req'[i].pc = "persist" /\ b \in counted' /\ req'[i].base = b
      BY <1>0, <1>1, <2>2 DEF InsertTokens, TypeInv, TypeOK, Req
    <3> QED BY <3>1 DEF Filling
  <2>3. CASE Persist(i) \/ PersistFails(i)
    <3>1. /\ UNCHANGED <<shared, counted>> /\ req[i].pc = "persist"
          /\ b \in man' \cup lost'
      BY <1>0, <2>3 DEF Persist, PersistFails, history
    <3>2. ASSUME Filling(b, {"count"}) PROVE Filling(b, {"count"})'
      <4>1. PICK j \in Thread : req[j].pc = "count" /\ req[j].base = b
        BY <3>2 DEF Filling
      <4> QED BY <1>1, <3>1, <4>1 DEF Filling
    <3> QED BY <1>1, <3>1, <3>2 DEF ReadyInv
  <2> QED BY <2>1, <2>2, <2>3
<1> QED BY <1>2, <1>3 DEF ReadyInv

\* Whichever of the threads computed it, and whichever of them failed to
\* store it, a text that is cached when no request is under way has its
\* token count and its packet, unless storing it has failed: a session
\* opened on it neither meets a KeyError nor lacks a packet for its receipts
\* (_get_or_create_base).
THEOREM BasesAreReady == Spec => []BasesReady
<1> DEFINE IInv == TypeInv /\ ReadyInv
<1>1. Init => IInv
  BY InitType DEF Init, ReadyInv
<1>2. IInv /\ [Next]_vars => IInv'
  <2> SUFFICES ASSUME IInv, [Next]_vars PROVE IInv'
    OBVIOUS
  <2>1. ASSUME NEW i \in Thread,
               \/ \E t \in Text : CreateMiss(i, t) \/ CreateHit(i, t)
               \/ \E s \in Session : StartStep(i, s) \/ CloseSession(i, s)
               \/ OpenSession(i) \/ Forward(i) \/ PutPast(i) \/ ReadStep(i)
               \/ WriteStep(i) \/ EmitReceipt(i)
        PROVE  ReadyInv'
    <3>1. /\ UNCHANGED <<shared, counted, man, lost>>
          /\ req[i].pc \notin {"count", "persist"}
      <4>1. \/ req[i] = Idle
            \/ req[i].pc \in {"return", "run", "put", "read", "write",
                              "receipt"}
        BY <2>1 DEF CreateMiss, CreateHit, StartStep, CloseSession,
           OpenSession, Forward, PutPast, ReadStep, WriteStep, EmitReceipt
      <4>2. UNCHANGED <<shared, counted, man, lost>>
        BY <2>1 DEF CreateMiss, CreateHit, StartStep, CloseSession,
           OpenSession, Forward, PutPast, ReadStep, WriteStep, EmitReceipt,
           history
      <4> QED BY <4>1, <4>2 DEF Idle
    <3>2. \A j \in Thread \ {i} : req'[j] = req[j]
      BY <2>1 DEF CreateMiss, CreateHit, StartStep, CloseSession, OpenSession,
         Forward, PutPast, ReadStep, WriteStep, EmitReceipt, TypeInv, TypeOK
    <3> QED BY <3>1, <3>2, ReadyFrame
  <2>2. UNCHANGED vars => ReadyInv'
    BY ReadyStutter
  <2>3. ReadyInv'
    BY <2>1, <2>2, BaseReady DEF Next, Work
  <2> QED BY <2>3, StepType
<1>3. IInv => BasesReady
  BY DEF ReadyInv, Filling, BasesReady, Idle
<1> QED BY <1>1, <1>2, <1>3, PTL DEF Spec

-----------------------------------------------------------------------------
(* Steps and their counter *)

L(o) == Len(heap[o].deltas)
\* The steps of s that have still to count, and to put their cache.
Before(s) == {i \in Thread : req[i].sid = s
                             /\ req[i].pc \in {"run", "put", "read", "write"}}
Moving(s) == {i \in Thread : req[i].sid = s /\ req[i].pc \in {"run", "put"}}

\* The inductive invariant behind StepsCounted.  No delta and no step is ever
\* counted that was not sent, even when two steps overlap: what is written is
\* what was read before the steps under way were counted.
Bounded(s) ==
    /\ sess[s].step + Cardinality(Before(s)) <= sent[s]
    /\ L(sess[s].past) + Cardinality(Moving(s)) <= sent[s]
    /\ \A i \in Before(s) : req[i].pc = "write" =>
          req[i].seen + Cardinality(Before(s)) <= sent[s]
    /\ \A i \in Moving(s) :
          /\ req[i].pc = "run" =>
                L(req[i].obj) + Cardinality(Moving(s)) <= sent[s]
          /\ req[i].pc = "put" =>
                L(req[i].obj) + Cardinality(Moving(s)) <= sent[s] + 1

\* Without an overlap the counter follows the cache, one action behind it.
MatchReq(r, s) ==
    /\ r.pc = "run" =>
          sess[s].step = L(sess[s].past) /\ L(r.obj) = L(sess[s].past)
    /\ r.pc = "put" =>
          sess[s].step = L(sess[s].past) /\ L(r.obj) = L(sess[s].past) + 1
    /\ r.pc = "read" => sess[s].step + 1 = L(sess[s].past)
    /\ r.pc = "write" =>
          sess[s].step + 1 = L(sess[s].past) /\ r.seen = sess[s].step
    /\ r.pc = "receipt" => sess[s].step = L(sess[s].past)
Matched(s) ==
    s \notin mixed =>
        /\ \A i, j \in Steppers(s) : i = j
        /\ Steppers(s) = {} => sess[s].step = L(sess[s].past)
        /\ \A i \in Steppers(s) : MatchReq(req[i], s)

CountInv == \A s \in Opened : Bounded(s) /\ Matched(s)

\* The steps under way are finitely many, and the caches have a length.
LEMMA CountTypes ==
    ASSUME TypeInv
    PROVE  /\ \A s : /\ IsFiniteSet(Before(s)) /\ IsFiniteSet(Moving(s))
                     /\ Cardinality(Before(s)) \in Nat
                     /\ Cardinality(Moving(s)) \in Nat
           /\ \A s \in Opened :
                 sess[s].step \in Nat /\ L(sess[s].past) \in Nat
           /\ \A i \in Thread :
                 req[i].obj # None => L(req[i].obj) \in Nat
<1>1. \A s : IsFiniteSet(Before(s)) /\ IsFiniteSet(Moving(s))
  <2> TAKE s
  <2>1. Before(s) \in SUBSET Thread /\ Moving(s) \in SUBSET Thread
    BY DEF Before, Moving
  <2> QED BY <2>1, ThreadAssumption, FS_Subset
<1>2. \A kv \in Cache : Len(kv.deltas) \in Nat
  BY DEF Cache
<1>3. \A s : /\ Cardinality(Before(s)) \in Nat
             /\ Cardinality(Moving(s)) \in Nat
  BY <1>1, FS_CardinalityType
<1>4. \A s \in Opened : sess[s].step \in Nat /\ L(sess[s].past) \in Nat
  BY <1>2, HeldTypes DEF L, Fields, TypeInv
<1>5. \A i \in Thread : req[i].obj # None => L(req[i].obj) \in Nat
  BY <1>2, HeldTypes DEF L, TypeInv
<1> QED BY <1>1, <1>3, <1>4, <1>5

\* A session that a step does not touch.
LEMMA CountFrame ==
    ASSUME TypeInv, HeapSame, NEW s \in Opened, s \in Opened',
           Bounded(s), Matched(s),
           sess'[s] = sess[s], sent'[s] = sent[s],
           s \in mixed' <=> s \in mixed,
           \A j \in Thread : req[j].sid = s \/ req'[j].sid = s =>
              req'[j] = req[j]
    PROVE  Bounded(s)' /\ Matched(s)'
<1>1. /\ Before(s)' = Before(s) /\ Moving(s)' = Moving(s)
      /\ Steppers(s)' = Steppers(s)
  BY DEF Before, Moving, Steppers
<1>2. L(sess[s].past)' = L(sess[s].past)
  <2>1. sess[s].past \in Held /\ sess'[s].past \in Held'
    BY HeldTypes, ValueAssumption DEF TypeInv, Held
  <2> QED BY <2>1 DEF HeapSame, L
<1>3. ASSUME NEW i \in Thread, req[i].sid = s, req[i].obj # None
      PROVE  L(req[i].obj)' = L(req[i].obj)
  <2>1. req[i].obj \in Held /\ req'[i].obj \in Held' /\ req'[i] = req[i]
    BY <1>3 DEF Held
  <2> QED BY <2>1 DEF HeapSame, L
<1>4. \A i \in Thread : req[i].pc \in {"run", "put"} => req[i].obj # None
  BY DEF TypeInv, TypeOK, Req
<1>5. Bounded(s)'
  BY <1>1, <1>2, <1>3, <1>4 DEF Bounded, Before, Moving
<1>6. Matched(s)'
  <2> SUFFICES ASSUME s \notin mixed
               PROVE  /\ \A i, j \in Steppers(s) : i = j
                      /\ Steppers(s) = {} =>
                            sess[s].step = L(sess[s].past)
                      /\ \A i \in Steppers(s) : MatchReq(req[i], s)'
    BY <1>1, <1>2 DEF Matched
  <2> SUFFICES ASSUME NEW i \in Steppers(s) PROVE MatchReq(req[i], s)'
    BY DEF Matched
  <2>1. MatchReq(req[i], s) /\ req'[i] = req[i]
    BY DEF Matched, Steppers
  <2>2. req[i].obj # None => L(req[i].obj)' = L(req[i].obj)
    BY <1>3 DEF Steppers
  <2> QED BY <1>2, <1>4, <2>1, <2>2 DEF MatchReq, Steppers
<1> QED BY <1>5, <1>6

\* Sessions are not touched by what is done for a base.
LEMMA BaseCounted ==
    ASSUME TypeInv, TypeInv', CountInv, NEW i \in Thread,
           \/ \E t \in Text : CreateMiss(i, t) \/ CreateHit(i, t)
           \/ InsertCache(i) \/ InsertTokens(i) \/ Persist(i)
           \/ PersistFails(i) \/ OpenSession(i)
           \/ \E s \in Session : CloseSession(i, s)
    PROVE  \A s \in Opened : s \in Opened' => Bounded(s)' /\ Matched(s)'
<1>1. HeapSame
  <2>1. ASSUME NEW t \in Text, CreateMiss(i, t) PROVE HeapSame
    <3>1. PICK o \in Fresh : HeapWith(o, [base |-> t, deltas |-> << >>])
      BY <2>1 DEF CreateMiss
    <3> QED BY <3>1, HeapFrame DEF Fresh
  <2>2. CASE InsertCache(i)
    BY <2>2, HeapFrame DEF InsertCache
  <2> QED BY <2>1, <2>2 DEF CreateHit, InsertTokens, Persist, PersistFails,
      OpenSession, CloseSession, HeapSame
<1>2. UNCHANGED <<sent, mixed>>
  BY DEF CreateMiss, CreateHit, InsertCache, InsertTokens, Persist,
     PersistFails, OpenSession, CloseSession, history
<1> DEFINE Pcs == {"idle", "insert", "count", "persist", "return"}
<1>3. /\ \A j \in Thread \ {i} : req'[j] = req[j]
      /\ req[i].pc \in Pcs /\ req'[i].pc \in Pcs
  <2>1. ASSUME NEW t \in Text, CreateMiss(i, t) \/ CreateHit(i, t)
        PROVE  /\ \A j \in Thread \ {i} : req'[j] = req[j]
               /\ req[i].pc \in Pcs /\ req'[i].pc \in Pcs
    <3>1. \E o : req' = [req EXCEPT ![i] =
                   [Idle EXCEPT !.pc = "insert", !.base = t, !.obj = o]]
          \/ req' = [req EXCEPT ![i] = [Idle EXCEPT !.pc = "return",
                                                    !.base = t]]
      BY <2>1 DEF CreateMiss, CreateHit
    <3>2. req[i].pc = "idle"
      <4>1. req[i] = Idle
        BY <2>1 DEF CreateMiss, CreateHit
      <4> QED BY <4>1 DEF Idle
    <3> QED BY <3>1, <3>2 DEF TypeInv, TypeOK, Idle
  <2>2. CASE InsertCache(i) \/ InsertTokens(i) \/ Persist(i)
    BY <2>2 DEF InsertCache, InsertTokens, Persist, TypeInv, TypeOK, Req
  <2>3. CASE PersistFails(i) \/ OpenSession(i)
    BY <2>3 DEF PersistFails, OpenSession, TypeInv, TypeOK, Idle
  <2>4. ASSUME NEW s \in Session, CloseSession(i, s)
        PROVE  /\ \A j \in Thread \ {i} : req'[j] = req[j]
               /\ req[i].pc \in Pcs /\ req'[i].pc \in Pcs
    BY <2>4 DEF CloseSession, Idle
  <2> QED BY <2>1, <2>2, <2>3, <2>4
<1>4. req[i].sid = None /\ req'[i].sid = None
  <2>1. req[i] \in Req /\ req'[i] \in Req
    BY DEF TypeInv, TypeOK
  <2> QED BY <1>3, <2>1 DEF Req
<1>5. \A s \in Opened : sess'[s] = sess[s]
  <2>1. CASE OpenSession(i)
    <3>1. \/ UNCHANGED sess
          \/ \E s \in Session \ Opened, f \in {[base |-> req[i].base,
                 past |-> shared[req[i].base], step |-> 0]} :
                sess' = [sess EXCEPT ![s] = f]
      BY <2>1 DEF OpenSession
    <3> QED BY <3>1 DEF TypeInv, TypeOK, Opened
  <2> QED BY <2>1 DEF CreateMiss, CreateHit, InsertCache, InsertTokens,
      Persist, PersistFails, CloseSession
<1> SUFFICES ASSUME NEW s \in Opened, s \in Opened'
             PROVE  Bounded(s)' /\ Matched(s)'
  OBVIOUS
<1>6. \A j \in Thread : req[j].sid = s \/ req'[j].sid = s => req'[j] = req[j]
  <2>1. s # None
    BY ValueAssumption DEF Opened
  <2> QED BY <1>3, <1>4, <2>1
<1> QED BY <1>1, <1>2, <1>5, <1>6, CountFrame DEF CountInv

\* A new session starts with nothing counted.
LEMMA OpenCounted ==
    ASSUME TypeInv, TypeInv', ApartInv, CountInv, NEW i \in Thread,
           OpenSession(i)
    PROVE  CountInv'
<1> SUFFICES ASSUME NEW s \in Opened', s \notin Opened
             PROVE  Bounded(s)' /\ Matched(s)'
  BY BaseCounted DEF CountInv
<1> DEFINE t == req[i].base
<1>1. /\ UNCHANGED <<shared, heap, sent>> /\ req[i].pc = "return" /\ t \in Text
      /\ req' = [req EXCEPT ![i] = Idle]
  BY DEF OpenSession, TypeInv, TypeOK, Req, history
<1>2. sess'[s].past = shared[t] /\ sess'[s].step = 0
  BY DEF OpenSession, TypeInv, TypeOK, Opened
<1>3. heap'[shared[t]].deltas = << >>
  <2>1. shared[t] # None
    BY <1>1 DEF TypeInv, CachedInv
  <2>2. heap[shared[t]] = [base |-> t, deltas |-> << >>]
    BY <1>1, <2>1 DEF ApartInv, BaseOnly
  <2> QED BY <1>1, <2>2
<1>4. L(sess[s].past)' = 0
  BY <1>2, <1>3, EmptySeq DEF L
<1>5. Steppers(s)' = {}
  <2>1. s \in Session /\ \A j \in Thread : req[j].sid # s
    BY ValueAssumption DEF TypeInv, TypeOK, Opened
  <2>2. \A j \in Thread : req'[j].sid # s
    BY <1>1, <2>1, ValueAssumption DEF TypeInv, TypeOK, Idle
  <2> QED BY <2>2 DEF Steppers
<1>6. Before(s)' = {} /\ Moving(s)' = {}
  BY <1>5 DEF Steppers, Before, Moving
<1>7. Cardinality(Before(s))' = 0 /\ Cardinality(Moving(s))' = 0
  BY <1>6, FS_EmptySet
<1>8. sent'[s] \in Nat
  BY <1>1, BoundAssumption DEF TypeInv, TypeOK, Opened
<1> QED BY <1>2, <1>4, <1>5, <1>6, <1>7, <1>8 DEF Bounded, Matched

\* The session of a step, and the other sessions.
LEMMA OthersCounted ==
    ASSUME TypeInv, CountInv, HeapSame, NEW i \in Thread, NEW s \in Session,
           req[i].sid \in {s, None}, req'[i].sid \in {s, None},
           \A j \in Thread \ {i} : req'[j] = req[j],
           \A u \in Session \ {s} :
              /\ sess'[u] = sess[u] /\ sent'[u] = sent[u]
              /\ u \in mixed' <=> u \in mixed,
           Opened' = Opened, Bounded(s)', Matched(s)'
    PROVE  CountInv'
<1> SUFFICES ASSUME NEW u \in Opened', u # s
             PROVE  Bounded(u)' /\ Matched(u)'
  BY DEF CountInv
<1>1. u \in Session \ {s} /\ u # None /\ u \in Opened
  BY ValueAssumption DEF Opened
<1>2. \A j \in Thread : req[j].sid = u \/ req'[j].sid = u => req'[j] = req[j]
  BY <1>1
<1> QED BY <1>1, <1>2, CountFrame DEF CountInv

\* One more step under way, sent but not counted.
LEMMA StartCounted ==
    ASSUME TypeInv, TypeInv', CountInv, NEW i \in Thread, NEW s \in Session,
           StartStep(i, s)
    PROVE  CountInv'
<1> DEFINE o == sess[s].past
<1>1. /\ UNCHANGED <<heap, sess>> /\ s \in Opened /\ req[i] = Idle
      /\ sent' = [sent EXCEPT ![s] = @ + 1]
      /\ mixed' = IF Steppers(s) = {} THEN mixed ELSE mixed \cup {s}
      /\ req' = [req EXCEPT ![i] = [Idle EXCEPT !.pc = "run", !.sid = s,
                                                !.obj = o]]
  BY DEF StartStep, TypeInv, TypeOK
<1>2. /\ req'[i].pc = "run" /\ req'[i].sid = s /\ req'[i].obj = o
      /\ req[i].sid = None /\ s # None
      /\ \A j \in Thread \ {i} : req'[j] = req[j]
  BY <1>1, ValueAssumption DEF TypeInv, TypeOK, Idle
<1>3. /\ Before(s)' = Before(s) \cup {i} /\ i \notin Before(s)
      /\ Moving(s)' = Moving(s) \cup {i} /\ i \notin Moving(s)
      /\ Steppers(s)' = Steppers(s) \cup {i}
  BY <1>2 DEF Before, Moving, Steppers
<1>4. /\ Cardinality(Before(s))' = Cardinality(Before(s)) + 1
      /\ Cardinality(Moving(s))' = Cardinality(Moving(s)) + 1
      /\ Cardinality(Before(s)) \in Nat /\ Cardinality(Moving(s)) \in Nat
  BY <1>3, CountTypes, FS_AddElement
<1>5. /\ sent'[s] = sent[s] + 1 /\ sent[s] \in Nat
      /\ sess[s].step \in Nat /\ L(o) \in Nat
      /\ \A j \in Thread : req[j].obj # None => L(req[j].obj) \in Nat
      /\ \A j \in Thread : req[j].seen \in Nat
  BY <1>1, BoundAssumption, CountTypes DEF TypeInv, TypeOK, Req
<1>6. \A x : L(x)' = L(x)
  BY <1>1 DEF L
<1>7. Bounded(s) /\ Matched(s)
  BY <1>1 DEF CountInv
<1>8. Bounded(s)'
  <2>1. /\ sess'[s].step + Cardinality(Before(s))' <= sent'[s]
        /\ L(sess[s].past)' + Cardinality(Moving(s))' <= sent'[s]
    BY <1>1, <1>4, <1>5, <1>6, <1>7 DEF Bounded
  <2>2. ASSUME NEW j \in Before(s)', req'[j].pc = "write"
        PROVE  req'[j].seen + Cardinality(Before(s))' <= sent'[s]
    <3>1. j # i /\ j \in Before(s) /\ req'[j] = req[j] /\ j \in Thread
      BY <1>2, <1>3, <2>2 DEF Before
    <3> QED BY <1>4, <1>5, <1>7, <2>2, <3>1 DEF Bounded
  <2>3. ASSUME NEW j \in Moving(s)'
        PROVE  /\ req'[j].pc = "run" =>
                     L(req[j].obj)' + Cardinality(Moving(s))' <= sent'[s]
               /\ req'[j].pc = "put" =>
                     L(req[j].obj)' + Cardinality(Moving(s))' <= sent'[s] + 1
    <3>1. CASE j = i
      <4>1. L(req[j].obj)' = L(o)
        BY <1>1, <1>2, <1>6, <3>1 DEF L
      <4> QED BY <1>2, <1>4, <1>5, <1>7, <3>1, <4>1 DEF Bounded
    <3>2. CASE j # i
      <4>1. j \in Moving(s) /\ req'[j] = req[j] /\ j \in Thread
        BY <1>2, <1>3, <3>2 DEF Moving
      <4>2. L(req[j].obj)' = L(req[j].obj) /\ L(req[j].obj) \in Nat
        <5>1. req[j].obj # None
          BY <4>1 DEF Moving, TypeInv, TypeOK, Req
        <5> QED BY <1>1, <1>5, <4>1, <5>1 DEF L
      <4> QED BY <1>4, <1>5, <1>7, <4>1, <4>2 DEF Bounded
    <3> QED BY <3>1, <3>2
  <2> QED BY <2>1, <2>2, <2>3 DEF Bounded
<1>9. Matched(s)'
  <2> SUFFICES ASSUME s \notin mixed'
               PROVE  /\ \A j, k \in Steppers(s)' : j = k
                      /\ Steppers(s)' # {}
                      /\ \A j \in Steppers(s)' : MatchReq(req[j], s)'
    BY DEF Matched
  <2>1. Steppers(s) = {} /\ s \notin mixed
    BY <1>1
  <2>2. Steppers(s)' = {i}
    BY <1>3, <2>1
  <2>3. sess[s].step = L(o)
    BY <1>7, <2>1 DEF Matched
  <2>4. MatchReq(req[i], s)'
    BY <1>1, <1>2, <2>3 DEF MatchReq, L
  <2> QED BY <2>2, <2>4
<1>10. Opened' = Opened /\ HeapSame
  BY <1>1 DEF Opened, HeapSame
<1>11. \A u \in Session \ {s} :
          /\ sess'[u] = sess[u] /\ sent'[u] = sent[u]
          /\ u \in mixed' <=> u \in mixed
  BY <1>1 DEF TypeInv, TypeOK
<1> QED BY <1>2, <1>8, <1>9, <1>10, <1>11, OthersCounted

\* What the lemmas on the rest of a step share.
LEMMA StepFacts ==
    ASSUME TypeInv, TypeInv', CountInv, NEW i \in Thread,
           \/ Forward(i) \/ PutPast(i) \/ ReadStep(i) \/ WriteStep(i)
           \/ EmitReceipt(i)
    PROVE  LET s == req[i].sid
           IN  /\ s \in Opened /\ s \in Session /\ s # None
               /\ req[i] \in Req /\ sess[s] \in Fields
               /\ i \in Steppers(s) /\ Bounded(s) /\ Matched(s)
               /\ sent[s] \in Nat /\ UNCHANGED <<sent, mixed>>
               /\ Cardinality(Before(s)) \in Nat
               /\ Cardinality(Moving(s)) \in Nat
               /\ sess[s].step \in Nat /\ L(sess[s].past) \in Nat
               /\ req[i].seen \in Nat
<1> DEFINE s == req[i].sid
<1>1. req[i] \in Req /\ req[i].pc \in {"run", "put", "read", "write", "receipt"}
  BY DEF Forward, PutPast, ReadStep, WriteStep, EmitReceipt, TypeInv, TypeOK
<1>2. s # None /\ s \in Opened /\ s \in Session
  BY <1>1 DEF TypeInv, TypeOK, Req
<1>3. UNCHANGED <<sent, mixed>>
  BY DEF Forward, PutPast, ReadStep, WriteStep, EmitReceipt, history
<1>4. sess[s] \in Fields
  BY <1>2, HeldTypes DEF TypeInv
<1>5. sent[s] \in Nat /\ req[i].seen \in Nat
  BY <1>1, <1>2, BoundAssumption DEF TypeInv, TypeOK, Req
<1>6. i \in Steppers(s) /\ Bounded(s) /\ Matched(s)
  BY <1>2 DEF Steppers, CountInv
<1> QED BY <1>1, <1>2, <1>3, <1>4, <1>5, <1>6, CountTypes

\* The model has run the delta.
LEMMA ForwardCounted ==
    ASSUME InPlace = FALSE, TypeInv, TypeInv', CountInv, NEW i \in Thread,
           Forward(i)
    PROVE  CountInv'
<1>1. PICK s \in Session : s = req[i].sid
  BY StepFacts
<1>2. /\ s \in Opened /\ s # None /\ i \in Steppers(s)
      /\ Bounded(s) /\ Matched(s) /\ UNCHANGED <<sent, mixed>>
      /\ sent[s] \in Nat /\ sess[s].step \in Nat /\ L(sess[s].past) \in Nat
      /\ Cardinality(Moving(s)) \in Nat /\ req[i] \in Req
  BY <1>1, StepFacts
<1>3. PICK o \in Fresh :
         /\ req' = [req EXCEPT ![i].pc = "put", ![i].obj = o]
         /\ HeapWith(o, After(heap[req[i].obj], s))
  BY <1>1 DEF Forward
<1>4. /\ req[i].pc = "run" /\ req[i].obj # None /\ UNCHANGED <<sess, open>>
      /\ req'[i].pc = "put" /\ req'[i].sid = s /\ req'[i].obj = o
      /\ \A j \in Thread \ {i} : req'[j] = req[j]
      /\ o \notin Held /\ o \in Obj
  BY <1>1, <1>2, <1>3 DEF Forward, TypeInv, TypeOK, Req, Fresh
<1>5. HeapSame /\ heap'[o] = After(heap[req[i].obj], s)
  <2>1. o \in Held'
    BY <1>4, ValueAssumption DEF Held
  <2> QED BY <1>3, <1>4, <2>1, HeapFrame
<1>6. L(req[i].obj) \in Nat /\ L(req[i].obj)' = L(req[i].obj) + 1
  <2>1. heap[req[i].obj] \in Cache
    BY <1>4, HeldTypes DEF TypeInv
  <2>2. /\ Len(Append(heap[req[i].obj].deltas, s))
             = Len(heap[req[i].obj].deltas) + 1
        /\ Len(heap[req[i].obj].deltas) \in Nat
    BY <2>1, AppendProperties DEF Cache
  <2>3. heap'[req'[i].obj].deltas = Append(heap[req[i].obj].deltas, s)
    BY <1>4, <1>5 DEF After
  <2> QED BY <2>2, <2>3 DEF L
<1>7. /\ Before(s)' = Before(s) /\ Moving(s)' = Moving(s)
      /\ Steppers(s)' = Steppers(s) /\ i \in Moving(s)
  BY <1>1, <1>4 DEF Before, Moving, Steppers
<1>8. L(sess[s].past)' = L(sess[s].past)
  <2>1. sess[s].past \in Held /\ sess'[s].past \in Held'
    <3>1. s \in Opened'
      BY <1>2, <1>4 DEF Opened
    <3>2. sess[s].past \in Obj \cap Held /\ sess'[s] = sess[s]
      BY <1>2, <1>4, HeldTypes DEF TypeInv
    <3> QED BY <3>1, <3>2, ValueAssumption DEF Held
  <2> QED BY <1>4, <1>5, <2>1 DEF HeapSame, L
<1>9. ASSUME NEW j \in Moving(s) \ {i}
      PROVE  L(req[j].obj)' = L(req[j].obj) /\ req'[j] = req[j]
  <2>1. req[j].obj # None /\ req'[j] = req[j] /\ j \in Thread
    BY <1>4 DEF Moving, TypeInv, TypeOK, Req
  <2>2. req[j].obj \in Held \cap Held'
    BY <2>1 DEF Held
  <2> QED BY <1>5, <2>1, <2>2 DEF HeapSame, L
<1>10. Bounded(s)'
  <2>1. /\ sess'[s].step + Cardinality(Before(s))' <= sent'[s]
        /\ L(sess[s].past)' + Cardinality(Moving(s))' <= sent'[s]
    BY <1>2, <1>4, <1>7, <1>8 DEF Bounded
  <2>2. ASSUME NEW j \in Before(s)', req'[j].pc = "write"
        PROVE  req'[j].seen + Cardinality(Before(s))' <= sent'[s]
    <3>1. req'[j] = req[j]
      BY <1>4, <2>2 DEF Before
    <3> QED BY <1>2, <1>7, <2>2, <3>1 DEF Bounded
  <2>3. ASSUME NEW j \in Moving(s)'
        PROVE  /\ req'[j].pc = "run" =>
                     L(req[j].obj)' + Cardinality(Moving(s))' <= sent'[s]
               /\ req'[j].pc = "put" =>
                     L(req[j].obj)' + Cardinality(Moving(s))' <= sent'[s] + 1
    <3>1. CASE j = i
      BY <1>2, <1>4, <1>6, <1>7, <3>1 DEF Bounded
    <3>2. CASE j # i
      BY <1>2, <1>7, <1>9, <3>2 DEF Bounded
    <3> QED BY <3>1, <3>2
  <2> QED BY <2>1, <2>2, <2>3 DEF Bounded
<1>11. Matched(s)'
  <2> SUFFICES ASSUME s \notin mixed
               PROVE  /\ \A j, k \in Steppers(s) : j = k
                      /\ MatchReq(req[i], s)'
    BY <1>2, <1>7 DEF Matched
  <2>1. \A j, k \in Steppers(s) : j = k
    BY <1>2 DEF Matched
  <2>2. MatchReq(req[i], s)
    BY <1>2 DEF Matched
  <2>3. MatchReq(req[i], s)'
    BY <1>2, <1>4, <1>6, <1>8, <2>2 DEF MatchReq
  <2> QED BY <2>1, <2>3
<1>12. Opened' = Opened
  BY <1>4 DEF Opened
<1> QED BY <1>1, <1>2, <1>4, <1>5, <1>10, <1>11, <1>12, OthersCounted

\* The session has the new cache.
LEMMA PutCounted ==
    ASSUME TypeInv, TypeInv', CountInv, NEW i \in Thread, PutPast(i)
    PROVE  CountInv'
<1>1. PICK s \in Session : s = req[i].sid
  BY StepFacts
<1>2. /\ s \in Opened /\ s # None /\ i \in Steppers(s)
      /\ Bounded(s) /\ Matched(s) /\ UNCHANGED <<sent, mixed>>
      /\ sent[s] \in Nat /\ sess[s].step \in Nat /\ L(sess[s].past) \in Nat
      /\ Cardinality(Moving(s)) \in Nat /\ req[i] \in Req
      /\ sess[s] \in Fields
  BY <1>1, StepFacts
<1> DEFINE f == [sess[s] EXCEPT !.past = req[i].obj]
<1>3. /\ req[i].pc = "put" /\ req[i].obj \in Obj /\ HeapSame
      /\ sess' = [sess EXCEPT ![s] = f] /\ f \in Fields
      /\ req'[i].pc = "read" /\ req'[i].sid = s
      /\ \A j \in Thread \ {i} : req'[j] = req[j]
  BY <1>1, <1>2, HeapFrame DEF PutPast, TypeInv, TypeOK, Req, Fields
<1>4. /\ sess'[s].past = req[i].obj /\ sess'[s].step = sess[s].step
      /\ \A u \in Session \ {s} : sess'[u] = sess[u]
      /\ Opened' = Opened
  BY <1>2, <1>3, ValueAssumption DEF TypeInv, TypeOK, Fields, Opened
<1>5. L(req[i].obj) \in Nat /\ L(sess[s].past)' = L(req[i].obj)
  <2>1. req[i].obj # None
    BY <1>3, ValueAssumption
  <2>2. req[i].obj \in Held \cap Held'
    BY <1>2, <1>4, <2>1 DEF Held
  <2>3. heap'[sess'[s].past] = heap[req[i].obj]
    BY <1>3, <1>4, <2>2 DEF HeapSame
  <2> QED BY <2>1, <2>3, CountTypes DEF L
<1>6. /\ Before(s)' = Before(s) /\ Steppers(s)' = Steppers(s)
      /\ Moving(s)' = Moving(s) \ {i} /\ i \in Moving(s)
  BY <1>1, <1>3 DEF Before, Moving, Steppers
<1>7. Cardinality(Moving(s))' = Cardinality(Moving(s)) - 1
  BY <1>6, CountTypes, FS_RemoveElement
<1>8. ASSUME NEW j \in Moving(s) \ {i}
      PROVE  /\ L(req[j].obj)' = L(req[j].obj) /\ L(req[j].obj) \in Nat
             /\ req'[j] = req[j]
  <2>1. req[j].obj # None /\ req'[j] = req[j] /\ j \in Thread
    BY <1>3 DEF Moving, TypeInv, TypeOK, Req
  <2>2. req[j].obj \in Held \cap Held'
    BY <2>1 DEF Held
  <2> QED BY <1>3, <2>1, <2>2, CountTypes DEF HeapSame, L
<1>9. Bounded(s)'
  <2>1. /\ sess'[s].step + Cardinality(Before(s))' <= sent'[s]
        /\ L(sess[s].past)' + Cardinality(Moving(s))' <= sent'[s]
    BY <1>2, <1>3, <1>4, <1>5, <1>6, <1>7 DEF Bounded
  <2>2. ASSUME NEW j \in Before(s)', req'[j].pc = "write"
        PROVE  req'[j].seen + Cardinality(Before(s))' <= sent'[s]
    <3>1. req'[j] = req[j]
      BY <1>3, <2>2 DEF Before
    <3> QED BY <1>2, <1>6, <2>2, <3>1 DEF Bounded
  <2>3. ASSUME NEW j \in Moving(s)'
        PROVE  /\ req'[j].pc = "run" =>
                     L(req[j].obj)' + Cardinality(Moving(s))' <= sent'[s]
               /\ req'[j].pc = "put" =>
                     L(req[j].obj)' + Cardinality(Moving(s))' <= sent'[s] + 1
    BY <1>2, <1>6, <1>7, <1>8 DEF Bounded
  <2> QED BY <2>1, <2>2, <2>3 DEF Bounded
<1>10. Matched(s)'
  <2> SUFFICES ASSUME s \notin mixed
               PROVE  /\ \A j, k \in Steppers(s) : j = k
                      /\ MatchReq(req[i], s)'
    BY <1>2, <1>6 DEF Matched
  <2>1. (\A j, k \in Steppers(s) : j = k) /\ MatchReq(req[i], s)
    BY <1>2 DEF Matched
  <2>2. MatchReq(req[i], s)'
    BY <1>2, <1>3, <1>4, <1>5, <2>1 DEF MatchReq
  <2> QED BY <2>1, <2>2
<1> QED BY <1>1, <1>2, <1>3, <1>4, <1>9, <1>10, OthersCounted

\* The counter is read, written, and the step answered: the caches stay.
LEMMA WriteCounted ==
    ASSUME TypeInv, TypeInv', CountInv, NEW i \in Thread,
           ReadStep(i) \/ WriteStep(i) \/ EmitReceipt(i)
    PROVE  CountInv'
<1>1. PICK s \in Session : s = req[i].sid
  BY StepFacts
<1>2. /\ s \in Opened /\ s # None /\ i \in Steppers(s)
      /\ Bounded(s) /\ Matched(s) /\ UNCHANGED <<sent, mixed>>
      /\ sent[s] \in Nat /\ sess[s].step \in Nat /\ L(sess[s].past) \in Nat
      /\ Cardinality(Before(s)) \in Nat /\ Cardinality(Moving(s)) \in Nat
      /\ req[i] \in Req /\ req[i].seen \in Nat /\ sess[s] \in Fields
  BY <1>1, StepFacts
<1>3. /\ UNCHANGED heap /\ HeapSame
      /\ \A j \in Thread \ {i} : req'[j] = req[j]
      /\ req[i].pc \in {"read", "write", "receipt"}
      /\ req'[i].pc \in {"write", "receipt", "idle"}
      /\ req'[i].sid \in {s, None}
  BY <1>1, <1>2 DEF ReadStep, WriteStep, EmitReceipt, TypeInv, TypeOK, Req,
     Idle, HeapSame
<1>4. /\ Moving(s)' = Moving(s) /\ i \notin Moving(s)
      /\ Steppers(s)' \subseteq Steppers(s)
  BY <1>1, <1>3 DEF Moving, Steppers
<1>5. /\ \A u \in Session \ {s} : sess'[u] = sess[u]
      /\ sess'[s].past = sess[s].past /\ Opened' = Opened
      /\ WriteStep(i) => sess'[s].step = req[i].seen + 1
      /\ ~WriteStep(i) => sess'[s].step = sess[s].step
  <2>1. CASE WriteStep(i)
    <3>1. [sess[s] EXCEPT !.step = req[i].seen + 1] \in Fields
      BY <1>2 DEF Fields
    <3> QED BY <1>1, <1>2, <2>1, <3>1, ValueAssumption
            DEF WriteStep, TypeInv, TypeOK, Opened, Fields
  <2>2. CASE ~WriteStep(i)
    BY <2>2 DEF ReadStep, EmitReceipt, Opened
  <2> QED BY <2>1, <2>2
<1>6. L(sess[s].past)' = L(sess[s].past)
  BY <1>3, <1>5 DEF L
<1>7. ASSUME NEW j \in Moving(s)
      PROVE  L(req[j].obj)' = L(req[j].obj) /\ req'[j] = req[j]
  BY <1>3, <1>4 DEF Moving, L
<1>8. Bounded(s)' /\ Matched(s)'
  <2>1. ASSUME /\ sess'[s].step + Cardinality(Before(s))' <= sent[s]
               /\ Cardinality(Before(s))' \in Nat
               /\ Cardinality(Before(s))' <= Cardinality(Before(s))
               /\ i \in Before(s)' => req'[i].seen
                                        + Cardinality(Before(s))' <= sent[s]
        PROVE  Bounded(s)'
    <3>1. ASSUME NEW j \in Before(s)', req'[j].pc = "write"
          PROVE  req'[j].seen + Cardinality(Before(s))' <= sent'[s]
      <4>1. CASE j = i
        BY <1>2, <2>1, <4>1
      <4>2. CASE j # i
        <5>1. /\ req'[j] = req[j] /\ j \in Before(s)
              /\ req[j].seen \in Nat
          BY <1>3, <4>2 DEF Before, TypeInv, TypeOK, Req
        <5> QED BY <1>2, <2>1, <3>1, <5>1 DEF Bounded
      <4> QED BY <4>1, <4>2
    <3> QED BY <1>2, <1>4, <1>6, <1>7, <2>1, <3>1 DEF Bounded
  <2>2. ASSUME s \notin mixed => /\ \A j, k \in Steppers(s) : j = k
                                 /\ MatchReq(req[i], s),
               Steppers(s)' = {i} \/ Steppers(s)' = {} \/ s \in mixed,
               s \notin mixed /\ i \in Steppers(s)' => MatchReq(req[i], s)',
               s \notin mixed /\ Steppers(s)' = {} =>
                  sess'[s].step = L(sess[s].past)'
        PROVE  Matched(s)'
    BY <1>2, <2>2 DEF Matched
  <2>3. s \notin mixed => /\ \A j, k \in Steppers(s) : j = k
                          /\ MatchReq(req[i], s)
    BY <1>2 DEF Matched
  <2>4. s \notin mixed => Steppers(s) = {i}
    BY <1>2, <2>3
  <2>5. CASE ReadStep(i)
    <3>1. /\ req[i].pc = "read" /\ req'[i].pc = "write" /\ req'[i].sid = s
          /\ req'[i].seen = sess[s].step /\ ~WriteStep(i)
      BY <1>1, <1>2, <2>5 DEF ReadStep, WriteStep, TypeInv, TypeOK, Req
    <3>2. Before(s)' = Before(s) /\ Steppers(s)' = Steppers(s)
      BY <1>1, <1>3, <3>1 DEF Before, Steppers
    <3>3. Bounded(s)'
      BY <1>2, <1>5, <2>1, <3>1, <3>2 DEF Bounded
    <3>4. s \notin mixed => MatchReq(req[i], s)'
      BY <1>5, <1>6, <2>3, <3>1 DEF MatchReq
    <3>5. Steppers(s)' # {}
      BY <1>2, <3>2
    <3> QED BY <2>2, <2>3, <2>4, <3>2, <3>3, <3>4, <3>5
  <2>6. CASE WriteStep(i)
    <3>1. /\ req[i].pc = "write" /\ req'[i].pc = "receipt" /\ req'[i].sid = s
      BY <1>1, <1>2, <2>6 DEF WriteStep, TypeInv, TypeOK, Req
    <3>2. /\ Before(s)' = Before(s) \ {i} /\ i \in Before(s)
          /\ Steppers(s)' = Steppers(s)
      BY <1>1, <1>3, <3>1 DEF Before, Steppers
    <3>3. Cardinality(Before(s))' = Cardinality(Before(s)) - 1
      BY <3>2, CountTypes, FS_RemoveElement
    <3>4. Cardinality(Before(s))' \in Nat
      BY CountTypes, <3>2, FS_RemoveElement, FS_CardinalityType
    <3>5. Bounded(s)'
      <4>1. sess'[s].step + Cardinality(Before(s))' <= sent[s]
        BY <1>2, <1>5, <2>6, <3>1, <3>2, <3>3 DEF Bounded
      <4> QED BY <1>2, <2>1, <3>2, <3>3, <3>4, <4>1
    <3>6. s \notin mixed => MatchReq(req[i], s)'
      BY <1>2, <1>5, <1>6, <2>3, <2>6, <3>1 DEF MatchReq
    <3>7. Steppers(s)' # {}
      BY <1>2, <3>2
    <3> QED BY <2>2, <2>3, <2>4, <3>2, <3>5, <3>6, <3>7
  <2>7. CASE EmitReceipt(i)
    <3>1. /\ req[i].pc = "receipt" /\ req'[i].sid = None /\ req'[i].pc = "idle"
          /\ ~WriteStep(i)
      BY <2>7 DEF EmitReceipt, WriteStep, TypeInv, TypeOK, Idle
    <3>2. /\ Before(s)' = Before(s) /\ i \notin Before(s)
          /\ Steppers(s)' = Steppers(s) \ {i}
      BY <1>2, <1>3, <3>1 DEF Before, Steppers
    <3>3. Bounded(s)'
      BY <1>2, <1>5, <2>1, <3>1, <3>2 DEF Bounded
    <3>4. s \notin mixed => sess'[s].step = L(sess[s].past)'
      BY <1>5, <1>6, <2>3, <3>1 DEF MatchReq
    <3> QED BY <2>2, <2>3, <2>4, <3>2, <3>3, <3>4
  <2> QED BY <2>5, <2>6, <2>7
<1> QED BY <1>1, <1>2, <1>3, <1>5, <1>8, OthersCounted

\* With a model that returns a new cache, no step is counted twice and no
\* delta is cached twice, however the steps of a session overlap; and when
\* they do not, the counter a client sees is the number of deltas in the
\* cache, also after a step whose receipt failed or whose session was closed
\* under it (step).
THEOREM StepsAreCounted ==
    ASSUME InPlace = FALSE
    PROVE  Spec => []StepsCounted
<1> DEFINE IInv == TypeInv /\ ApartInv /\ CountInv
<1>1. Init => IInv
  <2>1. Init => Opened = {}
    BY DEF Init, Opened
  <2> QED BY <2>1, InitType DEF Init, ApartInv, ApartReq, CountInv, Idle
<1>2. IInv /\ [Next]_vars => IInv'
  <2> SUFFICES ASSUME IInv, [Next]_vars PROVE IInv'
    OBVIOUS
  <2>1. TypeInv'
    BY StepType
  <2>2. Next => ApartInv'
    BY <2>1, BaseApart, OpenApart, StepApart DEF Next, Work
  <2>3. UNCHANGED vars => ApartInv'
    BY DEF vars, ApartInv, ApartReq, BaseOnly, OwnOf, Opened
  <2>4. ASSUME NEW i \in Thread,
               \/ \E t \in Text : CreateMiss(i, t) \/ CreateHit(i, t)
               \/ InsertCache(i) \/ InsertTokens(i) \/ Persist(i)
               \/ PersistFails(i)
               \/ \E s \in Session : CloseSession(i, s)
        PROVE  CountInv'
    <3>1. Opened' = Opened
      BY <2>4 DEF CreateMiss, CreateHit, InsertCache, InsertTokens, Persist,
         PersistFails, CloseSession, Opened
    <3> QED BY <2>1, <2>4, <3>1, BaseCounted DEF CountInv
  <2>5. UNCHANGED vars => CountInv'
    <3> SUFFICES ASSUME UNCHANGED vars, NEW s \in Opened
                 PROVE  Bounded(s)' /\ Matched(s)'
      BY DEF vars, CountInv, Opened
    <3>1. UNCHANGED <<heap, sess, req, sent, mixed>> /\ Opened' = Opened
      BY DEF vars, Opened
    <3>2. HeapSame
      BY <3>1 DEF HeapSame
    <3> QED BY <3>1, <3>2, CountFrame DEF CountInv
  <2>6. Next => CountInv'
    BY <2>1, <2>4, OpenCounted, StartCounted, ForwardCounted, PutCounted,
       WriteCounted DEF Next, Work
  <2> QED BY <2>1, <2>2, <2>3, <2>5, <2>6
<1>3. IInv => StepsCounted
  <2> SUFFICES ASSUME IInv, NEW s \in Opened
               PROVE  /\ L(sess[s].past) <= sent[s]
                      /\ sess[s].step <= sent[s]
                      /\ s \notin mixed /\ Steppers(s) = {} =>
                            sess[s].step = L(sess[s].past)
    BY DEF StepsCounted, L
  <2>1. sent[s] \in Nat
    BY BoundAssumption DEF TypeInv, TypeOK, Opened
  <2> QED BY <2>1, CountTypes DEF CountInv, Bounded, Matched
<1> QED BY <1>1, <1>2, <1>3, PTL DEF Spec

-----------------------------------------------------------------------------
(* Requests go on *)

\* Why every request is answered: what its next step needs is always there,
\* and each of its steps brings it nearer to its end.  That a thread which
\* can go on does so is the fairness of FairSpec and stays with the run that
\* checks Answered.

\* As many objects and ids as there can be references to them.
EnoughObjects ==
    MaxObj > Cardinality(Text) + Cardinality(Session) + Cardinality(Thread)

\* A new cache can be made, and a session that is about to be opened finds an
\* id that was never given out.
GoesOn ==
    /\ Fresh # {}
    /\ \A i \in Thread : req[i].base # None => Session \ Opened # {}

\* The steps a request has still to take.
Left == [idle |-> 0, insert |-> 4, count |-> 3, persist |-> 2, return |-> 1,
         run |-> 5, put |-> 4, read |-> 3, write |-> 2, receipt |-> 1]

\* What happens to a request takes it nearer to its end.
Nearer ==
    [][\A i \in Thread : req[i] # Idle /\ req'[i] # req[i] =>
          Left[req'[i].pc] < Left[req[i].pc]]_vars

\* The objects that texts, sessions and requests refer to.
LEMMA HeldIsSmall ==
    ASSUME TypeOK, IsFiniteSet(Text), IsFiniteSet(Session)
    PROVE  /\ IsFiniteSet(Held) /\ Cardinality(Held) \in Nat
           /\ Cardinality(Held) <= Cardinality(Text) + Cardinality(Session)
                                     + Cardinality(Thread)
<1> DEFINE past == [s \in Opened |-> sess[s].past]
           obj  == [i \in Thread |-> req[i].obj]
           A    == {shared[t] : t \in Text}
           B    == {past[s] : s \in Opened}
           C    == {obj[i] : i \in Thread}
<1>1. /\ IsFiniteSet(Opened) /\ Cardinality(Opened) \in Nat
      /\ Cardinality(Opened) <= Cardinality(Session)
      /\ Cardinality(Session) \in Nat
  <2>1. Opened \subseteq Session
    BY DEF Opened
  <2> QED BY <2>1, FS_Subset, FS_CardinalityType
<1>2. /\ IsFiniteSet(A) /\ Cardinality(A) <= Cardinality(Text)
      /\ Cardinality(A) \in Nat /\ Cardinality(Text) \in Nat
  BY FewValues, FS_CardinalityType DEF TypeOK
<1>3. /\ IsFiniteSet(B) /\ Cardinality(B) <= Cardinality(Opened)
      /\ Cardinality(B) \in Nat
  <2> HIDE DEF past
  <2>1. DOMAIN past = Opened /\ past = [s \in Opened |-> past[s]]
    BY DEF past
  <2> QED BY <1>1, <2>1, FewValues
<1>4. /\ IsFiniteSet(C) /\ Cardinality(C) <= Cardinality(Thread)
      /\ Cardinality(C) \in Nat /\ Cardinality(Thread) \in Nat
  <2>1. DOMAIN obj = Thread /\ obj = [i \in Thread |-> obj[i]]
    OBVIOUS
  <2> HIDE DEF obj
  <2> QED BY <2>1, FewValues, ThreadAssumption, FS_CardinalityType
<1>5. Held \subseteq (A \cup B) \cup C
  BY DEF Held
<1> HIDE DEF A, B, C
<1>6. /\ IsFiniteSet((A \cup B) \cup C)
      /\ Cardinality((A \cup B) \cup C) \in Nat
      /\ Cardinality((A \cup B) \cup C) <=
            Cardinality(A) + Cardinality(B) + Cardinality(C)
  <2>1. /\ IsFiniteSet(A \cup B) /\ Cardinality(A \cup B) \in Nat
        /\ Cardinality(A \cup B) <= Cardinality(A) + Cardinality(B)
    BY <1>2, <1>3, FewTogether
  <2>2. /\ IsFiniteSet((A \cup B) \cup C)
        /\ Cardinality((A \cup B) \cup C) \in Nat
        /\ Cardinality((A \cup B) \cup C) <=
              Cardinality(A \cup B) + Cardinality(C)
    BY <1>4, <2>1, FewTogether
  <2> QED BY <1>2, <1>3, <1>4, <2>1, <2>2
<1>7. /\ IsFiniteSet(Held) /\ Cardinality(Held) \in Nat
      /\ Cardinality(Held) <= Cardinality((A \cup B) \cup C)
  BY <1>5, <1>6, FS_Subset, FS_CardinalityType
<1> QED BY <1>1, <1>2, <1>3, <1>4, <1>6, <1>7

-----------------------------------------------------------------------------
(* Steps *)

\* The requests that will open a session.
Opening == {j \in Thread : req[j].base # None}
IdInv   == Cardinality(Opened) + Cardinality(Opening) <= Cardinality(Session)

\* What a step does to a request: it is left alone, begins, or moves on.
Moves(i) ==
    /\ \A j \in Thread \ {i} : req'[j] = req[j]
    /\ Left[req'[i].pc] < Left[req[i].pc]
    /\ req'[i].base \in {req[i].base, None}
Begins(i) == \A j \in Thread \ {i} : req'[j] = req[j]

\* A request for a session begins only when there is an id left for it.
LEMMA BeginSteps ==
    ASSUME TypeOK, NEW i \in Thread,
           \/ \E t \in Text : CreateMiss(i, t) \/ CreateHit(i, t)
           \/ \E s \in Session : StartStep(i, s) \/ CloseSession(i, s)
    PROVE  /\ req[i] = Idle /\ Begins(i) /\ sess' = sess
           /\ req'[i].base = None \/ IdLeft
<1>1. ASSUME NEW t \in Text, CreateMiss(i, t) \/ CreateHit(i, t)
      PROVE  req[i] = Idle /\ Begins(i) /\ sess' = sess /\ IdLeft
  <2>1. req[i] = Idle /\ sess' = sess /\ IdLeft
    BY <1>1 DEF CreateMiss, CreateHit
  <2>2. \E r : req' = [req EXCEPT ![i] = r]
    BY <1>1 DEF CreateMiss, CreateHit
  <2> QED BY <2>1, <2>2 DEF TypeOK, Begins
<1>2. ASSUME NEW s \in Session, StartStep(i, s)
      PROVE  /\ req[i] = Idle /\ Begins(i) /\ sess' = sess
             /\ req'[i].base = None
  BY <1>2 DEF StartStep, TypeOK, Begins, Idle
<1>3. ASSUME NEW s \in Session, CloseSession(i, s)
      PROVE  /\ req[i] = Idle /\ Begins(i) /\ sess' = sess
             /\ req'[i].base = None
  <2>1. req[i] = Idle /\ req' = req /\ sess' = sess
    BY <1>3 DEF CloseSession
  <2>2. Idle.base = None
    BY DEF Idle
  <2> QED BY <2>1, <2>2 DEF Begins
<1> QED BY <1>1, <1>2, <1>3

\* A request under way moves on, and opens at most one session, as the last
\* thing it does.
LEMMA WorkSteps ==
    ASSUME TypeInv, NEW i \in Thread, Work(i) \/ PersistFails(i)
    PROVE  /\ Moves(i)
           /\ \/ Opened' = Opened
              \/ /\ req[i].base # None /\ req'[i].base = None
                 /\ \E s \in Session \ Opened : Opened' = Opened \cup {s}
<1>1. TypeOK /\ req[i] \in Req /\ Idle.pc = "idle" /\ Idle.base = None
  BY DEF TypeInv, TypeOK, Idle
<1>2. CASE InsertCache(i) \/ InsertTokens(i) \/ Persist(i)
  BY <1>1, <1>2 DEF InsertCache, InsertTokens, Persist, TypeOK, Req, Moves,
                    Left, Opened
<1>3. CASE PersistFails(i)
  BY <1>1, <1>3 DEF PersistFails, TypeOK, Moves, Left, Opened
<1>4. CASE OpenSession(i)
  <2>1. /\ req[i].pc = "return" /\ req[i].base # None /\ req'[i] = Idle
        /\ \A j \in Thread \ {i} : req'[j] = req[j]
    BY <1>1, <1>4 DEF OpenSession, TypeOK, Req
  <2>2. Moves(i)
    BY <1>1, <2>1 DEF Moves, Left
  <2>3. CASE sess' = sess
    BY <2>2, <2>3 DEF Opened
  <2>4. CASE sess' # sess
    <3>1. PICK s \in Session \ Opened : sess' = [sess EXCEPT ![s] =
             [base |-> req[i].base, past |-> shared[req[i].base], step |-> 0]]
      BY <1>4, <2>4 DEF OpenSession
    <3>2. [base |-> req[i].base, past |-> shared[req[i].base], step |-> 0]
             # None
      <4>1. req[i].base \in Text /\ shared[req[i].base] \in Obj
        BY <1>1, <2>1, HeldTypes DEF TypeInv, CachedInv, Req
      <4> QED BY <4>1, ValueAssumption DEF Fields
    <3> QED BY <1>1, <2>1, <2>2, <3>1, <3>2 DEF Opened, TypeOK
  <2> QED BY <2>2, <2>3, <2>4
<1>5. CASE Forward(i)
  <2>1. PICK o : req' = [req EXCEPT ![i].pc = "put", ![i].obj = o]
    BY <1>5 DEF Forward
  <2>2. sess' = sess /\ req[i].pc = "run"
    BY <1>5 DEF Forward
  <2> QED BY <1>1, <2>1, <2>2 DEF TypeOK, Req, Moves, Left, Opened
<1>6. CASE PutPast(i)
  <2>1. Moves(i)
    BY <1>1, <1>6 DEF PutPast, TypeOK, Req, Moves, Left
  <2>2. Opened' = Opened
    <3> DEFINE s == req[i].sid
    <3>1. /\ s \in Opened /\ s \in Session /\ sess[s] \in Fields
          /\ sess' = [sess EXCEPT ![s].past = req[i].obj]
          /\ req[i].obj \in Obj
      BY <1>1, <1>6, HeldTypes DEF PutPast, TypeOK, Req, Opened
    <3>2. [sess[s] EXCEPT !.past = req[i].obj] \in Fields
      BY <3>1 DEF Fields
    <3> QED BY <3>1, <3>2, ValueAssumption DEF TypeOK, Opened
  <2> QED BY <2>1, <2>2
<1>7. CASE ReadStep(i) \/ EmitReceipt(i)
  BY <1>1, <1>7 DEF ReadStep, EmitReceipt, TypeOK, Req, Moves, Left, Opened
<1>8. CASE WriteStep(i)
  <2>1. Moves(i)
    BY <1>1, <1>8 DEF WriteStep, TypeOK, Req, Moves, Left
  <2>2. Opened' = Opened
    <3> DEFINE s == req[i].sid
    <3>1. /\ s \in Opened /\ s \in Session /\ sess[s] \in Fields
          /\ sess' = [sess EXCEPT ![s].step = req[i].seen + 1]
          /\ req[i].seen \in Nat
      BY <1>1, <1>8, HeldTypes DEF WriteStep, TypeOK, Req, Opened
    <3>2. [sess[s] EXCEPT !.step = req[i].seen + 1] \in Fields
      BY <3>1 DEF Fields
    <3> QED BY <3>1, <3>2, ValueAssumption DEF TypeOK, Opened
  <2> QED BY <2>1, <2>2
<1> QED BY <1>2, <1>3, <1>4, <1>5, <1>6, <1>7, <1>8 DEF Work

\* Every step.
LEMMA StepMoves ==
    ASSUME TypeInv, [Next]_vars
    PROVE  \/ req' = req /\ Opened' = Opened
           \/ \E i \in Thread :
                 /\ req[i] = Idle /\ Begins(i) /\ Opened' = Opened
                 /\ req'[i].base = None \/ IdLeft
           \/ \E i \in Thread :
                 /\ Moves(i)
                 /\ \/ Opened' = Opened
                    \/ /\ req[i].base # None /\ req'[i].base = None
                       /\ \E s \in Session \ Opened :
                             Opened' = Opened \cup {s}
<1>1. CASE UNCHANGED vars
  BY <1>1 DEF vars, Opened
<1>2. ASSUME NEW i \in Thread,
             \/ \E t \in Text : CreateMiss(i, t) \/ CreateHit(i, t)
             \/ \E s \in Session : StartStep(i, s) \/ CloseSession(i, s)
      PROVE  /\ req[i] = Idle /\ Begins(i) /\ Opened' = Opened
             /\ req'[i].base = None \/ IdLeft
  BY <1>2, BeginSteps DEF TypeInv, Opened
<1> QED BY <1>1, <1>2, WorkSteps DEF Next

\* The ids that are left are enough for the sessions about to be opened.
LEMMA StepIds ==
    ASSUME TypeInv, IdInv, [Next]_vars, IsFiniteSet(Session)
    PROVE  IdInv'
<1>1. /\ IsFiniteSet(Opened) /\ IsFiniteSet(Opening)
      /\ Cardinality(Opened) \in Nat /\ Cardinality(Opening) \in Nat
      /\ Cardinality(Session) \in Nat
  <2>1. Opened \subseteq Session /\ Opening \subseteq Thread
    BY DEF Opened, Opening
  <2> QED BY <2>1, FS_Subset, FS_CardinalityType, ThreadAssumption
<1>2. CASE req' = req /\ Opened' = Opened
  BY <1>2 DEF IdInv, Opening
<1>3. ASSUME NEW i \in Thread, req[i] = Idle, Begins(i), Opened' = Opened,
             req'[i].base = None \/ IdLeft
      PROVE  IdInv'
  <2>1. i \notin Opening
    BY <1>3 DEF Opening, Idle
  <2>2. CASE req'[i].base = None
    <3>1. Opening' = Opening
      BY <1>3, <2>1, <2>2 DEF Begins, Opening
    <3> QED BY <1>3, <3>1 DEF IdInv
  <2>3. CASE req'[i].base # None /\ IdLeft
    <3>1. Opening' = Opening \cup {i}
      BY <1>3, <2>1, <2>3 DEF Begins, Opening
    <3>2. Cardinality(Opening') = Cardinality(Opening) + 1
      BY <1>1, <2>1, <3>1, FS_AddElement
    <3>3. Cardinality(Opened) + Cardinality(Opening) < Cardinality(Session)
      BY <2>3 DEF IdLeft, Opening
    <3> QED BY <1>1, <1>3, <3>2, <3>3 DEF IdInv
  <2> QED BY <1>3, <2>2, <2>3
<1>4. ASSUME NEW i \in Thread, Moves(i), Opened' = Opened
      PROVE  IdInv'
  <2>1. Opening' \subseteq Opening
    BY <1>4 DEF Moves, Opening
  <2>2. /\ Cardinality(Opening') <= Cardinality(Opening)
        /\ Cardinality(Opening') \in Nat
    BY <1>1, <2>1, FS_Subset, FS_CardinalityType
  <2> QED BY <1>1, <1>4, <2>2 DEF IdInv
<1>5. ASSUME NEW i \in Thread, Moves(i), req[i].base # None,
             req'[i].base = None, NEW s \in Session \ Opened,
             Opened' = Opened \cup {s}
      PROVE  IdInv'
  <2>1. i \in Opening /\ Opening' = Opening \ {i}
    BY <1>5 DEF Moves, Opening
  <2>2. Cardinality(Opening') = Cardinality(Opening) - 1
    BY <1>1, <2>1, FS_RemoveElement
  <2>3. Cardinality(Opened') = Cardinality(Opened) + 1
    BY <1>1, <1>5, FS_AddElement
  <2> QED BY <1>1, <2>2, <2>3 DEF IdInv
<1> QED BY <1>2, <1>3, <1>4, <1>5, StepMoves

\* With an id for every session and as many objects as can be referred to, a
\* request always finds what its next step needs, and every step of it, the
\* failing ones included, takes it nearer to its end, while no step of
\* another thread touches it: nothing here waits for anything
\* (_get_or_create_base, create_session, step).
THEOREM RequestsGoOn ==
    ASSUME IsFiniteSet(Text), IsFiniteSet(Session), EnoughObjects
    PROVE  Spec => []GoesOn /\ Nearer
<1>1. Init => TypeInv /\ IdInv
  <2> SUFFICES ASSUME Init PROVE IdInv
    BY InitType
  <2>1. Opened = {} /\ Opening = {}
    BY DEF Init, Opened, Opening, Idle
  <2> QED BY <2>1, FS_EmptySet, FS_CardinalityType DEF IdInv
<1>2. TypeInv /\ IdInv /\ [Next]_vars => TypeInv' /\ IdInv'
  BY StepType, StepIds
<1>3. TypeInv /\ IdInv => GoesOn
  <2> SUFFICES ASSUME TypeInv, IdInv PROVE GoesOn
    OBVIOUS
  <2>1. Fresh # {}
    <3>1. IsFiniteSet(Held) /\ Cardinality(Held) < MaxObj /\ MaxObj \in Nat
      <4>1. /\ Cardinality(Text) \in Nat /\ Cardinality(Session) \in Nat
            /\ Cardinality(Thread) \in Nat
        BY FS_CardinalityType, ThreadAssumption
      <4> QED BY <4>1, HeldIsSmall, BoundAssumption
              DEF TypeInv, EnoughObjects
    <3> QED BY <3>1, FirstFree DEF Fresh, Obj
  <2>2. ASSUME NEW i \in Thread, req[i].base # None
        PROVE  Session \ Opened # {}
    <3>1. Opened \subseteq Session /\ Opening \subseteq Thread
      BY DEF Opened, Opening
    <3>2. /\ IsFiniteSet(Opening) /\ Opening # {}
          /\ Cardinality(Opened) \in Nat /\ Cardinality(Opening) \in Nat
      BY <2>2, <3>1, FS_Subset, FS_CardinalityType, ThreadAssumption
         DEF Opening
    <3>3. Cardinality(Opening) # 0 /\ Cardinality(Session) \in Nat
      BY <3>2, FS_EmptySet, FS_CardinalityType
    <3>4. Cardinality(Opened) < Cardinality(Session)
      BY <3>2, <3>3 DEF IdInv
    <3>5. Opened # Session
      BY <3>2, <3>4
    <3> QED BY <3>1, <3>5
  <2> QED BY <2>1, <2>2 DEF GoesOn
<1>4. TypeInv /\ [Next]_vars =>
         [\A i \in Thread : req[i] # Idle /\ req'[i] # req[i] =>
             Left[req'[i].pc] < Left[req[i].pc]]_vars
  BY StepMoves DEF Begins, Moves
<1> QED BY <1>1, <1>2, <1>3, <1>4, PTL DEF Spec, Nearer
=============================================================================
