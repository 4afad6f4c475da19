------------------------ MODULE SessionServiceProofs ------------------------
(***************************************************************************)
(* SessionServer implements SessionService.                                *)
(***************************************************************************)
EXTENDS SessionServerProofs

Abstract == <<Caches, open, Jobs>>

OthersStay(i) == \A j \in Thread \ {i} : req'[j] = req[j]
PastsSame == \A s \in Opened : s \in Opened' /\ sess'[s].past = sess[s].past

\* Nothing changes for the steps of the other threads and the sessions that
\* keep their objects.
LEMMA OthersSame ==
    ASSUME TypeInv, TypeInv', HeapSame, NEW i \in Thread, OthersStay(i)
    PROVE  /\ \A j \in Thread \ {i} : j \in Stepping' <=> j \in Stepping
           /\ \A j \in Stepping \ {i} : Made(j)' = Made(j)
           /\ \A s \in Opened \cap Opened' : sess'[s].past = sess[s].past =>
                 heap'[sess'[s].past] = heap[sess[s].past]
<1>1. \A j \in Thread \ {i} : j \in Stepping' <=> j \in Stepping
  BY DEF OthersStay, Stepping
<1>2. ASSUME NEW j \in Stepping \ {i} PROVE Made(j)' = Made(j)
  <2>1. req'[j] = req[j] /\ req[j].obj # None
    BY DEF OthersStay, Stepping, TypeInv, TypeOK, Req
  <2>2. req[j].obj \in Held \cap Held'
    BY <2>1 DEF Stepping, Held
  <2> QED BY <2>1, <2>2 DEF HeapSame, Made
<1>3. ASSUME NEW s \in Opened \cap Opened', sess'[s].past = sess[s].past
      PROVE  heap'[sess'[s].past] = heap[sess[s].past]
  <2>1. sess[s].past # None
    BY ValueAssumption DEF TypeInv, TypeOK, Opened, Fields
  <2>2. sess[s].past \in Held \cap Held'
    BY <1>3, <2>1 DEF Held
  <2> QED BY <1>3, <2>2 DEF HeapSame
<1> QED BY <1>1, <1>2, <1>3

\* A step that opens nothing and leaves the objects of the sessions.
LEMMA CachesSame ==
    ASSUME TypeInv, TypeInv', HeapSame, NEW i \in Thread, OthersStay(i),
           PastsSame, Opened' = Opened
    PROVE  Caches' = Caches
BY OthersSame DEF Caches, PastsSame

\* A thread that was not in a step and is not in one afterwards.
LEMMA JobsSame ==
    ASSUME TypeInv, TypeInv', HeapSame, NEW i \in Thread, OthersStay(i),
           i \notin Stepping, i \notin Stepping'
    PROVE  Jobs' = Jobs
<1>1. Stepping' = Stepping
  BY OthersSame DEF Stepping
<1>2. \A j \in Stepping : Made(j)' = Made(j)
  BY OthersSame
<1> QED BY <1>1, <1>2 DEF Jobs

\* What the base of a session needs is nothing the service knows of.
LEMMA BaseStutters ==
    ASSUME TypeInv, TypeInv', NEW i \in Thread,
           \/ \E t \in Text : CreateMiss(i, t) \/ CreateHit(i, t)
           \/ InsertCache(i) \/ InsertTokens(i) \/ Persist(i)
           \/ PersistFails(i)
    PROVE  UNCHANGED Abstract
<1>1. /\ UNCHANGED <<sess, open>> /\ OthersStay(i)
      /\ PastsSame /\ Opened' = Opened
  BY DEF CreateMiss, CreateHit, InsertCache, InsertTokens, Persist,
     PersistFails, OthersStay, PastsSame, Opened, TypeInv, TypeOK
<1>2. HeapSame
  <2>1. ASSUME NEW t \in Text, CreateMiss(i, t)
        PROVE  HeapSame
    BY <2>1, HeapFrame DEF CreateMiss, Fresh
  <2>2. CASE InsertCache(i)
    BY <2>2, HeapFrame DEF InsertCache
  <2>3. CASE \/ \E t \in Text : CreateHit(i, t)
             \/ InsertTokens(i) \/ Persist(i) \/ PersistFails(i)
    BY <2>3 DEF CreateHit, InsertTokens, Persist, PersistFails, HeapSame
  <2> QED BY <2>1, <2>2, <2>3
<1>3. req[i].pc \in {"idle", "insert", "count", "persist"}
  <2>1. ASSUME NEW t \in Text, CreateMiss(i, t) \/ CreateHit(i, t)
        PROVE  req[i].pc = "idle"
    <3>1. req[i] = Idle
      BY <2>1 DEF CreateMiss, CreateHit
    <3> QED BY <3>1 DEF Idle
  <2>2. CASE InsertCache(i) \/ InsertTokens(i) \/ Persist(i)
             \/ PersistFails(i)
    BY <2>2 DEF InsertCache, InsertTokens, Persist, PersistFails
  <2> QED BY <2>1, <2>2
<1>4. req'[i].pc \in {"idle", "insert", "count", "persist", "return"}
  <2>1. ASSUME NEW t \in Text, CreateMiss(i, t) \/ CreateHit(i, t)
        PROVE  req'[i].pc \in {"insert", "return"}
    BY <2>1 DEF CreateMiss, CreateHit, TypeInv, TypeOK, Idle
  <2>2. CASE InsertCache(i) \/ InsertTokens(i) \/ Persist(i)
    BY <2>2 DEF InsertCache, InsertTokens, Persist, TypeInv, TypeOK, Req
  <2>3. CASE PersistFails(i)
    BY <2>3 DEF PersistFails, TypeInv, TypeOK, Idle
  <2> QED BY <2>1, <2>2, <2>3
<1> QED BY <1>1, <1>2, <1>3, <1>4, CachesSame, JobsSame DEF Abstract, Stepping

\* A session starts on its base text alone.
LEMMA OpenServes ==
    ASSUME TypeInv, TypeInv', ApartInv, NEW i \in Thread, OpenSession(i)
    PROVE  \/ \E s \in Session, t \in Text : Service!Open(s, t)
           \/ UNCHANGED Abstract
<1>1. /\ OthersStay(i) /\ HeapSame /\ UNCHANGED heap
      /\ i \notin Stepping /\ i \notin Stepping' /\ req[i].pc = "return"
      /\ req[i].base \in Text
  BY DEF OpenSession, OthersStay, HeapSame, Stepping, TypeInv, TypeOK, Req,
     Idle
<1> PICK t \in Text : t = req[i].base
  BY <1>1
<1>2. Jobs' = Jobs
  BY <1>1, JobsSame
<1>3. ASSUME NEW s \in Session \ Opened, open' = open \cup {s},
             sess' = [sess EXCEPT ![s] =
                         [base |-> t, past |-> shared[t], step |-> 0]]
      PROVE  Service!Open(s, t)
  <2>1. /\ sess'[s] = [base |-> t, past |-> shared[t], step |-> 0]
        /\ \A u \in Session \ {s} : sess'[u] = sess[u]
    BY <1>3 DEF TypeInv, TypeOK
  <2>2. shared[t] # None
    BY <1>1 DEF OpenSession, TypeInv, CachedInv
  <2>3. heap'[sess'[s].past] = [base |-> t, deltas |-> << >>]
    BY <1>1, <2>1, <2>2 DEF ApartInv, BaseOnly
  <2>4. Opened' = Opened \cup {s}
    <3>1. sess'[s] # None
      BY <1>1, <2>1, <2>2, ValueAssumption DEF TypeInv, TypeOK, Fields
    <3> QED BY <2>1, <3>1 DEF Opened
  <2>5. \A u \in Opened : sess'[u] = sess[u]
    BY <2>1 DEF Opened
  <2>6. Caches' = [u \in Opened \cup {s} |->
                      IF u = s THEN [base |-> t, deltas |-> << >>]
                      ELSE heap[sess[u].past]]
    BY <1>1, <2>3, <2>4, <2>5 DEF Caches
  <2> QED BY <1>2, <1>3, <2>6
          DEF Service!Open, Service!Base, Caches
<1>4. CASE UNCHANGED <<sess, open>>
  <2>1. PastsSame /\ Opened' = Opened
    BY <1>4 DEF PastsSame, Opened
  <2> QED BY <1>1, <1>2, <1>4, <2>1, CachesSame DEF Abstract
<1>5. \/ \E s \in Session \ Opened :
            /\ open' = open \cup {s}
            /\ sess' = [sess EXCEPT ![s] =
                           [base |-> t, past |-> shared[t], step |-> 0]]
      \/ UNCHANGED <<sess, open>>
  BY DEF OpenSession
<1> QED BY <1>3, <1>4, <1>5

\* A step takes the cache its session has.
LEMMA StartServes ==
    ASSUME TypeInv, TypeInv', NEW i \in Thread, NEW s \in Session,
           StartStep(i, s)
    PROVE  Service!Begin(i, s)
<1>1. /\ OthersStay(i) /\ HeapSame /\ PastsSame /\ Opened' = Opened
      /\ UNCHANGED <<heap, sess, open>>
      /\ i \notin Stepping /\ s \in open /\ s \in Opened
  BY DEF StartStep, OthersStay, HeapSame, PastsSame, Opened, Stepping, TypeInv,
     TypeOK, Idle
<1>2. /\ req'[i].pc = "run" /\ req'[i].sid = s
      /\ req'[i].obj = sess[s].past
  BY DEF StartStep, TypeInv, TypeOK, Idle
<1>3. Stepping' = Stepping \cup {i}
  BY <1>1, <1>2, OthersSame DEF Stepping
<1>4. Made(i)' = [sid |-> s, kv |-> Service!With(Caches[s], s)]
  BY <1>1, <1>2 DEF Made, After, Service!With, Caches
<1>5. Jobs' = [j \in Stepping \cup {i} |->
                  IF j = i THEN [sid |-> s, kv |-> Service!With(Caches[s], s)]
                  ELSE Made(j)]
  BY <1>1, <1>3, <1>4, OthersSame DEF Jobs
<1>6. Caches' = Caches
  BY <1>1, CachesSame
<1> QED BY <1>1, <1>5, <1>6 DEF Service!Begin, Jobs

\* What a step makes is decided when it takes the cache: the model works on
\* an object of its own.
LEMMA ForwardStutters ==
    ASSUME InPlace = FALSE, TypeInv, TypeInv', NEW i \in Thread, Forward(i)
    PROVE  UNCHANGED Abstract
<1> DEFINE kv == After(heap[req[i].obj], req[i].sid)
<1>1. PICK o \in Fresh :
         /\ req' = [req EXCEPT ![i].pc = "put", ![i].obj = o]
         /\ HeapWith(o, kv)
  BY DEF Forward
<1>2. /\ o \notin Held /\ o \in Obj /\ req[i].pc = "run"
      /\ UNCHANGED <<sess, open>> /\ req[i] \in Req
  BY DEF Fresh, Forward, TypeInv, TypeOK
<1>3. req'[i].pc = "put" /\ req'[i].sid = req[i].sid /\ req'[i].obj = o
  BY <1>1, <1>2 DEF TypeInv, TypeOK, Req
<1>4. o \in Held'
  BY <1>2, <1>3, ValueAssumption DEF Held
<1>5. HeapSame /\ heap'[o] = kv
  BY <1>1, <1>2, <1>4, HeapFrame
<1>6. OthersStay(i) /\ PastsSame /\ Opened' = Opened
  BY <1>1, <1>2 DEF OthersStay, PastsSame, Opened, TypeInv, TypeOK
<1>7. Made(i)' = Made(i)
  BY <1>2, <1>3, <1>5 DEF Made
<1>8. Stepping' = Stepping
  BY <1>2, <1>3, <1>5, <1>6, OthersSame DEF Stepping
<1>9. Jobs' = Jobs
  <2>1. \A j \in Stepping : Made(j)' = Made(j)
    BY <1>5, <1>6, <1>7, OthersSame
  <2> QED BY <1>8, <2>1 DEF Jobs
<1> QED BY <1>2, <1>5, <1>6, <1>9, CachesSame DEF Abstract

\* The cache a step made becomes that of its session, open or not.
LEMMA PutServes ==
    ASSUME TypeInv, TypeInv', NEW i \in Thread, PutPast(i)
    PROVE  Service!Finish(i)
<1> DEFINE s == req[i].sid
<1>1. /\ req[i] \in Req /\ req[i].pc = "put" /\ req[i].obj \in Obj
      /\ i \in Stepping /\ s \in Opened /\ s \in Session /\ sess[s] \in Fields
      /\ HeapSame /\ UNCHANGED open /\ OthersStay(i)
      /\ sess' = [sess EXCEPT ![s].past = req[i].obj]
  <2>1. /\ req[i] \in Req /\ req[i].pc = "put"
        /\ HeapSame /\ UNCHANGED open /\ OthersStay(i)
        /\ sess' = [sess EXCEPT ![s].past = req[i].obj]
    BY HeapFrame DEF PutPast, OthersStay, TypeInv, TypeOK
  <2>2. s # None /\ req[i].obj \in Obj
    BY <2>1 DEF Req
  <2> QED BY <2>1, <2>2, HeldTypes DEF Stepping, TypeInv, TypeOK, Opened
<1>2. /\ sess'[s].past = req[i].obj
      /\ \A u \in Session \ {s} : sess'[u] = sess[u]
  BY <1>1 DEF TypeInv, TypeOK, Fields
<1>3. Opened' = Opened
  <2>1. [sess[s] EXCEPT !.past = req[i].obj] \in Fields
    BY <1>1 DEF Fields
  <2> QED BY <1>1, <2>1, ValueAssumption DEF TypeInv, TypeOK, Opened
<1>4. heap'[req[i].obj] = heap[req[i].obj]
  <2>1. req[i].obj \in Held \cap Held'
    BY <1>1, <1>2, <1>3, ValueAssumption DEF Held
  <2> QED BY <1>1, <2>1 DEF HeapSame
<1>5. Made(i) = [sid |-> s, kv |-> heap[req[i].obj]]
  BY <1>1 DEF Made
<1>6. Caches' = [Caches EXCEPT ![s] = heap[req[i].obj]]
  <2>1. \A u \in Opened \ {s} : heap'[sess'[u].past] = heap[sess[u].past]
    BY <1>1, <1>2, <1>3, OthersSame DEF Opened
  <2> QED BY <1>1, <1>2, <1>3, <1>4, <2>1 DEF Caches
<1>7. Jobs' = [j \in Stepping \ {i} |-> Made(j)]
  <2>1. req'[i].pc = "read"
    BY <1>1 DEF PutPast, TypeInv, TypeOK, Req
  <2>2. Stepping' = Stepping \ {i}
    BY <1>1, <2>1, OthersSame DEF Stepping
  <2> QED BY <1>1, <2>2, OthersSame DEF Jobs
<1>8. /\ DOMAIN Jobs = Stepping
      /\ Jobs[i].sid = s /\ Jobs[i].kv = heap[req[i].obj]
  BY <1>1, <1>5 DEF Jobs
<1>9. Jobs' = [j \in DOMAIN Jobs \ {i} |-> Jobs[j]]
  BY <1>7, <1>8 DEF Jobs
<1> QED BY <1>1, <1>6, <1>8, <1>9 DEF Service!Finish

\* The counter, the receipt and the end of a session.
LEMMA RestServes ==
    ASSUME TypeInv, TypeInv', NEW i \in Thread,
           \/ ReadStep(i) \/ WriteStep(i) \/ EmitReceipt(i)
           \/ \E s \in Session : CloseSession(i, s)
    PROVE  \/ UNCHANGED Abstract
           \/ \E s \in Session : Service!Close(s)
<1>1. UNCHANGED heap /\ HeapSame /\ OthersStay(i)
  BY DEF ReadStep, WriteStep, EmitReceipt, CloseSession, HeapSame, OthersStay,
     TypeInv, TypeOK
<1>2. PastsSame /\ Opened' = Opened
  <2>1. CASE WriteStep(i)
    <3> DEFINE s == req[i].sid
    <3>1. /\ req[i] \in Req /\ s \in Opened /\ sess[s] \in Fields
          /\ sess' = [sess EXCEPT ![s].step = req[i].seen + 1]
      <4>1. s # None
        BY <2>1 DEF WriteStep, TypeInv, TypeOK, Req
      <4> QED BY <2>1, <4>1, HeldTypes DEF WriteStep, TypeInv, TypeOK
    <3>2. [sess[s] EXCEPT !.step = req[i].seen + 1] \in Fields
      BY <3>1 DEF Fields, Req
    <3> QED BY <3>1, <3>2, ValueAssumption
            DEF TypeInv, TypeOK, Opened, Fields, PastsSame
  <2>2. CASE \/ ReadStep(i) \/ EmitReceipt(i)
             \/ \E s \in Session : CloseSession(i, s)
    BY <2>2 DEF ReadStep, EmitReceipt, CloseSession, PastsSame, Opened
  <2> QED BY <2>1, <2>2
<1>3. i \notin Stepping /\ i \notin Stepping'
  <2>1. ASSUME NEW s \in Session, CloseSession(i, s)
        PROVE  req'[i].pc = "idle" /\ req[i].pc = "idle"
    BY <2>1 DEF CloseSession, Idle
  <2>2. CASE ReadStep(i) \/ WriteStep(i)
    BY <2>2 DEF ReadStep, WriteStep, Stepping, TypeInv, TypeOK, Req
  <2>3. CASE EmitReceipt(i)
    BY <2>3 DEF EmitReceipt, Stepping, TypeInv, TypeOK, Idle
  <2> QED BY <2>1, <2>2, <2>3 DEF Stepping
<1>4. Caches' = Caches /\ Jobs' = Jobs
  BY <1>1, <1>2, <1>3, CachesSame, JobsSame
<1>5. CASE ReadStep(i) \/ WriteStep(i) \/ EmitReceipt(i)
  BY <1>4, <1>5 DEF ReadStep, WriteStep, EmitReceipt, Abstract
<1>6. ASSUME NEW s \in Session, CloseSession(i, s)
      PROVE  Service!Close(s)
  BY <1>4, <1>6 DEF CloseSession, Service!Close
<1> QED BY <1>5, <1>6

\* With a model that returns a new cache, every run of the session server, its
\* requests interleaved in any way and its sessions sharing their bases, is a
\* run of the service in which each session has a cache of its own
\* (create_session, step, close_session).
THEOREM ServerServesSessions ==
    ASSUME InPlace = FALSE
    PROVE  Spec => ServesSessions
<1> DEFINE IInv == TypeInv /\ ApartInv
<1>1. Init => IInv /\ Service!Init
  <2> SUFFICES ASSUME Init PROVE IInv /\ Service!Init
    OBVIOUS
  <2>1. Opened = {} /\ Stepping = {}
    BY DEF Init, Opened, Stepping, Idle
  <2>2. Caches = << >> /\ Jobs = << >>
    BY <2>1 DEF Caches, Jobs
  <2>3. IInv
    BY <2>1, InitType DEF Init, ApartInv, ApartReq, Idle
  <2> QED BY <2>2, <2>3 DEF Init, Service!Init
<1>2. IInv /\ [Next]_vars => IInv' /\ [Service!Next]_Abstract
  <2> SUFFICES ASSUME IInv, [Next]_vars
               PROVE  IInv' /\ [Service!Next]_Abstract
    OBVIOUS
  <2>1. TypeInv'
    BY StepType
  <2>2. CASE Next
    <3>1. ApartInv'
      BY <2>1, <2>2, BaseApart, OpenApart, StepApart DEF Next, Work
    <3> SUFFICES [Service!Next]_Abstract
      BY <2>1, <3>1
    <3>2. PICK i \in Thread :
             \/ \E t \in Text : CreateMiss(i, t) \/ CreateHit(i, t)
             \/ \E s \in Session : StartStep(i, s) \/ CloseSession(i, s)
             \/ Work(i) \/ PersistFails(i)
      BY <2>2 DEF Next
    <3>3. CASE \/ \E t \in Text : CreateMiss(i, t) \/ CreateHit(i, t)
               \/ InsertCache(i) \/ InsertTokens(i) \/ Persist(i)
               \/ PersistFails(i)
      BY <2>1, <3>3, BaseStutters
    <3>4. CASE OpenSession(i)
      BY <2>1, <3>4, OpenServes DEF Service!Next
    <3>5. ASSUME NEW s \in Session, StartStep(i, s)
          PROVE  Service!Next
      BY <2>1, <3>5, StartServes DEF Service!Next
    <3>6. CASE Forward(i)
      BY <2>1, <3>6, ForwardStutters
    <3>7. CASE PutPast(i)
      BY <2>1, <3>7, PutServes DEF Service!Next
    <3>8. CASE \/ ReadStep(i) \/ WriteStep(i) \/ EmitReceipt(i)
               \/ \E s \in Session : CloseSession(i, s)
      BY <2>1, <3>8, RestServes DEF Service!Next
    <3> QED BY <3>2, <3>3, <3>4, <3>5, <3>6, <3>7, <3>8 DEF Work
  <2>3. CASE UNCHANGED vars
    <3>1. ApartInv'
      BY <2>3 DEF vars, ApartInv, ApartReq, BaseOnly, OwnOf, Opened
    <3>2. UNCHANGED Abstract
      BY <2>3
      DEF vars, Abstract, Caches, Jobs, Stepping, Made, Opened
    <3> QED BY <2>1, <3>1, <3>2
  <2> QED BY <2>2, <2>3
<1> QED BY <1>1, <1>2, PTL
        DEF Spec, ServesSessions, Service!Spec, Service!vars, Abstract
=============================================================================
