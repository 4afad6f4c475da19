-------------------------- MODULE AgentStoreProofs --------------------------
(***************************************************************************)
(* Proofs about AgentStore, for every number of agents, texts and deltas.  *)
(***************************************************************************)
EXTENDS AgentStore, SequenceTheorems, TLAPS

(* Sequences within sequences *)

\* The empty sequence is within every sequence.
LEMMA WithinEmpty == \A s : Within(<< >>, s)
<1> TAKE s
<1> DEFINE f == [k \in 1..0 |-> k]
<1>1. Len(<< >>) = 0 /\ 1..0 = {}
  BY EmptySeq
<1>2. f \in [1..Len(<< >>) -> 1..Len(s)]
  BY <1>1
<1>3. \A j, k \in 1..Len(<< >>) : FALSE
  BY <1>1
<1> QED BY <1>2, <1>3 DEF Within

\* One more element at the end of both, whatever comes between.
LEMMA WithinAppend ==
    ASSUME NEW S, NEW c \in Seq(S), NEW s \in Seq(S), NEW ds \in Seq(S),
           Within(c, s), ds # << >>
    PROVE  /\ Within(c, s \o ds)
           /\ Within(Append(c, ds[Len(ds)]), s \o ds)
<1> DEFINE n == Len(c)
           m == Len(s) + Len(ds)
           d == ds[Len(ds)]
<1>1. /\ n \in Nat /\ Len(s) \in Nat /\ Len(ds) \in Nat \ {0}
      /\ s \o ds \in Seq(S) /\ Len(s \o ds) = m
      /\ \A k \in 1..Len(s) : (s \o ds)[k] = s[k]
      /\ (s \o ds)[m] = d /\ d \in S
  <2>1. n \in Nat /\ Len(s) \in Nat /\ Len(ds) \in Nat \ {0}
    BY LenProperties, EmptySeq
  <2>2. /\ s \o ds \in Seq(S) /\ Len(s \o ds) = m
        /\ \A k \in 1..m : (s \o ds)[k] =
              IF k <= Len(s) THEN s[k] ELSE ds[k - Len(s)]
    BY ConcatProperties
  <2>3. m \in 1..m /\ ~(m <= Len(s)) /\ m - Len(s) = Len(ds)
    BY <2>1
  <2>4. (s \o ds)[m] = d
    BY <2>2, <2>3
  <2>5. d \in S
    BY <2>1, ElementOfSeq
  <2>6. \A k \in 1..Len(s) : k \in 1..m
    BY <2>1
  <2> QED BY <2>1, <2>2, <2>4, <2>5, <2>6
<1>2. /\ Len(Append(c, d)) = n + 1 /\ Append(c, d)[n + 1] = d
      /\ \A k \in 1..n : Append(c, d)[k] = c[k]
  BY <1>1, AppendProperties
<1>3. PICK f \in [1..n -> 1..Len(s)] :
         /\ \A j, k \in 1..n : j < k => f[j] < f[k]
         /\ \A j \in 1..n : c[j] = s[f[j]]
  BY DEF Within
<1>4. Within(c, s \o ds)
  <2>1. f \in [1..n -> 1..m]
    BY <1>1, <1>3
  <2>2. \A j \in 1..n : c[j] = (s \o ds)[f[j]]
    BY <1>1, <1>3
  <2> QED BY <1>1, <1>3, <2>1, <2>2 DEF Within
<1>5. Within(Append(c, d), s \o ds)
  <2> DEFINE g == [k \in 1..(n + 1) |-> IF k = n + 1 THEN m ELSE f[k]]
  <2>1. g \in [1..(n + 1) -> 1..m]
    BY <1>1, <1>3
  <2>2. ASSUME NEW j \in 1..(n + 1), NEW k \in 1..(n + 1), j < k
        PROVE  g[j] < g[k]
    <3>1. j \in 1..n /\ f[j] \in 1..Len(s) /\ g[j] = f[j]
      BY <1>1, <1>3, <2>2
    <3>2. CASE k = n + 1
      BY <1>1, <3>1, <3>2
    <3>3. CASE k # n + 1
      <4>1. k \in 1..n /\ g[k] = f[k]
        BY <1>1, <3>3
      <4> QED BY <1>3, <2>2, <3>1, <4>1
    <3> QED BY <3>2, <3>3
  <2>3. \A j \in 1..(n + 1) : Append(c, d)[j] = (s \o ds)[g[j]]
    BY <1>1, <1>2, <1>3
  <2> QED BY <1>1, <1>2, <2>1, <2>2, <2>3 DEF Within
<1> QED BY <1>4, <1>5

-----------------------------------------------------------------------------
(* Agents and packets *)

\* The inductive invariant behind the types, CacheCoversName and
\* TokensOfName: what is carried next to a cache fits it, and once more when
\* the delta in hand is merged.
Good(x, a) ==
    /\ a.past # None =>
          /\ a.past.base = a.at.base
          /\ Within(a.at.chain, a.past.deltas)
          /\ a.tokens = 1 + Len(a.at.chain)
          /\ x \notin Handler => Len(a.at.chain) <= a.step
    /\ a.pc \in {"infer", "cut", "merge"} =>
          /\ Within(Append(a.at.chain, a.delta), a.past.deltas)
          /\ CanExtend(a.at)
          /\ x \notin Handler => Len(a.at.chain) < a.step
Fits(h, p) ==
    p # Absent =>
        /\ p.kv.base = h.base
        /\ Within(h.chain, p.kv.deltas)
        /\ p.tokens = 1 + Len(h.chain)
IInv ==
    /\ TypeOK
    /\ \A x \in Agent : Good(x, agent[x])
    /\ \A h \in Addr : Fits(h, pkt[h])

\* An agent moves, and at most one packet changes.
LEMMA Preserves ==
    ASSUME IInv, NEW x \in Agent, NEW a \in State, Good(x, a),
           agent' = [agent EXCEPT ![x] = a], gcs' = gcs,
           \/ pkt' = pkt
           \/ \E h \in Addr, p \in Packet : Fits(h, p) /\ Store(h, p)
    PROVE  IInv'
BY DEF IInv, TypeOK, Store

\* Chains are sequences, and addresses grow with them.
LEMMA AddrClosed ==
    /\ Chain \subseteq Seq(DeltaText)
    /\ \A t \in Text : BaseAddr(t) \in Addr
    /\ \A h \in Addr, d \in DeltaText : CanExtend(h) =>
          MergedAddr(h, d) \in Addr
    /\ \A h \in Addr : Len(h.chain) \in Nat
    /\ \A h \in Addr, d \in DeltaText :
          Len(Append(h.chain, d)) = Len(h.chain) + 1
<1>1. Chain \subseteq Seq(DeltaText)
  BY MaxChainAssumption DEF Chain
<1>2. \A c \in Chain, d \in DeltaText :
         Len(c) < MaxChain => Append(c, d) \in Chain
  <2> SUFFICES ASSUME NEW n \in 0..MaxChain, NEW c \in [1..n -> DeltaText],
                      NEW d \in DeltaText, Len(c) < MaxChain
               PROVE  Append(c, d) \in Chain
    BY DEF Chain
  <2>1. c \in Seq(DeltaText) /\ Len(c) = n
    BY MaxChainAssumption
  <2>2. Append(c, d) \in [1..(n + 1) -> DeltaText]
    BY <2>1, AppendProperties, LenProperties
  <2>3. n + 1 \in 0..MaxChain
    BY <2>1, MaxChainAssumption
  <2> QED BY <2>2, <2>3 DEF Chain
<1>3. << >> \in Chain
  <2>1. 0 \in 0..MaxChain /\ << >> \in [1..0 -> DeltaText]
    BY MaxChainAssumption
  <2> QED BY <2>1 DEF Chain
<1>4. \A h \in Addr : Len(h.chain) \in Nat
  BY <1>1, LenProperties DEF Addr
<1>5. \A h \in Addr, d \in DeltaText :
         Len(Append(h.chain, d)) = Len(h.chain) + 1
  BY <1>1, AppendProperties DEF Addr
<1> QED BY <1>1, <1>2, <1>3, <1>4, <1>5
        DEF Addr, BaseAddr, MergedAddr, CanExtend

\* A cache after one more delta: it still covers what it covered, and the
\* delta.
LEMMA AfterCovers ==
    ASSUME NEW h \in Addr, NEW kv \in Kv, Within(h.chain, kv.deltas),
           NEW d \in DeltaText, NEW ds \in Seq(DeltaText \cup {Generated}),
           ds # << >>, ds[Len(ds)] = d
    PROVE  /\ After(kv, ds) \in Kv
           /\ After(kv, ds).base = kv.base
           /\ Within(h.chain, After(kv, ds).deltas)
           /\ Within(Append(h.chain, d), After(kv, ds).deltas)
<1> DEFINE S == DeltaText \cup {Generated}
<1>1. h.chain \in Seq(S) /\ kv.deltas \in Seq(S) /\ kv.base \in Text
  <2>1. Seq(DeltaText) \subseteq Seq(S)
    OBVIOUS
  <2> QED BY <2>1, AddrClosed DEF Addr, Kv
<1>2. kv.deltas \o ds \in Seq(S)
  BY <1>1, ConcatProperties
<1>3. /\ Within(h.chain, kv.deltas \o ds)
      /\ Within(Append(h.chain, d), kv.deltas \o ds)
  BY <1>1, WithinAppend
<1> QED BY <1>1, <1>2, <1>3 DEF After, Kv

\* A packet for a base text, and the agent that starts from it.
LEMMA BaseFits ==
    ASSUME NEW t \in Text, NEW dtype \in {"half", "full"}
    PROVE  /\ Content(t) \in Kv /\ Created(t, dtype) \in Packet
           /\ Fits(BaseAddr(t), Created(t, dtype))
           /\ BaseAddr(t) \in Addr /\ BaseAddr(t) # None /\ Content(t) # None
           /\ Content(t).base = BaseAddr(t).base
           /\ Within(BaseAddr(t).chain, Content(t).deltas)
           /\ Len(BaseAddr(t).chain) = 0
<1>1. << >> \in Seq(DeltaText \cup {Generated})
  OBVIOUS
<1>2. Content(t) \in Kv /\ BaseAddr(t) \in Addr
  BY <1>1, AddrClosed DEF Content, Kv
<1>3. /\ Content(t).base = BaseAddr(t).base
      /\ Within(BaseAddr(t).chain, Content(t).deltas)
      /\ Len(BaseAddr(t).chain) = 0
  BY WithinEmpty, EmptySeq DEF Content, BaseAddr
<1>4. Created(t, dtype) \in Packet /\ Fits(BaseAddr(t), Created(t, dtype))
  BY <1>2, <1>3 DEF Created, Packet, Fits
<1> QED BY <1>2, <1>3, <1>4, ValueAssumption

\* A packet for a delta, and the agent that goes on from it.
LEMMA MergedFits ==
    ASSUME IInv, NEW x \in Agent, agent[x].pc = "merge",
           NEW dtype \in {"half", "full"}
    PROVE  LET a   == agent[x]
               new == MergedAddr(a.at, a.delta)
           IN  /\ new \in Addr /\ Merged(a, dtype) \in Packet
               /\ Fits(new, Merged(a, dtype))
               /\ a.past \in Kv /\ a.past.base = new.base
               /\ Within(new.chain, a.past.deltas)
               /\ a.tokens + 1 = 1 + Len(new.chain)
               /\ x \notin Handler => Len(new.chain) <= a.step
<1> DEFINE a   == agent[x]
           new == MergedAddr(a.at, a.delta)
<1>1. a \in State /\ Good(x, a)
  BY DEF IInv, TypeOK
<1>2. /\ a.past \in Kv /\ a.past # None /\ a.at \in Addr
      /\ a.delta \in DeltaText /\ a.tokens \in Nat /\ a.step \in Nat
  BY <1>1 DEF State
<1>3. new \in Addr /\ Len(new.chain) = Len(a.at.chain) + 1
  BY <1>1, <1>2, AddrClosed DEF Good, MergedAddr
<1>4. Len(a.at.chain) \in Nat
  BY <1>2, AddrClosed
<1>5. a.past.base = new.base /\ Within(new.chain, a.past.deltas)
  BY <1>1, <1>2 DEF Good, MergedAddr
<1>6. /\ a.tokens + 1 = 1 + Len(new.chain)
      /\ x \notin Handler => Len(new.chain) <= a.step
  BY <1>1, <1>2, <1>3, <1>4 DEF Good
<1>7. Merged(a, dtype) \in Packet /\ Fits(new, Merged(a, dtype))
  BY <1>2, <1>5, <1>6 DEF Merged, Packet, Fits
<1> QED BY <1>2, <1>3, <1>5, <1>6, <1>7

-----------------------------------------------------------------------------
(* The steps *)

\* What is known of an agent that carries a cache.
LEMMA Carries ==
    ASSUME IInv, NEW x \in Agent, agent[x].past # None
    PROVE  /\ agent[x] \in State /\ Good(x, agent[x])
           /\ agent[x].past \in Kv /\ agent[x].at \in Addr
           /\ agent[x].tokens \in Nat /\ agent[x].step \in 0..MaxSteps
           /\ pkt[agent[x].at] \in Packet \cup {Absent}
           /\ pkt[agent[x].at] # None
<1>1. agent[x] \in State /\ Good(x, agent[x])
  BY DEF IInv, TypeOK
<1>2. /\ agent[x].past \in Kv /\ agent[x].at \in Addr
      /\ agent[x].tokens \in Nat /\ agent[x].step \in 0..MaxSteps
  BY <1>1 DEF State
<1>3. pkt[agent[x].at] \in Packet \cup {Absent}
  BY <1>2 DEF IInv, TypeOK
<1>4. pkt[agent[x].at] # None
  BY <1>3, ValueAssumption
<1> QED BY <1>1, <1>2, <1>3, <1>4

LEMMA IdleFits == Idle \in State /\ \A x : Good(x, Idle)
<1>1. Idle \in State
  BY CountAssumption DEF Idle, State, Pc
<1> QED BY <1>1 DEF Idle, Good

LEMMA SetBaseStep ==
    ASSUME IInv, NEW w \in Wrapper, NEW t \in Text, SetBase(w, t)
    PROVE  IInv'
<1> DEFINE a == [Idle EXCEPT !.past = Content(t), !.at = BaseAddr(t),
                             !.tokens = 1]
<1>1. /\ BaseAddr(t) \in Addr /\ Content(t) \in Kv
      /\ BaseAddr(t) # None /\ Content(t) # None
      /\ Created(t, "half") \in Packet
      /\ Fits(BaseAddr(t), Created(t, "half"))
      /\ Content(t).base = BaseAddr(t).base
      /\ Within(BaseAddr(t).chain, Content(t).deltas)
      /\ Len(BaseAddr(t).chain) = 0
  BY BaseFits
<1>2. /\ a.pc = "idle" /\ a.past = Content(t) /\ a.at = BaseAddr(t)
      /\ a.tokens = 1 /\ a.step = 0 /\ a.delta = None /\ a.found = {}
  BY DEF Idle
<1>3. a \in State
  BY <1>1, <1>2, IdleFits DEF Idle, State
<1>4. Good(w, a)
  BY <1>1, <1>2 DEF Good
<1> QED BY <1>1, <1>3, <1>4, Preserves DEF SetBase, Agent

LEMMA CallStep ==
    ASSUME IInv, NEW w \in Wrapper, NEW d \in DeltaText,
           NEW generate \in BOOLEAN, Call(w, d, generate)
    PROVE  IInv'
<1> DEFINE a   == agent[w]
           ds  == IF generate /\ InPlace THEN <<d, Generated, d>> ELSE <<d>>
           kv  == Run(a.past, d, generate)
           ran == [a EXCEPT !.past = kv, !.step = a.step + 1]
           due == [ran EXCEPT !.pc = "merge", !.delta = d]
<1>1. w \in Agent /\ w \notin Handler /\ a.pc = "idle" /\ a.past # None
  BY AgentAssumption DEF Call, Agent
<1>2. /\ a \in State /\ Good(w, a) /\ a.past \in Kv /\ a.at \in Addr
      /\ a.step \in 0..MaxSteps /\ a.step < MaxSteps
  BY <1>1, Carries DEF Call
<1>3. ds \in Seq(DeltaText \cup {Generated}) /\ ds # << >> /\ ds[Len(ds)] = d
  <2>1. CASE generate /\ InPlace
    <3>1. ds = <<d, Generated, d>>
      BY <2>1
    <3>2. <<d, Generated, d>> \in Seq(DeltaText \cup {Generated})
      OBVIOUS
    <3>3. Len(<<d, Generated, d>>) = 3 /\ <<d, Generated, d>>[3] = d
      OBVIOUS
    <3>4. <<d, Generated, d>> # << >>
      OBVIOUS
    <3> HIDE DEF ds
    <3> QED BY <3>1, <3>2, <3>3, <3>4
  <2>2. CASE ~(generate /\ InPlace)
    <3>1. ds = <<d>>
      BY <2>2
    <3>2. <<d>> \in Seq(DeltaText \cup {Generated})
      OBVIOUS
    <3>3. Len(<<d>>) = 1 /\ <<d>>[1] = d
      OBVIOUS
    <3>4. <<d>> # << >>
      OBVIOUS
    <3> HIDE DEF ds
    <3> QED BY <3>1, <3>2, <3>3, <3>4
  <2> QED BY <2>1, <2>2
<1>4. /\ kv \in Kv /\ kv.base = a.past.base
      /\ Within(a.at.chain, kv.deltas)
      /\ Within(Append(a.at.chain, d), kv.deltas)
  <2>1. kv = After(a.past, ds)
    BY DEF Run
  <2>2. Within(a.at.chain, a.past.deltas)
    BY <1>1, <1>2 DEF Good
  <2> HIDE DEF kv, ds
  <2> QED BY <1>2, <1>3, <2>1, <2>2, AfterCovers
<1>5. /\ a.step + 1 \in 0..MaxSteps /\ Len(a.at.chain) \in Nat
      /\ Len(a.at.chain) < a.step + 1 /\ CanExtend(a.at)
  <2>1. Len(a.at.chain) \in Nat /\ Len(a.at.chain) <= a.step
    BY <1>1, <1>2, AddrClosed DEF Good
  <2>2. MaxSteps \in Nat /\ MaxSteps <= MaxChain
    BY CountAssumption, MaxChainAssumption
  <2> QED BY <1>2, <2>1, <2>2, MaxChainAssumption DEF CanExtend
<1>6. kv # None
  BY <1>4, ValueAssumption
<1>7. ran \in State /\ Good(w, ran)
  <2>1. ran \in State
    BY <1>1, <1>2, <1>4, <1>5, <1>6 DEF State
  <2> QED BY <2>1, <1>1, <1>2, <1>4, <1>5 DEF Good
<1>8. due \in State /\ Good(w, due)
  <2>1. d # None
    BY ValueAssumption
  <2>2. due \in State
    BY <2>1, <1>1, <1>2, <1>4, <1>5, <1>6 DEF State, Pc
  <2>3. /\ due.past = kv /\ due.at = a.at /\ due.delta = d
        /\ due.tokens = a.tokens /\ due.step = a.step + 1 /\ due.pc = "merge"
    BY <1>2 DEF State
  <2> QED BY <2>2, <2>3, <1>1, <1>2, <1>4, <1>5 DEF Good
<1>9. \E b \in {ran, due} : agent' = [agent EXCEPT ![w] = b]
  BY DEF Call
<1> QED BY <1>1, <1>7, <1>8, <1>9, Preserves DEF Call

LEMMA MergeStep ==
    ASSUME IInv, NEW w \in Wrapper, Merge(w)
    PROVE  IInv'
<1> DEFINE a    == agent[w]
           new  == MergedAddr(a.at, a.delta)
           back == [a EXCEPT !.pc = "idle", !.delta = None]
           on   == [a EXCEPT !.pc = "idle", !.delta = None, !.at = new,
                             !.tokens = a.tokens + 1]
<1>1. w \in Agent /\ w \notin Handler /\ a.pc = "merge"
  BY AgentAssumption DEF Merge, Agent
<1>2. a \in State /\ Good(w, a) /\ a.past # None /\ a.at # None
  BY <1>1 DEF IInv, TypeOK, State
<1>3. CASE pkt[a.at] = Absent
  <2>1. back \in State
    BY <1>1, <1>2 DEF State, Pc
  <2>2. Good(w, back)
    BY <1>1, <1>2 DEF Good
  <2>3. agent' = [agent EXCEPT ![w] = back] /\ pkt' = pkt /\ gcs' = gcs
    BY <1>1, <1>2, <1>3 DEF Merge, IInv, TypeOK, State
  <2> QED BY <1>1, <2>1, <2>2, <2>3, Preserves
<1>4. CASE pkt[a.at] # Absent
  <2>1. /\ new \in Addr /\ Merged(a, "half") \in Packet
        /\ Fits(new, Merged(a, "half"))
        /\ a.past.base = new.base /\ Within(new.chain, a.past.deltas)
        /\ a.tokens + 1 = 1 + Len(new.chain)
        /\ Len(new.chain) <= a.step
    BY <1>1, MergedFits
  <2>2. new # None /\ a.tokens + 1 \in Nat
    BY <1>2, <2>1, ValueAssumption DEF State
  <2>3. on \in State
    BY <1>1, <1>2, <2>1, <2>2 DEF State, Pc
  <2>4. Good(w, on)
    BY <1>1, <1>2, <2>1 DEF Good
  <2>5. /\ agent' = [agent EXCEPT ![w] = on] /\ gcs' = gcs
        /\ Store(new, Merged(a, "half"))
    BY <1>4 DEF Merge
  <2> QED BY <1>1, <2>1, <2>3, <2>4, <2>5, Preserves
<1> QED BY <1>3, <1>4

LEMMA StartRunStep ==
    ASSUME IInv, NEW l \in Loop, NEW t \in Text, StartRun(l, t)
    PROVE  IInv'
<1> DEFINE a == [Idle EXCEPT !.pc = "step", !.past = Content(t),
                             !.at = BaseAddr(t), !.tokens = 1]
<1>1. /\ BaseAddr(t) \in Addr /\ Content(t) \in Kv
      /\ BaseAddr(t) # None /\ Content(t) # None
      /\ Created(t, "full") \in Packet
      /\ Fits(BaseAddr(t), Created(t, "full"))
      /\ Content(t).base = BaseAddr(t).base
      /\ Within(BaseAddr(t).chain, Content(t).deltas)
      /\ Len(BaseAddr(t).chain) = 0
  BY BaseFits
<1>2. /\ a.pc = "step" /\ a.past = Content(t) /\ a.at = BaseAddr(t)
      /\ a.tokens = 1 /\ a.step = 0 /\ a.delta = None /\ a.found = {}
  BY DEF Idle
<1>3. a \in State
  BY <1>1, <1>2, IdleFits DEF Idle, State, Pc
<1>4. Good(l, a)
  BY <1>1, <1>2 DEF Good
<1> QED BY <1>1, <1>3, <1>4, Preserves DEF StartRun, Agent

\* A run that fails leaves nothing behind.
LEMMA RefuseFits ==
    ASSUME IInv, NEW l \in Loop, agent[l].past # None, Refuse(l),
           pkt' = pkt, gcs' = gcs
    PROVE  IInv'
<1> DEFINE found == {Dtype(p) : p \in {agent[l].id, pkt[agent[l].at]} \ {None}}
           a     == [Idle EXCEPT !.pc = "refused", !.found = found]
<1>1. l \in Agent
  BY DEF Agent
<1>2. /\ pkt[agent[l].at] \in Packet \cup {Absent}
      /\ pkt[agent[l].at] # None
      /\ agent[l].id \in Packet \cup {None}
  BY <1>1, Carries DEF State
<1>3. Dtype(pkt[agent[l].at]) \in found
  BY <1>2
<1>4. \A p \in Packet \cup {Absent} : Dtype(p) \in {"half", "full", Absent}
  BY DEF Dtype, Packet
<1>5. found \in SUBSET {"half", "full", Absent} /\ found # {}
  BY <1>2, <1>3, <1>4
<1> HIDE DEF found
<1>6. a.pc = "refused" /\ a.past = None /\ a.found = found
  BY DEF Idle
<1>7. a \in State
  BY <1>5, <1>6, IdleFits DEF Idle, State, Pc
<1>8. Good(l, a)
  BY <1>6 DEF Good
<1>9. agent' = [agent EXCEPT ![l] = a]
  BY DEF Refuse, found
<1> QED BY <1>1, <1>7, <1>8, <1>9, Preserves

LEMMA RunDeltaStep ==
    ASSUME IInv, NEW l \in Loop, NEW d \in DeltaText, RunDelta(l, d)
    PROVE  IInv'
<1> DEFINE a   == agent[l]
           kv  == After(a.past, <<d>>)
           ran == [a EXCEPT !.pc = "infer", !.past = kv, !.step = a.step + 1,
                            !.delta = d, !.id = pkt[a.at]]
<1>1. l \in Agent /\ l \notin Handler /\ a.pc = "step" /\ a.past # None
  BY AgentAssumption DEF RunDelta, Agent, IInv, TypeOK, State
<1>2. /\ a \in State /\ Good(l, a) /\ a.past \in Kv /\ a.at \in Addr
      /\ a.step \in 0..MaxSteps /\ a.step < MaxSteps
      /\ pkt[a.at] \in Packet \cup {Absent}
  BY <1>1, Carries DEF RunDelta
<1>3. CASE pkt[a.at] = Absent
  BY <1>1, <1>3, RefuseFits DEF RunDelta
<1>4. CASE pkt[a.at] # Absent
  <2>1. /\ <<d>> \in Seq(DeltaText \cup {Generated})
        /\ <<d>> # << >> /\ <<d>>[Len(<<d>>)] = d
    OBVIOUS
  <2>2. Within(a.at.chain, a.past.deltas)
    BY <1>1, <1>2 DEF Good
  <2>3. /\ kv \in Kv /\ kv.base = a.past.base
        /\ Within(a.at.chain, kv.deltas)
        /\ Within(Append(a.at.chain, d), kv.deltas)
    BY <1>2, <2>1, <2>2, AfterCovers
  <2>4. /\ a.step + 1 \in 0..MaxSteps /\ Len(a.at.chain) \in Nat
        /\ Len(a.at.chain) < a.step + 1 /\ CanExtend(a.at)
    <3>1. Len(a.at.chain) \in Nat /\ Len(a.at.chain) <= a.step
      BY <1>1, <1>2, AddrClosed DEF Good
    <3>2. MaxSteps \in Nat /\ MaxSteps <= MaxChain
      BY CountAssumption, MaxChainAssumption
    <3> QED BY <1>2, <3>1, <3>2, MaxChainAssumption DEF CanExtend
  <2>5. kv # None /\ d # None
    BY <2>3, ValueAssumption
  <2>6. ran \in State
    BY <1>1, <1>2, <1>4, <2>3, <2>4, <2>5 DEF State, Pc
  <2>7. /\ ran.past = kv /\ ran.at = a.at /\ ran.delta = d
        /\ ran.tokens = a.tokens /\ ran.step = a.step + 1
    BY <1>2 DEF State
  <2>8. Good(l, ran)
    BY <2>7, <1>1, <1>2, <2>3, <2>4 DEF Good
  <2>9. agent' = [agent EXCEPT ![l] = ran] /\ pkt' = pkt /\ gcs' = gcs
    BY <1>4 DEF RunDelta
  <2> QED BY <1>1, <2>6, <2>8, <2>9, Preserves
<1> QED BY <1>3, <1>4

LEMMA InferCliStep ==
    ASSUME IInv, NEW l \in Loop, InferCli(l)
    PROVE  IInv'
<1> DEFINE a == agent[l]
           b == Received(a)
<1>1. l \in Agent /\ a.pc = "infer" /\ a.past # None
  BY DEF InferCli, Agent, IInv, TypeOK, State
<1>2. a \in State /\ Good(l, a)
  BY <1>1, Carries
<1>3. b \in State
  BY <1>1, <1>2 DEF Received, State, Pc
<1>4. Good(l, b)
  <2>1. CASE Due(a.step, MergeLoop)
    BY <1>1, <1>2, <2>1 DEF Good, Received, State
  <2>2. CASE ~Due(a.step, MergeLoop)
    BY <1>1, <1>2, <2>2 DEF Good, Received, State
  <2> QED BY <2>1, <2>2
<1>5. CASE Refuse(l) /\ pkt' = pkt /\ gcs' = gcs
  BY <1>1, <1>5, RefuseFits
<1>6. CASE /\ agent' = [agent EXCEPT ![l] = b]
           /\ pkt' = pkt /\ gcs' = gcs
  BY <1>1, <1>3, <1>4, <1>6, Preserves
<1> QED BY <1>5, <1>6 DEF InferCli

LEMMA CutMergeStep ==
    ASSUME IInv, NEW l \in Loop, CutMerge(l)
    PROVE  IInv'
<1> DEFINE a == agent[l]
           b == [a EXCEPT !.pc = "merge", !.id = pkt[a.at]]
<1>1. l \in Agent /\ a.pc = "cut" /\ a.past # None
  BY DEF CutMerge, Agent, IInv, TypeOK, State
<1>2. a \in State /\ Good(l, a) /\ pkt[a.at] \in Packet \cup {Absent}
  BY <1>1, Carries
<1>3. CASE pkt[a.at] = Absent
  BY <1>1, <1>3, RefuseFits DEF CutMerge
<1>4. CASE pkt[a.at] # Absent
  <2>1. b \in State
    BY <1>1, <1>2, <1>4 DEF State, Pc
  <2>2. Good(l, b)
    BY <1>1, <1>2 DEF Good, State
  <2>3. agent' = [agent EXCEPT ![l] = b] /\ pkt' = pkt /\ gcs' = gcs
    BY <1>2, <1>4 DEF CutMerge, IInv, TypeOK, State
  <2> QED BY <1>1, <2>1, <2>2, <2>3, Preserves
<1> QED BY <1>3, <1>4

LEMMA MergeCliStep ==
    ASSUME IInv, NEW l \in Loop, MergeCli(l)
    PROVE  IInv'
<1> DEFINE a   == agent[l]
           new == MergedAddr(a.at, a.delta)
           on  == [a EXCEPT !.pc = "step", !.id = None, !.delta = None,
                            !.at = new, !.tokens = a.tokens + 1]
<1>1. l \in Agent /\ l \notin Handler /\ a.pc = "merge" /\ a.past # None
  BY AgentAssumption DEF MergeCli, Agent, IInv, TypeOK, State
<1>2. a \in State /\ Good(l, a)
  BY <1>1, Carries
<1>3. CASE pkt[a.at] # a.id
  BY <1>1, <1>3, RefuseFits DEF MergeCli
<1>4. CASE pkt[a.at] = a.id
  <2>1. /\ new \in Addr /\ Merged(a, "full") \in Packet
        /\ Fits(new, Merged(a, "full"))
        /\ a.past.base = new.base /\ Within(new.chain, a.past.deltas)
        /\ a.tokens + 1 = 1 + Len(new.chain)
        /\ Len(new.chain) <= a.step
    BY <1>1, MergedFits
  <2>2. new # None /\ a.tokens + 1 \in Nat
    BY <1>2, <2>1, ValueAssumption DEF State
  <2>3. on \in State
    BY <1>1, <1>2, <2>1, <2>2 DEF State, Pc
  <2>4. Good(l, on)
    BY <1>1, <1>2, <2>1 DEF Good
  <2>5. /\ agent' = [agent EXCEPT ![l] = on] /\ gcs' = gcs
        /\ Store(new, Merged(a, "full"))
    BY <1>4 DEF MergeCli
  <2> QED BY <1>1, <2>1, <2>3, <2>4, <2>5, Preserves
<1> QED BY <1>3, <1>4

LEMMA HttpCreateStep ==
    ASSUME IInv, NEW i \in Handler, NEW t \in Text, HttpCreate(i, t)
    PROVE  IInv'
<1>1. /\ BaseAddr(t) \in Addr /\ Created(t, "half") \in Packet
      /\ Fits(BaseAddr(t), Created(t, "half"))
  BY BaseFits
<1>2. i \in Agent /\ agent[i] \in State /\ Good(i, agent[i])
  BY DEF Agent, IInv, TypeOK
<1>3. agent' = [agent EXCEPT ![i] = agent[i]] /\ gcs' = gcs
  BY <1>2 DEF HttpCreate, IInv, TypeOK
<1> QED BY <1>1, <1>2, <1>3, Preserves DEF HttpCreate

LEMMA HttpLoadStep ==
    ASSUME IInv, NEW i \in Handler, NEW h \in Addr, NEW d \in DeltaText,
           HttpLoad(i, h, d)
    PROVE  IInv'
<1> DEFINE kv == After(pkt[h].kv, <<d>>)
           a  == [Idle EXCEPT !.pc = "merge", !.at = h, !.delta = d,
                              !.past = kv, !.tokens = pkt[h].tokens]
<1>1. /\ pkt[h] \in Packet /\ Fits(h, pkt[h]) /\ CanExtend(h)
      /\ pkt[h] # Absent
  BY DEF HttpLoad, IInv, TypeOK
<1>2. /\ pkt[h].kv \in Kv /\ pkt[h].tokens \in Nat
      /\ Within(h.chain, pkt[h].kv.deltas) /\ pkt[h].kv.base = h.base
      /\ pkt[h].tokens = 1 + Len(h.chain)
  BY <1>1 DEF Packet, Fits
<1>3. /\ <<d>> \in Seq(DeltaText \cup {Generated})
      /\ <<d>> # << >> /\ <<d>>[Len(<<d>>)] = d
  OBVIOUS
<1>4. /\ kv \in Kv /\ kv.base = h.base
      /\ Within(h.chain, kv.deltas)
      /\ Within(Append(h.chain, d), kv.deltas)
  BY <1>2, <1>3, AfterCovers
<1>5. kv # None /\ d # None /\ h # None
  BY <1>4, ValueAssumption
<1>6. /\ a.pc = "merge" /\ a.at = h /\ a.delta = d /\ a.past = kv
      /\ a.tokens = pkt[h].tokens
  BY DEF Idle
<1>7. a \in State
  BY <1>2, <1>4, <1>5, IdleFits DEF Idle, State, Pc
<1>8. Good(i, a)
  BY <1>1, <1>2, <1>4, <1>6 DEF Good
<1> QED BY <1>7, <1>8, Preserves DEF HttpLoad, Agent

LEMMA HttpMergeStep ==
    ASSUME IInv, NEW i \in Handler, HttpMerge(i)
    PROVE  IInv'
<1> DEFINE a   == agent[i]
           new == MergedAddr(a.at, a.delta)
<1>1. i \in Agent /\ a.pc = "merge"
  BY DEF HttpMerge, Agent
<1>2. /\ new \in Addr /\ Merged(a, "half") \in Packet
      /\ Fits(new, Merged(a, "half"))
  BY <1>1, MergedFits
<1>3. \/ pkt' = pkt
      \/ Store(new, Merged(a, "half"))
  BY DEF HttpMerge
<1>4. agent' = [agent EXCEPT ![i] = Idle] /\ gcs' = gcs
  BY DEF HttpMerge
<1> QED BY <1>1, <1>2, <1>3, <1>4, IdleFits, Preserves

LEMMA EndRunStep ==
    ASSUME IInv, NEW l \in Loop, EndRun(l)
    PROVE  IInv'
BY IdleFits, Preserves DEF EndRun, Agent

LEMMA CollectStep ==
    ASSUME IInv, NEW h \in Addr, Collect(h)
    PROVE  IInv'
<1>1. gcs' \in 0..MaxGc
  BY CountAssumption DEF Collect, IInv, TypeOK
<1>2. pkt' \in [Addr -> Packet \cup {Absent}] /\ agent' = agent
  BY DEF Collect, Store, IInv, TypeOK
<1>3. \A k \in Addr : Fits(k, pkt[k])'
  BY DEF Collect, Store, IInv, TypeOK, Fits
<1>4. \A x \in Agent : Good(x, agent[x])'
  BY <1>2 DEF IInv, Good, CanExtend
<1> QED BY <1>1, <1>2, <1>3, <1>4 DEF IInv, TypeOK

-----------------------------------------------------------------------------
(* The invariant *)

LEMMA InitInv == Init => IInv
<1> SUFFICES ASSUME Init PROVE IInv
  OBVIOUS
<1>1. TypeOK
  BY IdleFits, CountAssumption DEF Init, TypeOK
<1>2. \A h \in Addr : Fits(h, pkt[h])
  BY DEF Init, Fits
<1> QED BY <1>1, <1>2, IdleFits DEF IInv, Init

LEMMA StepInv == IInv /\ [Next]_vars => IInv'
<1> SUFFICES ASSUME IInv, [Next]_vars PROVE IInv'
  OBVIOUS
<1>1. ASSUME NEW w \in Wrapper, NEW t \in Text, SetBase(w, t) PROVE IInv'
  BY <1>1, SetBaseStep
<1>2. ASSUME NEW w \in Wrapper, NEW d \in DeltaText,
             NEW generate \in BOOLEAN, Call(w, d, generate)
      PROVE  IInv'
  BY <1>2, CallStep
<1>3. ASSUME NEW w \in Wrapper, Merge(w) PROVE IInv'
  BY <1>3, MergeStep
<1>4. ASSUME NEW l \in Loop, NEW t \in Text, StartRun(l, t) PROVE IInv'
  BY <1>4, StartRunStep
<1>5. ASSUME NEW l \in Loop, GoOn(l) PROVE IInv'
  BY <1>5, RunDeltaStep, InferCliStep, CutMergeStep, MergeCliStep, EndRunStep
     DEF GoOn
<1>6. ASSUME NEW i \in Handler, NEW t \in Text, HttpCreate(i, t) PROVE IInv'
  BY <1>6, HttpCreateStep
<1>7. ASSUME NEW i \in Handler, NEW h \in Addr, NEW d \in DeltaText,
             HttpLoad(i, h, d)
      PROVE  IInv'
  BY <1>7, HttpLoadStep
<1>8. ASSUME NEW i \in Handler, HttpMerge(i) PROVE IInv'
  BY <1>8, HttpMergeStep
<1>9. ASSUME NEW h \in Addr, Collect(h) PROVE IInv'
  BY <1>9, CollectStep
<1>10. CASE UNCHANGED vars
  BY <1>10 DEF vars, IInv, TypeOK, Good, Fits, CanExtend
<1> QED BY <1>1, <1>2, <1>3, <1>4, <1>5, <1>6, <1>7, <1>8, <1>9, <1>10
        DEF Next

\* The fields of the agents and the packets have their types, in every run.
THEOREM AgentTypeCorrect == Spec => []TypeOK
<1>1. IInv => TypeOK
  BY DEF IInv
<1> QED BY <1>1, InitInv, StepInv, PTL DEF Spec

\* No packet lacks a delta that its address names, whichever agents stored
\* the packets before it, whatever merge_every is, and whatever gc removes.
THEOREM CachesCoverNames == Spec => []CacheCoversName
<1>1. IInv => CacheCoversName
  BY DEF IInv, Fits, CacheCoversName
<1> QED BY <1>1, InitInv, StepInv, PTL DEF Spec

\* The token count of every packet is that of what its address names.
THEOREM TokensFollowNames == Spec => []TokensOfName
<1>1. IInv => TokensOfName
  BY DEF IInv, Fits, TokensOfName
<1> QED BY <1>1, InitInv, StepInv, PTL DEF Spec

-----------------------------------------------------------------------------
(* Loops that merge every delta *)

\* The one packet that loops with merge_every = 1 store under h.
Exact(h) == [kv     |-> [base |-> h.base, deltas |-> h.chain],
             dtype  |-> "full",
             tokens |-> 1 + Len(h.chain)]
IsExact(h, p) == p \in Packet /\ p.dtype = "full" => p = Exact(h)
Clean(a) ==
    /\ a.pc = "step" =>
          a.past = [base |-> a.at.base, deltas |-> a.at.chain]
    /\ a.pc \in {"infer", "cut", "merge"} =>
          a.past = [base |-> a.at.base, deltas |-> Append(a.at.chain, a.delta)]
    /\ a.pc \in {"infer", "merge"} => a.id \in Packet /\ IsExact(a.at, a.id)
    /\ a.pc = "refused" => a.found # {"full"}
LInv ==
    /\ \A l \in Loop : Clean(agent[l])
    /\ \A h \in Addr : IsExact(h, pkt[h])

\* A loop moves, and at most one packet changes.
LEMMA LoopPreserves ==
    ASSUME IInv, LInv, NEW l \in Loop, NEW a, Clean(a),
           agent' = [agent EXCEPT ![l] = a],
           \/ pkt' = pkt
           \/ \E h \in Addr, p \in Packet : IsExact(h, p) /\ Store(h, p)
    PROVE  LInv'
<1>1. l \in Agent /\ Loop \subseteq Agent
  BY DEF Agent
<1>2. \A k \in Loop : Clean(agent'[k])
  BY <1>1 DEF IInv, TypeOK, LInv
<1>3. \A h \in Addr : IsExact(h, pkt'[h])
  BY DEF IInv, TypeOK, LInv, Store
<1> QED BY <1>2, <1>3 DEF LInv, Clean, IsExact, Exact

\* The others store packets of another dtype.
LEMMA OthersPreserve ==
    ASSUME IInv, LInv, \A l \in Loop : agent'[l] = agent[l],
           \/ pkt' = pkt
           \/ \E h \in Addr : Store(h, Absent)
           \/ \E h \in Addr : \E p : p.dtype = "half" /\ Store(h, p)
    PROVE  LInv'
<1>1. \A h \in Addr : IsExact(h, pkt'[h])
  <2>1. Absent \notin Packet
    BY ValueAssumption
  <2> QED BY <2>1 DEF IInv, TypeOK, LInv, Store, IsExact
<1>2. \A l \in Loop : Clean(agent'[l])
  BY DEF LInv
<1> QED BY <1>1, <1>2 DEF LInv, Clean, IsExact, Exact

LEMMA StartRunClean ==
    ASSUME IInv, LInv, NEW l \in Loop, NEW t \in Text, StartRun(l, t)
    PROVE  LInv'
<1> DEFINE a == [Idle EXCEPT !.pc = "step", !.past = Content(t),
                             !.at = BaseAddr(t), !.tokens = 1]
<1>1. Clean(a)
  BY DEF Clean, Idle, Content, BaseAddr
<1>2. BaseAddr(t) \in Addr /\ Created(t, "full") \in Packet
  BY BaseFits
<1>3. IsExact(BaseAddr(t), Created(t, "full"))
  BY EmptySeq DEF IsExact, Exact, Created, Content, BaseAddr
<1> QED BY <1>1, <1>2, <1>3, LoopPreserves DEF StartRun

\* A run that fails has seen a packet that no loop stored, or none.
LEMMA RefuseClean ==
    ASSUME IInv, LInv, NEW l \in Loop, agent[l].past # None, Refuse(l),
           pkt' = pkt,
           \/ pkt[agent[l].at] = Absent
           \/ /\ agent[l].pc \in {"infer", "merge"}
              /\ pkt[agent[l].at] # agent[l].id
    PROVE  LInv'
<1> DEFINE h     == agent[l].at
           id    == agent[l].id
           found == {Dtype(p) : p \in {id, pkt[h]} \ {None}}
           a     == [Idle EXCEPT !.pc = "refused", !.found = found]
<1>1. l \in Agent /\ h \in Addr /\ pkt[h] \in Packet \cup {Absent}
      /\ pkt[h] # None
  BY Carries DEF Agent
<1>2. Dtype(pkt[h]) \in found
  BY <1>1
<1>3. Absent # "full" /\ Absent \notin Packet
  BY ValueAssumption
<1>4. ASSUME pkt[h] = Absent PROVE found # {"full"}
  BY <1>2, <1>3, <1>4 DEF Dtype
<1>5. ASSUME pkt[h] # Absent PROVE found # {"full"}
  <2>1. /\ agent[l].pc \in {"infer", "merge"} /\ pkt[h] # id
        /\ pkt[h] \in Packet
    BY <1>1, <1>5
  <2>2. id \in Packet /\ IsExact(h, id) /\ IsExact(h, pkt[h])
    BY <1>1, <2>1 DEF LInv, Clean
  <2>3. ~(id.dtype = "full" /\ pkt[h].dtype = "full")
    BY <2>1, <2>2 DEF IsExact
  <2>4. id # None /\ Dtype(id) \in found
    BY <2>2, ValueAssumption
  <2>5. Dtype(id) = id.dtype /\ Dtype(pkt[h]) = pkt[h].dtype
    BY <1>3, <2>1, <2>2 DEF Dtype
  <2> QED BY <1>2, <2>3, <2>4, <2>5
<1>6. found # {"full"}
  BY <1>4, <1>5
<1> HIDE DEF found
<1>7. a.pc = "refused" /\ a.found = found
  BY DEF Idle
<1>8. Clean(a)
  BY <1>6, <1>7 DEF Clean
<1> QED BY <1>8, LoopPreserves DEF Refuse, found

LEMMA RunDeltaClean ==
    ASSUME IInv, LInv, NEW l \in Loop, NEW d \in DeltaText, RunDelta(l, d)
    PROVE  LInv'
<1> DEFINE a   == agent[l]
           kv  == After(a.past, <<d>>)
           ran == [a EXCEPT !.pc = "infer", !.past = kv, !.step = a.step + 1,
                            !.delta = d, !.id = pkt[a.at]]
<1>1. l \in Agent /\ a.pc = "step" /\ a.past # None
  BY DEF RunDelta, Agent, IInv, TypeOK, State
<1>2. /\ a \in State /\ a.at \in Addr /\ Clean(a)
      /\ pkt[a.at] \in Packet \cup {Absent}
  BY <1>1, Carries DEF LInv
<1>3. CASE pkt[a.at] = Absent
  BY <1>1, <1>3, RefuseClean DEF RunDelta
<1>4. CASE pkt[a.at] # Absent
  <2>1. a.past = [base |-> a.at.base, deltas |-> a.at.chain]
    BY <1>1, <1>2 DEF Clean
  <2>2. a.at.chain \in Seq(DeltaText)
    BY <1>2, AddrClosed DEF Addr
  <2>3. Append(a.at.chain, d) = a.at.chain \o <<d>>
    BY <2>2, AppendIsConcat
  <2>4. kv = [base |-> a.at.base, deltas |-> Append(a.at.chain, d)]
    BY <2>1, <2>3 DEF After
  <2>5. /\ ran.pc = "infer" /\ ran.past = kv /\ ran.at = a.at
        /\ ran.delta = d /\ ran.id = pkt[a.at]
    BY <1>2 DEF State
  <2>6. Clean(ran)
    BY <1>2, <1>4, <2>4, <2>5 DEF Clean, LInv
  <2>7. agent' = [agent EXCEPT ![l] = ran] /\ pkt' = pkt
    BY <1>4 DEF RunDelta
  <2> QED BY <2>6, <2>7, LoopPreserves
<1> QED BY <1>3, <1>4

LEMMA InferCliClean ==
    ASSUME MergeLoop = 1, IInv, LInv, NEW l \in Loop, InferCli(l)
    PROVE  LInv'
<1> DEFINE a == agent[l]
           b == [a EXCEPT !.pc = "cut", !.id = None]
<1>1. l \in Agent /\ a.pc = "infer" /\ a.past # None
  BY DEF InferCli, Agent, IInv, TypeOK, State
<1>2. a \in State /\ Clean(a) /\ a.step \in Nat
  BY <1>1, Carries DEF LInv
<1>3. Due(a.step, MergeLoop)
  BY <1>2 DEF Due
<1>4. Clean(b)
  BY <1>1, <1>2 DEF Clean, State
<1>5. CASE pkt[a.at] # a.id
  BY <1>1, <1>5, RefuseClean DEF InferCli
<1>6. CASE pkt[a.at] = a.id
  <2>1. agent' = [agent EXCEPT ![l] = b] /\ pkt' = pkt
    BY <1>3, <1>6 DEF InferCli, Received
  <2> QED BY <1>4, <2>1, LoopPreserves
<1> QED BY <1>5, <1>6

LEMMA CutMergeClean ==
    ASSUME IInv, LInv, NEW l \in Loop, CutMerge(l)
    PROVE  LInv'
<1> DEFINE a == agent[l]
           b == [a EXCEPT !.pc = "merge", !.id = pkt[a.at]]
<1>1. l \in Agent /\ a.pc = "cut" /\ a.past # None
  BY DEF CutMerge, Agent, IInv, TypeOK, State
<1>2. /\ a \in State /\ Clean(a) /\ a.at \in Addr
      /\ pkt[a.at] \in Packet \cup {Absent}
  BY <1>1, Carries DEF LInv
<1>3. CASE pkt[a.at] = Absent
  BY <1>1, <1>3, RefuseClean DEF CutMerge
<1>4. CASE pkt[a.at] # Absent
  <2>1. /\ b.pc = "merge" /\ b.past = a.past /\ b.at = a.at
        /\ b.delta = a.delta /\ b.id = pkt[a.at]
    BY <1>2 DEF State
  <2>2. Clean(b)
    BY <1>1, <1>2, <1>4, <2>1 DEF Clean, LInv
  <2>3. agent' = [agent EXCEPT ![l] = b] /\ pkt' = pkt
    BY <1>1, <1>2, <1>4 DEF CutMerge, IInv, TypeOK, State
  <2> QED BY <2>2, <2>3, LoopPreserves
<1> QED BY <1>3, <1>4

LEMMA MergeCliClean ==
    ASSUME IInv, LInv, NEW l \in Loop, MergeCli(l)
    PROVE  LInv'
<1> DEFINE a   == agent[l]
           new == MergedAddr(a.at, a.delta)
           on  == [a EXCEPT !.pc = "step", !.id = None, !.delta = None,
                            !.at = new, !.tokens = a.tokens + 1]
<1>1. l \in Agent /\ a.pc = "merge" /\ a.past # None
  BY DEF MergeCli, Agent, IInv, TypeOK, State
<1>2. a \in State /\ Clean(a)
  BY <1>1, Carries DEF LInv
<1>3. CASE pkt[a.at] # a.id
  BY <1>1, <1>3, RefuseClean DEF MergeCli
<1>4. CASE pkt[a.at] = a.id
  <2>1. /\ new \in Addr /\ Merged(a, "full") \in Packet
        /\ a.tokens + 1 = 1 + Len(new.chain)
    BY <1>1, MergedFits
  <2>2. a.past = [base |-> new.base, deltas |-> new.chain]
    BY <1>1, <1>2 DEF Clean, MergedAddr
  <2>3. IsExact(new, Merged(a, "full"))
    BY <2>1, <2>2 DEF IsExact, Exact, Merged
  <2>4. on.pc = "step" /\ on.past = a.past /\ on.at = new
    BY <1>2 DEF State
  <2>5. Clean(on)
    BY <2>2, <2>4 DEF Clean
  <2>6. agent' = [agent EXCEPT ![l] = on] /\ Store(new, Merged(a, "full"))
    BY <1>4 DEF MergeCli
  <2> QED BY <2>1, <2>3, <2>5, <2>6, LoopPreserves
<1> QED BY <1>3, <1>4

LEMMA EndRunClean ==
    ASSUME IInv, LInv, NEW l \in Loop, EndRun(l)
    PROVE  LInv'
<1>1. Clean(Idle)
  BY DEF Idle, Clean
<1> QED BY <1>1, LoopPreserves DEF EndRun

\* A step of a wrapper, of the server or of gc.
LEMMA OtherStepClean ==
    ASSUME IInv, LInv,
           \/ \E w \in Wrapper, t \in Text : SetBase(w, t)
           \/ \E w \in Wrapper, d \in DeltaText, generate \in BOOLEAN :
                 Call(w, d, generate)
           \/ \E w \in Wrapper : Merge(w)
           \/ \E i \in Handler, t \in Text : HttpCreate(i, t)
           \/ \E i \in Handler, h \in Addr, d \in DeltaText : HttpLoad(i, h, d)
           \/ \E i \in Handler : HttpMerge(i)
           \/ \E h \in Addr : Collect(h)
    PROVE  LInv'
<1>1. \A l \in Loop : agent'[l] = agent[l]
  BY AgentAssumption
     DEF SetBase, Call, Merge, HttpCreate, HttpLoad, HttpMerge, Collect,
         IInv, TypeOK, Agent
<1>2. \A a : Merged(a, "half").dtype = "half"
  BY DEF Merged
<1>3. \A t \in Text : Created(t, "half").dtype = "half" /\ BaseAddr(t) \in Addr
  BY AddrClosed DEF Created
<1>4. \A x \in Agent : agent[x].pc = "merge" =>
         MergedAddr(agent[x].at, agent[x].delta) \in Addr
  BY MergedFits
<1>5. CASE \E w \in Wrapper, t \in Text : SetBase(w, t)
  BY <1>1, <1>3, <1>5, OthersPreserve DEF SetBase
<1>6. CASE \E w \in Wrapper, d \in DeltaText, generate \in BOOLEAN :
              Call(w, d, generate)
  BY <1>1, <1>6, OthersPreserve DEF Call
<1>7. CASE \E w \in Wrapper : Merge(w)
  BY <1>1, <1>2, <1>4, <1>7, OthersPreserve DEF Merge, Agent
<1>8. CASE \E i \in Handler, t \in Text : HttpCreate(i, t)
  BY <1>1, <1>3, <1>8, OthersPreserve DEF HttpCreate
<1>9. CASE \E i \in Handler, h \in Addr, d \in DeltaText : HttpLoad(i, h, d)
  BY <1>1, <1>9, OthersPreserve DEF HttpLoad
<1>10. CASE \E i \in Handler : HttpMerge(i)
  BY <1>1, <1>2, <1>4, <1>10, OthersPreserve DEF HttpMerge, Agent
<1>11. CASE \E h \in Addr : Collect(h)
  BY <1>1, <1>11, OthersPreserve DEF Collect
<1> QED BY <1>5, <1>6, <1>7, <1>8, <1>9, <1>10, <1>11

\* LInv holds to begin with, and every step of a system whose loops merge
\* every delta keeps it.
LEMMA InitLoops == Init => LInv
<1>1. Absent \notin Packet
  BY ValueAssumption
<1> QED BY <1>1 DEF Init, LInv, Clean, IsExact, Idle, Agent

LEMMA StepLoops ==
    ASSUME MergeLoop = 1, IInv, LInv, [Next]_vars
    PROVE  LInv'
<1>1. ASSUME NEW l \in Loop, NEW t \in Text, StartRun(l, t) PROVE LInv'
  BY <1>1, StartRunClean
<1>2. ASSUME NEW l \in Loop, GoOn(l) PROVE LInv'
  BY <1>2, RunDeltaClean, InferCliClean, CutMergeClean, MergeCliClean,
     EndRunClean DEF GoOn
<1>3. CASE UNCHANGED vars
  BY <1>3 DEF vars, LInv, Clean, IsExact, Exact
<1> QED BY <1>1, <1>2, <1>3, OtherStepClean DEF Next

\* Loops that merge every delta never fail on what another loop stored: a
\* failing run found a packet gone, or one of a wrapper or of the server.
THEOREM LoopsDoNotClash ==
    ASSUME MergeLoop = 1
    PROVE  Spec => []LoopsAgree
<1>1. IInv /\ LInv /\ [Next]_vars => LInv'
  BY StepLoops
<1>2. LInv => LoopsAgree
  BY DEF LInv, Clean, LoopsAgree
<1> QED BY <1>1, <1>2, InitLoops, InitInv, StepInv, PTL DEF Spec

\* "Merge KV cache into base every N steps" is kept for N = 1, though
\* wrappers and server threads advance packets under the same addresses: what
\* a loop stores is the text its address names, and nothing else.
THEOREM LoopsMergeAll ==
    ASSUME MergeLoop = 1
    PROVE  Spec => []MergesAll
<1>1. IInv /\ LInv /\ [Next]_vars => LInv'
  BY StepLoops
<1>2. IInv /\ LInv => MergesAll
  BY DEF IInv, TypeOK, LInv, IsExact, Exact, MergesAll
<1> QED BY <1>1, <1>2, InitLoops, InitInv, StepInv, PTL DEF Spec
=============================================================================
