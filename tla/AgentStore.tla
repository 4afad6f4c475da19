---------------------------- MODULE AgentStore ----------------------------
(***************************************************************************)
(* The agents of state_pack on one store: StatePackLLM objects (llm.py),   *)
(* AgentLoop runs, which go through the SDK and the CLI (agent_loop.py,    *)
(* client.py), and the handlers of the simple HTTP server (server.py).     *)
(* Each of them names the packets it stores by a chain of digests that it  *)
(* computes next to the KV cache it carries.                               *)
(*                                                                         *)
(* Packets are written and removed whole here: PacketStore has the files.  *)
(* A KV cache is represented by the text it was computed from, a packet id *)
(* by the packet; every text is one token.  The naive counters, elapsed    *)
(* times and receipts are left out.  A step ends where an agent has read   *)
(* or written the store.                                                   *)
(***************************************************************************)
EXTENDS StatePack

CONSTANTS
    Wrapper,        \* StatePackLLM objects
    Loop,           \* AgentLoop objects
    Handler,        \* threads of the HTTP server
    MergeWrapper,   \* merge_every of the wrappers
    MergeLoop,      \* merge_every of the loops
    InPlace,        \* does a forward pass append to the cache it is given
    MaxSteps,       \* bound: deltas after one base text
    MaxGc,          \* bound: packets removed by gc
    Generated,      \* what generate appends to a cache
    Absent,         \* no such packet
    None            \* no value

Agent == Wrapper \cup Loop \cup Handler

ASSUME AgentAssumption ==
    /\ Wrapper \cap Loop = {}
    /\ Wrapper \cap Handler = {}
    /\ Loop \cap Handler = {}
ASSUME CountAssumption ==
    /\ {MergeWrapper, MergeLoop, MaxGc} \subseteq Nat
    /\ MaxSteps \in 0..MaxChain
    /\ InPlace \in BOOLEAN

Kv     == [base : Text, deltas : Seq(DeltaText \cup {Generated})]
Packet == [kv : Kv, dtype : {"half", "full"}, tokens : Nat]

ASSUME ValueAssumption ==
    /\ Absent \notin Packet \cup {"half", "full"}
    /\ None \notin Addr \cup Kv \cup Packet \cup DeltaText \cup {Absent}

VARIABLES
    pkt,       \* the packet stored under an address
    agent,     \* the fields of a wrapper, the locals of a run or a request
    gcs        \* packets removed so far

vars == <<pkt, agent, gcs>>

Pc == {"idle", "step", "infer", "cut", "merge", "refused"}

\* An agent at work: its cache _past, the address it takes the cache for
\* (_current_sha256), its token count (_base_tokens), the deltas since the
\* base text, the delta in hand and the packet that delta was cut against; a
\* run that failed shows the dtypes of that packet and of what it found.
State ==
    {a \in [pc : Pc, past : Kv \cup {None}, at : Addr \cup {None},
            tokens : Nat, step : 0..MaxSteps, delta : DeltaText \cup {None},
            id : Packet \cup {None},
            found : SUBSET {"half", "full", Absent}] :
        /\ a.pc \notin {"idle", "refused"} => a.past # None
        /\ a.past # None => a.at # None
        /\ a.pc \in {"infer", "cut", "merge"} => a.delta # None
        /\ a.pc = "refused" <=> a.found # {}}
Idle == [pc |-> "idle", past |-> None, at |-> None, tokens |-> 0, step |-> 0,
         delta |-> None, id |-> None, found |-> {}]

Content(t)    == [base |-> t, deltas |-> << >>]
After(kv, ds) == [base |-> kv.base, deltas |-> kv.deltas \o ds]

\* The n-th delta is to be merged.
Due(n, every) == every > 0 /\ n % every = 0

\* Mutant of Merged: the count of the parent is kept.
MergedUncounted(a, dtype) ==
    [kv |-> a.past, dtype |-> dtype, tokens |-> a.tokens]

\* What an agent stores: for a base text, and after its delta was run.
Created(t, dtype) == [kv |-> Content(t), dtype |-> dtype, tokens |-> 1]
Merged(a, dtype) == [kv |-> a.past, dtype |-> dtype, tokens |-> a.tokens + 1]
Store(h, p) == pkt' = [pkt EXCEPT ![h] = p]

Init ==
    /\ pkt = [h \in Addr |-> Absent]
    /\ agent = [x \in Agent |-> Idle]
    /\ gcs = 0

-----------------------------------------------------------------------------
(* StatePackLLM *)

\* Mutant of SetBase: the address is not set.
SetBaseUnnamed(w, t) ==
    /\ agent[w].pc = "idle"
    /\ agent' = [agent EXCEPT ![w] =
          [Idle EXCEPT !.past = Content(t), !.at = agent[w].at, !.tokens = 1]]
    /\ Store(BaseAddr(t), Created(t, "half"))
    /\ UNCHANGED gcs

\* set_base, at any time: all fields are replaced, the packet is created.
SetBase(w, t) ==
    /\ agent[w].pc = "idle"
    /\ agent' = [agent EXCEPT ![w] =
          [Idle EXCEPT !.past = Content(t), !.at = BaseAddr(t), !.tokens = 1]]
    /\ Store(BaseAddr(t), Created(t, "half"))
    /\ UNCHANGED gcs

\* What a call leaves in the cache; with generate, the model appends the
\* delta and its own tokens to the cache before the delta is run on it.
Run(kv, d, generate) ==
    After(kv, IF generate /\ InPlace THEN <<d, Generated, d>> ELSE <<d>>)

\* Bound: generate runs once after a base text.
WasGenerated(kv) == \E k \in 1..Len(kv.deltas) : kv.deltas[k] = Generated

\* __call__: the model runs and the fields advance, then PacketStore.infer
\* looks for the manifest; without one it raises, the fields stay as they
\* are, and the next call goes on from them.
Call(w, d, generate) ==
    LET a   == agent[w]
        ran == [a EXCEPT !.past = Run(a.past, d, generate), !.step = a.step + 1]
    IN  /\ a.pc = "idle"
        /\ a.past # None
        /\ a.step < MaxSteps
        /\ generate => ~WasGenerated(a.past)
        /\ agent' = [agent EXCEPT ![w] =
              IF pkt[a.at] # Absent /\ Due(ran.step, MergeWrapper)
              THEN [ran EXCEPT !.pc = "merge", !.delta = d]
              ELSE ran]
        /\ UNCHANGED <<pkt, gcs>>

\* PacketStore.merge, which needs the manifest once more; the address and
\* the count advance when it has succeeded.
Merge(w) ==
    LET a   == agent[w]
        new == MergedAddr(a.at, a.delta)
    IN  /\ a.pc = "merge"
        /\ IF pkt[a.at] = Absent
           THEN /\ agent' = [agent EXCEPT ![w].pc = "idle", ![w].delta = None]
                /\ UNCHANGED pkt
           ELSE /\ agent' = [agent EXCEPT ![w] =
                      [a EXCEPT !.pc = "idle", !.delta = None, !.at = new,
                                !.tokens = a.tokens + 1]]
                /\ Store(new, Merged(a, "half"))
        /\ UNCHANGED gcs

-----------------------------------------------------------------------------
(* AgentLoop.run, over StatePack.create, infer and merge *)

\* A new run: new locals, and the packet of the base text is created.
StartRun(l, t) ==
    /\ agent[l].pc \in {"idle", "refused"}
    /\ agent' = [agent EXCEPT ![l] =
          [Idle EXCEPT !.pc = "step", !.past = Content(t),
                       !.at = BaseAddr(t), !.tokens = 1]]
    /\ Store(BaseAddr(t), Created(t, "full"))
    /\ UNCHANGED gcs

Dtype(p) == IF p = Absent THEN Absent ELSE p.dtype

\* A command fails: the exception ends the run.
Refuse(l) ==
    agent' = [agent EXCEPT ![l] =
        [Idle EXCEPT !.pc = "refused",
                     !.found = {Dtype(p) : p \in
                         {agent[l].id, pkt[agent[l].at]} \ {None}}]]

\* The model runs the next delta; then infer tests for the manifest and has
\* the CLI cut a delta against it.
RunDelta(l, d) ==
    LET a == agent[l]
    IN  /\ a.pc = "step"
        /\ a.step < MaxSteps
        /\ IF pkt[a.at] = Absent
           THEN Refuse(l)
           ELSE agent' = [agent EXCEPT ![l] =
                   [a EXCEPT !.pc = "infer", !.past = After(a.past, <<d>>),
                             !.step = a.step + 1, !.delta = d,
                             !.id = pkt[a.at]]]
        /\ UNCHANGED <<pkt, gcs>>

\* The receipt is there: on to the merge, or to the next delta.
Received(a) ==
    IF Due(a.step, MergeLoop)
    THEN [a EXCEPT !.pc = "cut", !.id = None]
    ELSE [a EXCEPT !.pc = "step", !.id = None, !.delta = None]

\* CLI infer: the packet must be the one the delta was cut against.
InferCli(l) ==
    /\ agent[l].pc = "infer"
    /\ IF pkt[agent[l].at] # agent[l].id
       THEN Refuse(l)
       ELSE agent' = [agent EXCEPT ![l] = Received(@)]
    /\ UNCHANGED <<pkt, gcs>>

\* Mutant of CutMerge: without a manifest the run goes on unmerged.
CutMergeSkipped(l) ==
    LET a == agent[l]
    IN  /\ a.pc = "cut"
        /\ agent' = [agent EXCEPT ![l] =
              IF pkt[a.at] = Absent
              THEN [a EXCEPT !.pc = "step", !.delta = None]
              ELSE [a EXCEPT !.pc = "merge", !.id = pkt[a.at]]]
        /\ UNCHANGED <<pkt, gcs>>

\* merge tests for the manifest, saves the cache to a temporary file and has
\* the CLI cut the delta once more.
CutMerge(l) ==
    LET a == agent[l]
    IN  /\ a.pc = "cut"
        /\ IF pkt[a.at] = Absent
           THEN Refuse(l)
           ELSE agent' = [agent EXCEPT ![l].pc = "merge", ![l].id = pkt[a.at]]
        /\ UNCHANGED <<pkt, gcs>>

\* CLI merge, and the locals advance.
MergeCli(l) ==
    LET a   == agent[l]
        new == MergedAddr(a.at, a.delta)
    IN  /\ a.pc = "merge"
        /\ IF pkt[a.at] # a.id
           THEN Refuse(l) /\ UNCHANGED pkt
           ELSE /\ agent' = [agent EXCEPT ![l] =
                      [a EXCEPT !.pc = "step", !.id = None, !.delta = None,
                                !.at = new, !.tokens = a.tokens + 1]]
                /\ Store(new, Merged(a, "full"))
        /\ UNCHANGED gcs

\* There are no more deltas.
EndRun(l) ==
    /\ agent[l].pc = "step"
    /\ agent' = [agent EXCEPT ![l] = Idle]
    /\ UNCHANGED <<pkt, gcs>>

-----------------------------------------------------------------------------
(* The HTTP server, and gc *)

\* POST /packets.
HttpCreate(i, t) ==
    /\ agent[i].pc = "idle"
    /\ Store(BaseAddr(t), Created(t, "half"))
    /\ UNCHANGED <<agent, gcs>>

\* Mutant of HttpLoad: the delta is not run on the loaded cache.
HttpLoadOnly(i, h, d) ==
    /\ agent[i].pc = "idle"
    /\ CanExtend(h)
    /\ pkt[h] # Absent
    /\ agent' = [agent EXCEPT ![i] =
          [Idle EXCEPT !.pc = "merge", !.at = h, !.delta = d,
                       !.past = pkt[h].kv, !.tokens = pkt[h].tokens]]
    /\ UNCHANGED <<pkt, gcs>>

\* POST /merge loads the blob, whoever stored it, and runs the delta on it.
HttpLoad(i, h, d) ==
    /\ agent[i].pc = "idle"
    /\ CanExtend(h)
    /\ pkt[h] # Absent
    /\ agent' = [agent EXCEPT ![i] =
          [Idle EXCEPT !.pc = "merge", !.at = h, !.delta = d,
                       !.past = After(pkt[h].kv, <<d>>),
                       !.tokens = pkt[h].tokens]]
    /\ UNCHANGED <<pkt, gcs>>

\* PacketStore.merge; the request fails when the manifest has gone since.
HttpMerge(i) ==
    LET a == agent[i]
    IN  /\ a.pc = "merge"
        /\ agent' = [agent EXCEPT ![i] = Idle]
        /\ IF pkt[a.at] = Absent
           THEN UNCHANGED pkt
           ELSE Store(MergedAddr(a.at, a.delta), Merged(a, "half"))
        /\ UNCHANGED gcs

\* gc removes a packet.
Collect(h) ==
    /\ pkt[h] # Absent
    /\ gcs < MaxGc
    /\ gcs' = gcs + 1
    /\ Store(h, Absent)
    /\ UNCHANGED agent

-----------------------------------------------------------------------------
\* A run goes on until its deltas are used up or a command fails.
GoOn(l) ==
    \/ \E d \in DeltaText : RunDelta(l, d)
    \/ InferCli(l) \/ CutMerge(l) \/ MergeCli(l) \/ EndRun(l)

Next ==
    \/ \E w \in Wrapper :
          \/ \E t \in Text : SetBase(w, t)
          \/ \E d \in DeltaText, generate \in BOOLEAN : Call(w, d, generate)
          \/ Merge(w)
    \/ \E l \in Loop : (\E t \in Text : StartRun(l, t)) \/ GoOn(l)
    \/ \E i \in Handler :
          \/ \E t \in Text : HttpCreate(i, t)
          \/ \E h \in Addr, d \in DeltaText : HttpLoad(i, h, d)
          \/ HttpMerge(i)
    \/ \E h \in Addr : Collect(h)

Spec == Init /\ [][Next]_vars

-----------------------------------------------------------------------------
(* Properties *)

TypeOK ==
    /\ pkt \in [Addr -> Packet \cup {Absent}]
    /\ agent \in [Agent -> State]
    /\ gcs \in 0..MaxGc

\* The sequence c is what is left of s when some elements are dropped.
Within(c, s) ==
    \E f \in [1..Len(c) -> 1..Len(s)] :
        /\ \A j, k \in 1..Len(c) : j < k => f[j] < f[k]
        /\ \A j \in 1..Len(c) : c[j] = s[f[j]]

\* A packet never lacks what its address names: its cache was computed from
\* the base text and from the deltas of the chain, in that order, though the
\* deltas of steps without a merge, of calls that raised and what generate
\* left behind may be between them (__call__, run, merge in server.py).
CacheCoversName ==
    \A h \in Addr : pkt[h] # Absent =>
        /\ pkt[h].kv.base = h.base
        /\ Within(h.chain, pkt[h].kv.deltas)

\* The token count of a packet is that of the base text and the deltas its
\* address names, through whichever agents the chain went (_base_tokens,
\* current_tokens, base_tokens of the loaded blob).
TokensOfName ==
    \A h \in Addr : pkt[h] # Absent => pkt[h].tokens = 1 + Len(h.chain)

\* With merge_every = 1, loops do not disturb each other: the packets two of
\* them store under one address are the same, so that a run only fails on a
\* packet that gc has removed, or that a wrapper or the server stored.
LoopsAgree ==
    \A l \in Loop :
        agent[l].pc = "refused" => agent[l].found # {"full"}

\* "Merge KV cache into base every N steps", "merge accumulated deltas back
\* into base": the address of what a loop merges names all that is in it.
MergesAll ==
    \A h \in Addr : pkt[h] # Absent /\ pkt[h].dtype = "full" =>
        pkt[h].kv = [base |-> h.base, deltas |-> h.chain]
=============================================================================
