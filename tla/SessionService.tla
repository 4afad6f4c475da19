--------------------------- MODULE SessionService ---------------------------
(***************************************************************************)
(* What the session server promises its clients: a session is opened on    *)
(* the cache of its base text, and each step takes the cache the session   *)
(* has at one moment and makes that cache with one delta run on it the     *)
(* session's at a later one.  Nothing else changes the cache of a session: *)
(* no step of another session on the same base, no client that opens one,  *)
(* no close.  Two steps of one session at a time may lose one delta, as    *)
(* concurrent writers of one value do.                                     *)
(***************************************************************************)
EXTENDS Sequences

CONSTANTS
    Thread,   \* who steps
    Session,  \* session ids
    Text      \* base texts

\* The cache of a session, by the text it was computed from and the deltas
\* run on it, these by the session they were sent to.
Base(t) == [base |-> t, deltas |-> << >>]
With(kv, s) == [base |-> kv.base, deltas |-> Append(kv.deltas, s)]

VARIABLES
    cache,  \* the cache of every session opened so far
    open,   \* the sessions steps may be sent to
    job     \* for each thread with a step: its session and the cache it makes
vars == <<cache, open, job>>

Init == cache = << >> /\ open = {} /\ job = << >>

Open(s, t) ==
    /\ s \notin DOMAIN cache
    /\ cache' = [u \in DOMAIN cache \cup {s} |->
                    IF u = s THEN Base(t) ELSE cache[u]]
    /\ open' = open \cup {s}
    /\ UNCHANGED job

\* A step is begun on an open session, and finished also on one that was
\* closed meanwhile.
Begin(i, s) ==
    /\ i \notin DOMAIN job
    /\ s \in open
    /\ job' = [j \in DOMAIN job \cup {i} |->
                  IF j = i THEN [sid |-> s, kv |-> With(cache[s], s)]
                  ELSE job[j]]
    /\ UNCHANGED <<cache, open>>

Finish(i) ==
    /\ i \in DOMAIN job
    /\ cache' = [cache EXCEPT ![job[i].sid] = job[i].kv]
    /\ job' = [j \in DOMAIN job \ {i} |-> job[j]]
    /\ UNCHANGED open

\* A session that was closed stays closed: it is in DOMAIN cache for good.
Close(s) ==
    /\ s \in open
    /\ open' = open \ {s}
    /\ UNCHANGED <<cache, job>>

Next ==
    \/ \E s \in Session :
          (\E t \in Text : Open(s, t)) \/ (\E i \in Thread : Begin(i, s))
    \/ \E i \in Thread : Finish(i)
    \/ \E s \in Session : Close(s)

Spec == Init /\ [][Next]_vars
=============================================================================
