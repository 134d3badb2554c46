------------------------------ MODULE ResolverCache ------------------------------
(***************************************************************************)
(* The caching resolver (resolver_cache.c): a table of capacity entries    *)
(* with a time to live in front of an inner resolver that may answer       *)
(* inside its resolve() or later, and whose callers may resolve, cancel or *)
(* clear the table inside their done callback.  A key is a (host, port).   *)
(***************************************************************************)
EXTENDS Naturals, Sequences, FiniteSets

CONSTANTS Keys, Reqs,
          Capacity, Ttl,
          MaxTime            \* bound on the clock

VARIABLES ent,     \* entries[i]: [occ, key, dl]
          count,
          cr,      \* request -> KlResCacheReq
          frames,  \* open calls, innermost first: [at, q]
          now

vars == <<ent, count, cr, frames, now>>

Slots == 1..Capacity
NoEntry == [occ |-> FALSE, key |-> "none", dl |-> 0]    \* what a free entry holds is never read
NoReq == [st |-> "none", key |-> "none", completed |-> FALSE, sync |-> FALSE,
          inUser |-> FALSE, deferred |-> FALSE, told |-> 0]

Init ==
    /\ ent = [i \in Slots |-> NoEntry]
    /\ count = 0 /\ cr = [q \in Reqs |-> NoReq] /\ frames = <<>> /\ now = 0

Top == IF frames = <<>> THEN [at |-> "loop", q |-> "none"] ELSE Head(frames)
UserRuns == Top.at \in {"loop", "user", "hit"}
Push(at, q) == frames' = <<[at |-> at, q |-> q]>> \o frames
Pop == frames' = Tail(frames)

-----------------------------------------------------------------------------
(* The table. *)

Occupied == {i \in Slots : ent[i].occ}
Matches(k) == {i \in Occupied : ent[i].key = k}
Free == Slots \ Occupied

\* cache_lookup(): a match that is still fresh hits; one that expired is dropped.
Hit(k) == \E i \in Matches(k) : ent[i].dl > now
Lookup(k) ==
    IF Hit(k) \/ Matches(k) = {} THEN UNCHANGED <<ent, count>>
    ELSE /\ \E i \in Matches(k) :
              /\ \A j \in Matches(k) : i <= j
              /\ ent' = [ent EXCEPT ![i] = NoEntry]
         /\ count' = count - 1

First(S, i) == i \in S /\ \A j \in S : i <= j
Expired == {i \in Slots : ent[i].dl <= now}
Soonest == {i \in Slots : \A j \in Slots : ent[i].dl <= ent[j].dl}

\* The bug: the key's own entry is not looked for.
MutVictim(k, i) ==
    \/ Free # {} /\ First(Free, i)
    \/ Free = {} /\ Expired # {} /\ First(Expired, i)
    \/ Free = {} /\ Expired = {} /\ First(Soonest, i)

\* The slot cache_insert() writes: the key's own, a free one, the first expired one, or the one
\* closest to its expiry.
Victim(k, i) ==
    \/ Matches(k) # {} /\ First(Matches(k), i)
    \/ Matches(k) = {} /\ Free # {} /\ First(Free, i)
    \/ Matches(k) = {} /\ Free = {} /\ Expired # {} /\ First(Expired, i)
    \/ Matches(k) = {} /\ Free = {} /\ Expired = {} /\ First(Soonest, i)

Insert(k) ==
    \E i \in Slots :
        /\ Victim(k, i)
        /\ ent' = [ent EXCEPT ![i] = [occ |-> TRUE, key |-> k, dl |-> now + Ttl]]
        /\ count' = IF ent[i].occ THEN count ELSE count + 1

-----------------------------------------------------------------------------
(* Requests. *)

\* cache_resolve() up to the callback of a hit, or to the inner resolver's resolve().
Resolve(q, k) ==
    /\ UserRuns /\ cr[q].st = "none"
    /\ Lookup(k)
    /\ \/ /\ Hit(k)
          /\ cr' = [cr EXCEPT ![q] = [NoReq EXCEPT !.st = "live", !.key = k, !.completed = TRUE,
                                                   !.sync = TRUE, !.inUser = TRUE, !.told = 1]]
          /\ Push("hit", q)
       \/ /\ ~Hit(k)
          /\ cr' = [cr EXCEPT ![q] = [NoReq EXCEPT !.st = "live", !.key = k, !.sync = TRUE]]
          /\ Push("resolve", q)
    /\ UNCHANGED now

\* inner_done_fn() up to the user's callback; only a successful result is cached.
InnerDone(q, ok) ==
    /\ IF ok THEN Insert(cr[q].key) ELSE UNCHANGED <<ent, count>>
    /\ cr' = [cr EXCEPT ![q].completed = TRUE, ![q].inUser = TRUE, ![q].told = @ + 1]
    /\ Push("user", q)
    /\ UNCHANGED now

InnerDoneSync(q, ok) == Top = [at |-> "resolve", q |-> q] /\ ~cr[q].completed /\ InnerDone(q, ok)
InnerDoneLater(q, ok) ==
    /\ frames = <<>> /\ cr[q].st = "live" /\ ~cr[q].completed
    /\ InnerDone(q, ok)

\* The inner resolve() returns: without a handle, or with one that may already be complete.
ResolveReturns(q) ==
    /\ Top = [at |-> "resolve", q |-> q]
    /\ \/ cr' = [cr EXCEPT ![q] = NoReq]
       \/ ~cr[q].completed /\ cr' = [cr EXCEPT ![q].sync = FALSE]
    /\ Pop /\ UNCHANGED <<ent, count, now>>

\* The user's callback returns to inner_done_fn(), or to the hit path of cache_resolve().
UserReturns(q) ==
    /\ \/ /\ Top = [at |-> "user", q |-> q]
          /\ cr' = [cr EXCEPT ![q] = IF @.sync THEN [@ EXCEPT !.inUser = FALSE]
                                     ELSE NoReq]
       \/ /\ Top = [at |-> "hit", q |-> q]
          /\ cr' = [cr EXCEPT ![q] = NoReq]
    /\ Pop /\ UNCHANGED <<ent, count, now>>

\* The bug: a cancel inside the callback frees at once.
MutCancel(q) ==
    /\ UserRuns /\ cr[q].st = "live" /\ (cr[q].inUser \/ (~cr[q].completed /\ ~cr[q].sync))
    /\ cr' = [cr EXCEPT ![q] = NoReq]
    /\ UNCHANGED <<ent, count, frames, now>>

\* cache_cancel() of a request in flight, or of the one whose callback is running.
Cancel(q) ==
    /\ UserRuns /\ cr[q].st = "live" /\ (cr[q].inUser \/ (~cr[q].completed /\ ~cr[q].sync))
    /\ cr' = [cr EXCEPT ![q] = IF @.inUser THEN [@ EXCEPT !.deferred = TRUE]
                               ELSE NoReq]
    /\ UNCHANGED <<ent, count, frames, now>>

\* kl_resolver_cache_clear()
Clear ==
    /\ UserRuns
    /\ ent' = [i \in Slots |-> NoEntry] /\ count' = 0
    /\ UNCHANGED <<cr, frames, now>>

Tick == now < MaxTime /\ now' = now + 1 /\ UNCHANGED <<ent, count, cr, frames>>

Next ==
    \/ \E q \in Reqs :
        \/ \E k \in Keys : Resolve(q, k)
        \/ \E ok \in BOOLEAN : InnerDoneSync(q, ok) \/ InnerDoneLater(q, ok)
        \/ ResolveReturns(q) \/ UserReturns(q) \/ Cancel(q)
    \/ Clear \/ Tick

Spec == Init /\ [][Next]_vars

-----------------------------------------------------------------------------
(* Properties. *)

\* At most one entry per (host, port), which cache_lookup() relies on to stop at the first match.
OneEntryPerKey ==
    \A i, j \in Slots : ent[i].occ /\ ent[j].occ /\ ent[i].key = ent[j].key => i = j

\* kl_resolver_cache_count() is the number of occupied entries.
CountMatches == count = Cardinality(Occupied)

\* A request whose callback, or whose resolve(), is on the stack is not freed: the code behind the
\* call still reads it.  And nobody is called back twice.
HeldWhileRunning ==
    /\ \A i \in 1..Len(frames) : cr[frames[i].q].st = "live"
    /\ \A q \in Reqs : cr[q].told <= 1
=============================================================================
