------------------------------- MODULE ApiEdge -------------------------------
(* The demonstration routes at the edge of the API (app/api.py              *)
(* payment_failed, payment_failed_batch, portfolio_impact): the limiter and *)
(* the idempotency cache in front of the graph.  They are plain functions,  *)
(* so each request runs in a thread of the pool.  The limiter reads the     *)
(* clock before it takes its lock; the cache is read and filled under a     *)
(* lock of its own, and the graph runs between the two.                     *)
EXTENDS Integers, Sequences, FiniteSets, SequencesExt

CONSTANTS
  Routes,        \* payment_failed, payment_failed_batch, portfolio_impact
  Threads,       \* threads of the pool
  Addresses,     \* client addresses, each the sequence of its parts between colons
  RequestKeys,   \* Idempotency-Key values, likewise
  NoRequestKey,  \* the request carries none
  Window, RateMax, GlobalMax, MaxTracked,   \* the limits
  StoreMax,      \* _IDEMPOTENCY_MAX
  MaxTicks, MaxRequests                     \* bounds: clock, requests

\* The pool has finitely many threads; the limits are read from the environment as whole
\* numbers.
ASSUME EdgeAssumption ==
  /\ IsFiniteSet(Threads) /\ Window \in Nat /\ RateMax \in Nat /\ GlobalMax \in Nat
  /\ MaxTracked \in Nat

VARIABLES
  clockE,        \* monotonic clock
  globalHits,    \* _global_hits
  rateHits,      \* _rate_hits, least recently used first
  store,         \* _idem_store, least recently used first
  thread,        \* thread -> its request and where it is
  admitted,      \* requests that passed the limiter: when, of whom, by which thread,
                 \* and at which reading of the clock
  forgotten,     \* addresses whose bucket the cap pushed out
  requests       \* requests so far, for MaxRequests

evars == <<clockE, globalHits, rateHits, store, thread, admitted, forgotten, requests>>

Free == [at |-> "free"]

EInit ==
  /\ clockE = 0 /\ globalHits = <<>> /\ rateHits = <<>> /\ store = <<>>
  /\ thread = [t \in Threads |-> Free]
  /\ admitted = <<>> /\ forgotten = {} /\ requests = 0

\* Drop the hits at the head that are older than the window.
Pruned(hits, now) ==
  LET fresh == {n \in DOMAIN hits : now - hits[n] <= Window}
  IN IF fresh = {} THEN <<>> ELSE SubSeq(hits, Min(fresh), Len(hits))

\* An ordered map, most recently used last.
Has(map, k) == \E n \in DOMAIN map : map[n].key = k
Place(map, k) == CHOOSE n \in DOMAIN map : map[n].key = k
Item(map, k) == map[Place(map, k)].value
Drop(map, k) == IF Has(map, k) THEN RemoveAt(map, Place(map, k)) ELSE map
SetLast(map, k, v) == Append(Drop(map, k), [key |-> k, value |-> v])
Capped(map, max) == IF Len(map) > max THEN Tail(map) ELSE map

\* _idem_key joins the route, the address and what the client supplied with colons,
\* which an address and a key may hold themselves: their parts, one after another.
IdemKey(r) == <<r.route>> \o r.address \o r.key

Asks(r) ==
  /\ r.route = "portfolio_impact" => r.key = NoRequestKey
  /\ requests < MaxRequests /\ requests' = requests + 1

\* The cache comes first: a replay does not count against the limit.
BeginRequest(t, r) ==
  /\ thread[t] = Free /\ Asks(r)
  /\ IF r.key # NoRequestKey /\ Has(store, IdemKey(r))
     THEN /\ store' = SetLast(store, IdemKey(r), Item(store, IdemKey(r)))
          /\ UNCHANGED thread
     ELSE /\ thread' = [thread EXCEPT ![t] = [at |-> "limiter", request |-> r, now |-> clockE]]
          /\ UNCHANGED store
  /\ UNCHANGED <<clockE, globalHits, rateHits, admitted, forgotten>>

\* A hit that the global window does not get to see.
CountedPerAddressOnly(global, now) == global

\* A request that passes is in both windows.
Counted(global, now) == Append(global, now)

\* _rate_limited, under its lock, at the time the thread read before it.
Limit(t) ==
  /\ thread[t].at = "limiter"
  /\ LET r == thread[t].request
         now == thread[t].now
         global == Pruned(globalHits, now)
         mine == IF Has(rateHits, r.address) THEN Pruned(Item(rateHits, r.address), now) ELSE <<>>
         limited == Len(mine) >= RateMax
         bucket == IF limited THEN mine ELSE Append(mine, now)
         map == IF bucket = <<>> THEN Drop(rateHits, r.address)
                ELSE SetLast(rateHits, r.address, bucket)
     IN IF Len(global) >= GlobalMax
        THEN /\ globalHits' = global /\ UNCHANGED <<rateHits, admitted, forgotten>>
             /\ thread' = [thread EXCEPT ![t] = Free]
        ELSE /\ globalHits' = IF limited THEN global ELSE Counted(global, now)
             /\ rateHits' = Capped(map, MaxTracked)
             /\ forgotten' = IF Len(map) > MaxTracked THEN forgotten \cup {Head(map).key}
                             ELSE forgotten
             /\ admitted' = IF limited THEN admitted
                            ELSE Append(admitted, [at |-> clockE, of |-> r.address,
                                                   by |-> t, read |-> now])
             /\ thread' = [thread EXCEPT ![t] =
                             IF limited THEN Free ELSE [at |-> "graph", request |-> r]]
  /\ UNCHANGED <<clockE, store, requests>>

\* run_recovery or run_recovery_batch.
RunGraph(t) ==
  /\ thread[t].at = "graph"
  /\ thread' = [thread EXCEPT ![t].at = "fill"]
  /\ UNCHANGED <<clockE, globalHits, rateHits, store, admitted, forgotten, requests>>

\* The graph raises: a 500, and nothing is remembered.
GraphRaises(t) ==
  /\ thread[t].at = "graph"
  /\ thread' = [thread EXCEPT ![t] = Free]
  /\ UNCHANGED <<clockE, globalHits, rateHits, store, admitted, forgotten, requests>>

FillAndAnswer(t) ==
  /\ thread[t].at = "fill"
  /\ LET r == thread[t].request
     IN store' = IF r.key = NoRequestKey THEN store
                 ELSE Capped(SetLast(store, IdemKey(r), r.address), StoreMax)
  /\ thread' = [thread EXCEPT ![t] = Free]
  /\ UNCHANGED <<clockE, globalHits, rateHits, admitted, forgotten, requests>>

TickE ==
  /\ clockE < MaxTicks /\ clockE' = clockE + 1
  /\ UNCHANGED <<globalHits, rateHits, store, thread, admitted, forgotten, requests>>

ENext ==
  \/ \E t \in Threads :
       \/ \E r \in [route : Routes, address : Addresses, key : RequestKeys \cup {NoRequestKey}] :
            BeginRequest(t, r)
       \/ Limit(t) \/ RunGraph(t) \/ GraphRaises(t) \/ FillAndAnswer(t)
  \/ TickE

ESpec == EInit /\ [][ENext]_evars

-----------------------------------------------------------------------------
\* Requests that passed the limiter within the last window, by the clock at the
\* moment they passed.
Passed(who) ==
  Cardinality({n \in DOMAIN admitted :
                 admitted[n].of \in who /\ clockE - admitted[n].at <= Window})

\* However many addresses a client rotates through, no window lets through more
\* than the global limit and one for each thread that read the clock early; and
\* an address whose bucket the cap never pushed out stays within its own limit
\* in the same way.  A bucket that was pushed out starts anew.
WindowsHold ==
  /\ Passed(Addresses) <= GlobalMax + Cardinality(Threads)
  /\ \A a \in Addresses \ forgotten : Passed({a}) <= RateMax + Cardinality(Threads)
=============================================================================
