--------------------------- MODULE NtlsSessCache ---------------------------
(***************************************************************************)
(* The server's session cache, ssl/ssl_sess.c, used by the threads of one  *)
(* process that share an SSL_CTX: the reference counts of the SSL_SESSION  *)
(* objects, the hash table by session id, the list ordered by expiry, an   *)
(* external cache behind the callbacks of the SSL_CTX, the lookup of a     *)
(* ClientHello, the update at the end of a handshake, removal, eviction    *)
(* and flushing.                                                           *)
(*                                                                         *)
(* A section that the code runs under ctx->lock is one action.  What it    *)
(* does after the unlock, a callback or SSL_SESSION_free, is another one,  *)
(* since the other threads may run in between.                             *)
(***************************************************************************)
EXTENDS Integers, FiniteSets, SequencesExt

CONSTANTS
  Threads,      \* each serves one connection after another
  Objects,      \* memory for SSL_SESSION objects
  Ids,          \* session ids
  NULL,
  CacheSizes,   \* for SSL_CTX_sess_set_cache_size, 0 for no limit
  UpdateTime,   \* SSL_SESS_CACHE_UPDATE_TIME
  StoreSize,    \* entries that fit into the external cache
  AsyncLookup,  \* get_session_cb may ask to be called again
  TIME_MAX,     \* the largest time_t
  Timeout,      \* session_timeout of the SSL_CTX
  Timeouts,     \* what the application passes to SSL_SESSION_set_timeout
  MaxTime       \* bound on the clock

ASSUME SessCacheAssumption ==
  /\ IsFiniteSet(Threads) /\ IsFiniteSet(Ids)
  /\ NULL \notin Objects \cup Ids
  /\ CacheSizes \subseteq Nat /\ StoreSize \in Nat \ {0}
  /\ UpdateTime \in BOOLEAN /\ AsyncLookup \in BOOLEAN
  /\ TIME_MAX \in Nat \ {0}
  /\ Timeouts \subseteq 0 .. TIME_MAX
  /\ Timeout \in 1 .. TIME_MAX
  /\ MaxTime \in 1 .. TIME_MAX

VARIABLES
  size,   \* session_cache_size, set before the SSL_CTX is used
  obj,    \* SSL_SESSION: id, time, timeout, not_resumable, owner, references
  hash,   \* ctx->sessions, the object stored under each id
  list,   \* session_cache_head .. session_cache_tail
  store,  \* the external cache: what it keeps under each id
  now,    \* time(NULL)
  conn    \* the connection each thread serves, and where it is

cache == <<obj, hash, list, store>>
vars == <<size, obj, hash, list, store, now, conn>>

-----------------------------------------------------------------------------
(* Session objects and their expiry.                                       *)

Unused == [ id |-> NULL, time |-> 0, timeout |-> 0, not_resumable |-> FALSE,
            owner |-> FALSE, references |-> 0 ]

SSL_SESSION_new(id, time, timeout) ==
  [ Unused EXCEPT !.id = id, !.time = time, !.timeout = timeout,
                  !.references = 1 ]

(* time + timeout in time_t, and whether the sum went past its end         *)
(* (ssl_session_calculate_timeout).                                        *)
CalcTimeout(o) ==
  ((o.time + o.timeout + TIME_MAX + 1) % (2 * (TIME_MAX + 1))) - TIME_MAX - 1

TimeoutOvf(o) == o.time > 0 /\ CalcTimeout(o) < o.time

SessTimedout(t, o) == ~TimeoutOvf(o) /\ t > CalcTimeout(o)

\* Mutant: a straight comparison.
MutTimeoutLess(a, b) == CalcTimeout(a) < CalcTimeout(b)

(* timeoutcmp(a, b) < 0: an overflowed timeout is after all others.        *)
TimeoutLess(a, b) ==
  IF TimeoutOvf(a) = TimeoutOvf(b)
  THEN CalcTimeout(a) < CalcTimeout(b)
  ELSE TimeoutOvf(b)

(* SSL_SESSION_up_ref and SSL_SESSION_free on the objects of a state m of  *)
(* the cache; the last reference gives the memory back.                    *)
UpRef(m, o) == [m EXCEPT !.obj[o].references = @ + 1]

Free(m, o) ==
  IF o = NULL THEN m
  ELSE IF m.obj[o].references > 1
       THEN [m EXCEPT !.obj[o].references = @ - 1]
       ELSE [m EXCEPT !.obj[o] = Unused]

(* SSL_SESSION_list_remove; SSL_SESSION_list_add, with its three cases:    *)
(* not before the head, before the tail, or in front of the first one that *)
(* it is not before.                                                       *)
ListRemove(m, o) ==
  IF o \notin Range(m.list) THEN m
  ELSE [m EXCEPT !.list = RemoveAt(m.list, CHOOSE k \in DOMAIN m.list :
                                             m.list[k] = o),
                 !.obj[o].owner = FALSE]

InsertPosition(m, o) ==
  LET before(x) == TimeoutLess(m.obj[o], m.obj[x])
  IN IF m.list = << >> \/ ~before(Head(m.list)) THEN 1
     ELSE IF before(Last(m.list)) THEN Len(m.list) + 1
     ELSE CHOOSE k \in 2 .. Len(m.list) :
            /\ ~before(m.list[k])
            /\ \A j \in 2 .. k - 1 : before(m.list[j])

ListAdd(m, o) ==
  LET r == ListRemove(m, o)
  IN [r EXCEPT !.list = InsertAt(r.list, InsertPosition(r, o), o),
               !.obj[o].owner = TRUE]

(* All sessions behind the first keep ones of the list leave hash and list *)
(* and are marked, and the callback tells the external cache, all under    *)
(* the lock; the references of the cache are not dropped yet.              *)
Behind(m, keep) == {m.list[k] : k \in keep + 1 .. Len(m.list)}

Discard(m, keep) ==
  LET gone == Behind(m, keep) IN
  [ obj |-> [o \in Objects |->
               IF o \in gone
               THEN [m.obj[o] EXCEPT !.not_resumable = TRUE, !.owner = FALSE]
               ELSE m.obj[o]],
    hash |-> [i \in Ids |-> IF m.hash[i] \in gone THEN NULL ELSE m.hash[i]],
    list |-> SubSeq(m.list, 1, keep),
    store |-> [i \in Ids |-> IF \E o \in gone : m.obj[o].id = i
                             THEN NULL ELSE m.store[i]] ]

FreeAll(m, gone) ==
  [m EXCEPT !.obj = [o \in Objects |->
                       IF o \in gone THEN Free(m, o).obj[o] ELSE m.obj[o]]]

-----------------------------------------------------------------------------
(* SSL_CTX_add_session.                                                    *)

Memory == [obj |-> obj, hash |-> hash, list |-> list, store |-> store]
SetMemory(m) ==
  obj' = m.obj /\ hash' = m.hash /\ list' = m.list /\ store' = m.store

Number(m) == Cardinality({i \in Ids : m.hash[i] # NULL})

\* Mutant: one session too many.
MutFitting(m) ==
  LET excess == Number(m) - size IN
  IF size = 0 \/ excess <= 0 THEN Len(m.list)
  ELSE IF excess >= Len(m.list) THEN 0 ELSE Len(m.list) - excess

(* How many sessions at the head of the list stay: those at the tail are   *)
(* removed, one after another, as long as the hash table holds size        *)
(* sessions; the new one is already in the table and not yet in the list.  *)
Fitting(m) ==
  LET excess == Number(m) - size + 1 IN
  IF size = 0 \/ excess <= 0 THEN Len(m.list)
  ELSE IF excess >= Len(m.list) THEN 0 ELSE Len(m.list) - excess

(* Another object with the same id is thrown out first; an object already  *)
(* there gives back the reference taken for it.                            *)
AddSession(m, c) ==
  LET i   == m.obj[c].id
      s   == m.hash[i]
      m1  == [UpRef(m, c) EXCEPT !.hash[i] = c]
      m2  == IF s \in {NULL, c} THEN m1 ELSE Free(ListRemove(m1, s), s)
      m3  == IF UpdateTime THEN [m2 EXCEPT !.obj[c].time = now] ELSE m2
      n   == Fitting(m3)
      m4  == IF s = c THEN Free(m3, s)
             ELSE FreeAll(Discard(m3, n), Behind(m3, n))
  IN ListAdd(m4, c)

-----------------------------------------------------------------------------
(* The thread t and its connection: s->session, the session under          *)
(* consideration in ssl_get_prev_session, and the references taken out of  *)
(* the cache that are still to be dropped.                                 *)

Idle == [ pc |-> "idle", session |-> NULL, ret |-> NULL, id |-> NULL,
          hit |-> FALSE, waiting |-> FALSE, removed |-> {}, after |-> "idle",
          timeout |-> 0 ]

Goto(t, pc) == conn' = [conn EXCEPT ![t].pc = pc]

Available == {o \in Objects : obj[o].references = 0}

(* The external cache hands out its entry until it expires, and drops it   *)
(* then.                                                                   *)
Stale(i) == store[i] # NULL /\ store[i].expire <= now

Init ==
  /\ size \in CacheSizes
  /\ obj = [o \in Objects |-> Unused]
  /\ hash = [i \in Ids |-> NULL]
  /\ list = << >>
  /\ store = [i \in Ids |-> NULL]
  /\ now = 1
  /\ conn = [t \in Threads |-> Idle]

\* Mutant: the reference is not taken under the lock.
MutLookup(t, i) ==
  /\ conn[t].pc = "idle"
  /\ SetMemory(Memory)
  /\ conn' = [conn EXCEPT ![t].ret = hash[i],
                ![t].id = IF hash[i] = NULL THEN i ELSE NULL,
                ![t].pc = IF hash[i] = NULL THEN "callback" ELSE "check"]
  /\ UNCHANGED now

(* lookup_sess_in_cache, the section under the read lock.                  *)
Lookup(t, i) ==
  /\ conn[t].pc = "idle"
  /\ SetMemory(IF hash[i] = NULL THEN Memory ELSE UpRef(Memory, hash[i]))
  /\ conn' = [conn EXCEPT ![t].ret = hash[i],
                ![t].id = IF hash[i] = NULL THEN i ELSE NULL,
                ![t].pc = IF hash[i] = NULL THEN "callback" ELSE "check"]
  /\ UNCHANGED now

(* get_session_cb has nothing to give, or answers                          *)
(* SSL_magic_pending_session_ptr().  For the latter ssl_get_prev_session   *)
(* returns -2, and the ClientHello handler of NTLS goes on as if there     *)
(* were no session.                                                        *)
CallbackMiss(t) ==
  LET i == conn[t].id IN
  /\ conn[t].pc = "callback"
  /\ \E pending \in IF AsyncLookup THEN BOOLEAN ELSE {FALSE} :
       /\ pending \/ store[i] = NULL \/ Stale(i)
       /\ store' = IF pending THEN store ELSE [store EXCEPT ![i] = NULL]
       /\ conn' = [conn EXCEPT ![t].id = NULL, ![t].waiting = pending,
                               ![t].pc = "miss"]
  /\ UNCHANGED <<obj, hash, list, now>>

(* It builds a session of its own for the caller (copy is 0).              *)
CallbackHit(t) ==
  LET e == store[conn[t].id] IN
  /\ conn[t].pc = "callback"
  /\ e # NULL /\ ~Stale(conn[t].id)
  /\ \E o \in Available :
       /\ obj' = [obj EXCEPT
                    ![o] = SSL_SESSION_new(conn[t].id, e.time, e.timeout)]
       /\ conn' = [conn EXCEPT ![t].id = NULL, ![t].ret = o, ![t].pc = "store"]
  /\ UNCHANGED <<hash, list, store, now>>

(* The session from the external cache goes into the internal one.         *)
StoreFound(t) ==
  /\ conn[t].pc = "store"
  /\ SetMemory(AddSession(Memory, conn[t].ret))
  /\ Goto(t, "check")
  /\ UNCHANGED now

(* ssl_get_prev_session has a session: one of another version or context   *)
(* is dropped, one that timed out is also removed, the others are resumed. *)
CheckMismatch(t) ==
  /\ conn[t].pc = "check"
  /\ SetMemory(Free(Memory, conn[t].ret))
  /\ conn' = [conn EXCEPT ![t].ret = NULL, ![t].pc = "miss"]
  /\ UNCHANGED now

(* One the server must not judge (a peer to verify and no context of its   *)
(* own), or one that contradicts the hello on the extended master secret,  *)
(* ends the handshake.                                                     *)
CheckFatal(t) ==
  /\ conn[t].pc = "check"
  /\ SetMemory(Free(Memory, conn[t].ret))
  /\ conn' = [conn EXCEPT ![t] = Idle]
  /\ UNCHANGED now

CheckTimedout(t) ==
  /\ conn[t].pc = "check"
  /\ SessTimedout(now, obj[conn[t].ret])
  /\ conn' = [conn EXCEPT ![t].pc = "remove", ![t].after = "miss"]
  /\ UNCHANGED <<cache, now>>

CheckResumes(t) ==
  /\ conn[t].pc = "check"
  /\ ~SessTimedout(now, obj[conn[t].ret])
  /\ conn' = [conn EXCEPT ![t].session = conn[t].ret, ![t].ret = NULL,
                          ![t].hit = TRUE, ![t].pc = "handshake"]
  /\ UNCHANGED <<cache, now>>

(* ssl_get_new_session, after a miss or at once when the ClientHello has   *)
(* no session id: the id is random, and not one in the cache.              *)
NewSession(t) ==
  /\ conn[t].pc \in {"idle", "miss"}
  /\ \E o \in Available, i \in Ids :
       /\ hash[i] = NULL /\ store[i] = NULL
       /\ \A x \in Objects : obj[x].id # i
       /\ obj' = [obj EXCEPT ![o] = SSL_SESSION_new(i, now, Timeout)]
       /\ conn' = [conn EXCEPT ![t].session = o, ![t].pc = "handshake"]
  /\ UNCHANGED <<hash, list, store, now>>

(* SSL_SESSION_new or ssl_generate_session_id fails, and the handshake     *)
(* with it.                                                                *)
NewSessionFails(t) ==
  /\ conn[t].pc = "miss"
  /\ conn' = [conn EXCEPT ![t] = Idle]
  /\ UNCHANGED <<cache, now>>

-----------------------------------------------------------------------------
(* remove_session_lock: the object under the id of c leaves the cache,     *)
(* whichever it is; c is marked; then the callback and the free, outside   *)
(* the lock.                                                               *)

Removing(t) == IF conn[t].after = "miss" THEN conn[t].ret ELSE conn[t].session

RemoveLocked(t) ==
  LET c == Removing(t)
      r == hash[obj[c].id]
      m == IF r = NULL THEN Memory
           ELSE ListRemove([Memory EXCEPT !.hash[obj[c].id] = NULL], r)
  IN /\ conn[t].pc = "remove"
     /\ SetMemory([m EXCEPT !.obj[c].not_resumable = TRUE])
     /\ conn' = [conn EXCEPT ![t].removed = {r} \ {NULL},
                             ![t].pc = "removeCb"]
     /\ UNCHANGED now

(* The caller goes on: ssl_get_prev_session drops ret, SSL_free drops the  *)
(* session of the connection, a fatal alert leaves it there.               *)
RemoveCallback(t) ==
  LET m == [FreeAll(Memory, conn[t].removed)
              EXCEPT !.store[obj[Removing(t)].id] = NULL]
      next == [conn[t] EXCEPT !.removed = {}, !.pc = conn[t].after,
                              !.after = "idle"]
  IN /\ conn[t].pc = "removeCb"
     /\ \/ /\ conn[t].after = "miss"
           /\ SetMemory(Free(m, conn[t].ret))
           /\ conn' = [conn EXCEPT ![t] = [next EXCEPT !.ret = NULL]]
        \/ /\ conn[t].after = "failed"
           /\ SetMemory(m)
           /\ conn' = [conn EXCEPT ![t] = next]
        \/ /\ conn[t].after = "idle"
           /\ SetMemory(Free(m, conn[t].session))
           /\ conn' = [conn EXCEPT ![t] = Idle]
     /\ UNCHANGED now

-----------------------------------------------------------------------------
Completed(t, pc) ==
  conn' = [conn EXCEPT ![t].hit = FALSE, ![t].waiting = FALSE, ![t].pc = pc]

(* ssl_update_cache at the end of the handshake: a new session goes into   *)
(* the internal cache and then to new_session_cb.                          *)
Finish(t) ==
  /\ conn[t].pc = "handshake"
  /\ IF conn[t].hit \/ obj[conn[t].session].not_resumable
     THEN UNCHANGED cache /\ Completed(t, "connected")
     ELSE /\ SetMemory(AddSession(Memory, conn[t].session))
          /\ Completed(t, "newCb")
  /\ UNCHANGED now

NewCallback(t) ==
  LET s == obj[conn[t].session] IN
  /\ conn[t].pc = "newCb"
  /\ \E keep \in SUBSET Ids :
       /\ Cardinality(keep) < StoreSize
       /\ store' = [i \in Ids |->
                      CASE i = s.id -> [time |-> s.time, timeout |-> s.timeout,
                                        expire |-> now + Timeout]
                        [] i # s.id /\ i \in keep -> store[i]
                        [] OTHER -> NULL]
  /\ Goto(t, "connected")
  /\ UNCHANGED <<obj, hash, list, now>>

(* SSL_CTX_flush_sessions(ctx, when), by ssl_update_cache on every 255th   *)
(* connection or by the application; when = 0 empties the cache.           *)
Staying(when) ==
  LET stays == {k \in DOMAIN list : ~SessTimedout(when, obj[list[k]])}
  IN IF when = 0 THEN 0
     ELSE CHOOSE k \in {0} \cup stays : \A j \in stays : j <= k

Flush(t, when) ==
  /\ conn[t].pc = "connected"
  /\ SetMemory(Discard(Memory, Staying(when)))
  /\ conn' = [conn EXCEPT ![t].removed = Behind(Memory, Staying(when)),
                          ![t].pc = "flushed"]
  /\ UNCHANGED now

FlushFree(t) ==
  /\ conn[t].pc = "flushed"
  /\ SetMemory(FreeAll(Memory, conn[t].removed))
  /\ conn' = [conn EXCEPT ![t].removed = {}, ![t].pc = "connected"]
  /\ UNCHANGED now

-----------------------------------------------------------------------------
(* SSL_SESSION_set_timeout on the session of a connection: owner is read   *)
(* before the lock and again after it.                                     *)
SetTimeout(t, v) ==
  LET s == conn[t].session IN
  /\ conn[t].pc = "connected"
  /\ IF obj[s].owner
     THEN /\ conn' = [conn EXCEPT ![t].timeout = v, ![t].pc = "setTimeout"]
          /\ UNCHANGED obj
     ELSE /\ obj' = [obj EXCEPT ![s].timeout = v]
          /\ UNCHANGED conn
  /\ UNCHANGED <<hash, list, store, now>>

\* Mutant: the session keeps its place in the list.
MutSetTimeoutLocked(t) ==
  LET s == conn[t].session IN
  /\ conn[t].pc = "setTimeout"
  /\ SetMemory([Memory EXCEPT !.obj[s].timeout = conn[t].timeout])
  /\ conn' = [conn EXCEPT ![t].pc = "connected", ![t].timeout = 0]
  /\ UNCHANGED now

(* When the session left the cache in the meantime, owner is NULL and the  *)
(* process ends.                                                           *)
SetTimeoutLocked(t) ==
  LET s == conn[t].session
      m == [Memory EXCEPT !.obj[s].timeout = conn[t].timeout]
  IN /\ conn[t].pc = "setTimeout"
     /\ SetMemory(IF obj[s].owner THEN ListAdd(m, s) ELSE Memory)
     /\ conn' = [conn EXCEPT
                   ![t].pc = IF obj[s].owner THEN "connected" ELSE "crashed",
                   ![t].timeout = 0]
     /\ UNCHANGED now

(* A fatal alert, sent or received.                                        *)
FatalAlert(t) ==
  /\ conn[t].pc \in {"handshake", "connected"}
  /\ conn' = [conn EXCEPT ![t].pc = "remove", ![t].after = "failed"]
  /\ UNCHANGED <<cache, now>>

(* SSL_free: after a handshake, and without close_notify sent, the session *)
(* is removed (ssl_clear_bad_session).                                     *)
CloseCleanly(t) ==
  /\ conn[t].pc \in {"handshake", "connected", "failed"}
  /\ SetMemory(Free(Memory, conn[t].session))
  /\ conn' = [conn EXCEPT ![t] = Idle]
  /\ UNCHANGED now

CloseAbruptly(t) ==
  /\ conn[t].pc = "connected"
  /\ conn' = [conn EXCEPT ![t].pc = "remove"]
  /\ UNCHANGED <<cache, now>>

Tick ==
  /\ now < MaxTime
  /\ now' = now + 1
  /\ UNCHANGED <<cache, conn>>

Crashed == \E t \in Threads : conn[t].pc = "crashed"

ThreadStep(t) ==
  \/ \E i \in Ids : Lookup(t, i)
  \/ CallbackMiss(t) \/ CallbackHit(t) \/ StoreFound(t) \/ CheckMismatch(t)
  \/ CheckFatal(t) \/ CheckTimedout(t) \/ CheckResumes(t)
  \/ NewSession(t) \/ NewSessionFails(t)
  \/ RemoveLocked(t) \/ RemoveCallback(t) \/ Finish(t) \/ NewCallback(t)
  \/ \E when \in {0, now} : Flush(t, when)
  \/ FlushFree(t)
  \/ \E v \in Timeouts : SetTimeout(t, v)
  \/ SetTimeoutLocked(t)
  \/ FatalAlert(t) \/ CloseCleanly(t) \/ CloseAbruptly(t)

Next ==
  \/ /\ ~Crashed
     /\ Tick \/ \E t \in Threads : ThreadStep(t)
     /\ UNCHANGED size
  \/ Crashed /\ UNCHANGED vars

Spec == Init /\ [][Next]_vars

-----------------------------------------------------------------------------
(* Every reference that a thread or the cache has to an object is counted  *)
(* once, and nothing else is: no object is used after it was freed, and    *)
(* none is kept for ever, whatever order lookups, replacements, evictions, *)
(* flushes and removals of several threads come in (SSL_SESSION_up_ref and *)
(* SSL_SESSION_free in ssl_sess.c).                                        *)
ReferencesExact ==
  \A o \in Objects :
    obj[o].references =
        Cardinality({i \in Ids : hash[i] = o})
      + Cardinality({t \in Threads : conn[t].session = o})
      + Cardinality({t \in Threads : conn[t].ret = o})
      + Cardinality({t \in Threads : o \in conn[t].removed})

(* The list and the hash table hold the same objects, each once and under  *)
(* its id; owner tells which these are; none of them is marked as not      *)
(* resumable; and the list is ordered by the true expiry, also when the    *)
(* sum of time and timeout overflows (SSL_SESSION_list_add,                *)
(* SSL_SESSION_list_remove, remove_session_lock).                          *)
CacheConsistent ==
  LET cached == {hash[i] : i \in Ids} \ {NULL} IN
  /\ Range(list) = cached
  /\ \A j, k \in DOMAIN list : list[j] = list[k] => j = k
  /\ \A i \in Ids : hash[i] # NULL => obj[hash[i]].id = i
  /\ \A o \in Objects : obj[o].owner <=> o \in cached
  /\ \A o \in cached : ~obj[o].not_resumable
  /\ \A j, k \in DOMAIN list :
       j < k => obj[list[j]].time + obj[list[j]].timeout
                  >= obj[list[k]].time + obj[list[k]].timeout

(* A limited cache never holds as many sessions as its limit, except that  *)
(* the last one added always stays: the loop of SSL_CTX_add_session counts *)
(* a session that is in the hash table already.                            *)
CacheBounded ==
  size > 0 =>
    Len(list) <= IF size = 1 THEN 1 ELSE size - 1

(* SSL_CTX_flush_sessions stops at the first session from the tail that    *)
(* has not expired; no session in front of it has expired either.          *)
FlushLeavesNoneExpired ==
  [][\A t \in Threads :
       conn[t].pc = "connected" /\ conn'[t].pc = "flushed" =>
         \A k \in DOMAIN list' :
           obj'[list'[k]].time + obj'[list'[k]].timeout >= now]_vars

(* The comment on ssl_get_prev_session and its "Retry later": a callback   *)
(* that asks for an asynchronous lookup is called again before the         *)
(* handshake goes on.                                                      *)
PendingLookupRetried ==
  \A t \in Threads : conn[t].waiting => conn[t].pc # "handshake"
=============================================================================
