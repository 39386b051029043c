------------------------ MODULE NtlsSessCacheProofs ------------------------
(***************************************************************************)
(* Proofs about the session cache: for any number of threads, objects and  *)
(* ids, any size of the cache and any clock.                               *)
(***************************************************************************)
EXTENDS NtlsSessCache, FiniteSetTheorems, SequenceTheorems,
        WellFoundedInduction, TLAPS

(* Times, session objects and entries of the external cache.               *)
Times == 0 .. TIME_MAX

Sessions ==
  [ id : Ids \cup {NULL}, time : Times, timeout : Times,
    not_resumable : BOOLEAN, owner : BOOLEAN, references : Nat ]

Entries == [ time : Times, timeout : Times, expire : Nat ]

Memories ==
  [ obj : [Objects -> Sessions], hash : [Ids -> Objects \cup {NULL}],
    list : Seq(Objects), store : [Ids -> Entries \cup {NULL}] ]

(* Hash table, list and owner agree. The session new, if there is one, is  *)
(* on its way into the cache: in the hash table, not yet in the list.      *)
Linked(m, new) ==
  /\ \A k \in DOMAIN m.list : m.obj[m.list[k]].owner
  /\ \A o \in Objects : m.obj[o].owner =>
       /\ \E k \in DOMAIN m.list : m.list[k] = o
       /\ m.obj[o].id \in Ids /\ m.hash[m.obj[o].id] = o
       /\ ~m.obj[o].not_resumable
  /\ \A i \in Ids : m.hash[i] # NULL =>
       /\ m.obj[m.hash[i]].id = i
       /\ m.obj[m.hash[i]].owner \/ m.hash[i] = new
  /\ new # NULL =>
       /\ m.obj[new].id \in Ids /\ m.hash[m.obj[new].id] = new
       /\ ~m.obj[new].not_resumable /\ ~m.obj[new].owner

(* No session is twice in the list, and the latest to expire comes first.  *)
Expiry(o) == o.time + o.timeout

Ordered(m) ==
  \A j, k \in DOMAIN m.list :
    j < k => /\ m.list[j] # m.list[k]
             /\ Expiry(m.obj[m.list[j]]) >= Expiry(m.obj[m.list[k]])

(* The cache has one reference to each session in it, the connections have *)
(* held[o] to the object o; an object without references is unused.        *)
Counted(m, new, held) ==
  \A o \in Objects :
    /\ m.obj[o].references =
         held[o] + (IF m.obj[o].owner \/ o = new THEN 1 ELSE 0)
    /\ m.obj[o].references = 0 => m.obj[o] = Unused
    /\ m.obj[o].references > 0 => m.obj[o].id \in Ids

MemoryInv(m, new, held) ==
  /\ m \in Memories
  /\ Linked(m, new)
  /\ Ordered(m)
  /\ Counted(m, new, held)

(* The references that connections have: all of them, and the one c.       *)
Held(f) ==
  [o \in Objects |-> Cardinality({t \in Threads : f[t].session = o})
                       + Cardinality({t \in Threads : f[t].ret = o})
                       + Cardinality({t \in Threads : o \in f[t].removed})]

Holds(c, o) ==
  (IF c.session = o THEN 1 ELSE 0) + (IF c.ret = o THEN 1 ELSE 0)
    + (IF o \in c.removed THEN 1 ELSE 0)

Connections ==
  [ pc : { "idle", "callback", "store", "check", "miss", "handshake", "newCb",
           "connected", "setTimeout", "flushed", "failed", "remove",
           "removeCb", "crashed" },
    session : Objects \cup {NULL}, ret : Objects \cup {NULL},
    id : Ids \cup {NULL}, hit : BOOLEAN, waiting : BOOLEAN,
    removed : SUBSET Objects, after : {"idle", "miss", "failed"},
    timeout : Times ]

(* Where a connection is tells which references it has.                    *)
HasRet(c) ==
  c.pc \in {"store", "check"} \/ (c.pc \in {"remove", "removeCb"}
                                    /\ c.after = "miss")
HasNone(c) == c.pc \in {"idle", "callback", "miss"}

Place(c) ==
  /\ c.ret # NULL <=> HasRet(c)
  /\ c.session # NULL <=> ~HasRet(c) /\ ~HasNone(c)
  /\ c.pc \notin {"removeCb", "flushed"} => c.removed = {}
  /\ c.pc \notin {"remove", "removeCb"} => c.after = "idle"
  /\ c.pc = "callback" => c.id \in Ids

(* A session from the external cache and one that is being negotiated are  *)
(* known to their connection only, until they are added.                   *)
Private(m, c) ==
  /\ c.pc = "store" => /\ m.obj[c.ret].references = 1
                       /\ ~m.obj[c.ret].not_resumable
  /\ c.pc = "handshake" /\ ~c.hit => m.obj[c.session].references = 1

Within(m, limit) ==
  limit > 0 => Len(m.list) <= IF limit = 1 THEN 1 ELSE limit - 1

(* The inductive invariant, of a memory m and connections f.               *)
StateInv(m, f) ==
  /\ MemoryInv(m, NULL, Held(f))
  /\ f \in [Threads -> Connections]
  /\ \A t \in Threads : Place(f[t]) /\ Private(m, f[t])
  /\ Within(m, size)

CacheInv ==
  /\ size \in CacheSizes /\ now \in 1 .. MaxTime
  /\ StateInv(Memory, conn)

-----------------------------------------------------------------------------
(* Expiry.                                                                 *)

(* The remainder of a sum that went past the end once, or not at all.      *)
LEMMA Remainder ==
  ASSUME NEW n \in Nat \ {0}, NEW a \in 0 .. n - 1
  PROVE  a % n = a /\ (a + n) % n = a
OBVIOUS

(* ssl_session_calculate_timeout: the sum wraps at most once.              *)
LEMMA CalcTimeoutValue ==
  ASSUME NEW o, o.time \in Times, o.timeout \in Times
  PROVE  /\ Expiry(o) \in Nat
         /\ CalcTimeout(o) = IF Expiry(o) <= TIME_MAX THEN Expiry(o)
                             ELSE Expiry(o) - 2 * (TIME_MAX + 1)
         /\ TimeoutOvf(o) <=> Expiry(o) > TIME_MAX
<1> DEFINE n == 2 * (TIME_MAX + 1)
           e == o.time + o.timeout
<1>1. TIME_MAX \in Nat /\ n \in Nat \ {0}
  BY SessCacheAssumption
<1>2. o.time \in Nat /\ o.timeout \in Nat /\ o.time <= TIME_MAX
        /\ o.timeout <= TIME_MAX /\ e \in Nat
  BY <1>1 DEF Times
<1>3. CASE e <= TIME_MAX
  <2>1. (e + TIME_MAX + 1) % n = e + TIME_MAX + 1
    BY <1>1, <1>2, <1>3, Remainder
  <2>2. CalcTimeout(o) = e
    BY <1>1, <1>2, <2>1 DEF CalcTimeout
  <2> QED BY <1>1, <1>2, <1>3, <2>2 DEF TimeoutOvf, Expiry
<1>4. CASE e > TIME_MAX
  <2>1. (e - TIME_MAX - 1) \in 0 .. n - 1
    BY <1>1, <1>2, <1>4
  <2>2. (e - TIME_MAX - 1 + n) % n = e - TIME_MAX - 1
    BY <1>1, <2>1, Remainder
  <2>3. e - TIME_MAX - 1 + n = e + TIME_MAX + 1
    BY <1>1, <1>2
  <2>4. CalcTimeout(o) = e - n
    BY <1>1, <1>2, <2>2, <2>3 DEF CalcTimeout
  <2> QED BY <1>1, <1>2, <1>4, <2>4 DEF TimeoutOvf, Expiry
<1> QED BY <1>1, <1>2, <1>3, <1>4

(* timeoutcmp compares the true expiry, overflowed or not.                 *)
LEMMA TimeoutLessIsLess ==
  ASSUME NEW a \in Sessions, NEW b \in Sessions
  PROVE  TimeoutLess(a, b) <=> Expiry(a) < Expiry(b)
<1>1. a.time \in Times /\ a.timeout \in Times /\ b.time \in Times
        /\ b.timeout \in Times
  BY DEF Sessions
<1>2. TIME_MAX \in Nat
  BY SessCacheAssumption
<1>3. /\ Expiry(a) \in Nat
      /\ CalcTimeout(a) = IF Expiry(a) <= TIME_MAX THEN Expiry(a)
                          ELSE Expiry(a) - 2 * (TIME_MAX + 1)
      /\ TimeoutOvf(a) <=> Expiry(a) > TIME_MAX
  BY <1>1, CalcTimeoutValue
<1>4. /\ Expiry(b) \in Nat
      /\ CalcTimeout(b) = IF Expiry(b) <= TIME_MAX THEN Expiry(b)
                          ELSE Expiry(b) - 2 * (TIME_MAX + 1)
      /\ TimeoutOvf(b) <=> Expiry(b) > TIME_MAX
  BY <1>1, CalcTimeoutValue
<1>5. Expiry(a) <= TIME_MAX + TIME_MAX /\ Expiry(b) <= TIME_MAX + TIME_MAX
  BY <1>1, <1>2 DEF Expiry, Times
<1>6. CASE TimeoutOvf(a)
  BY <1>2, <1>3, <1>4, <1>5, <1>6 DEF TimeoutLess, TimeoutOvf
<1>7. CASE ~TimeoutOvf(a)
  BY <1>2, <1>3, <1>4, <1>5, <1>7 DEF TimeoutLess, TimeoutOvf
<1> QED BY <1>6, <1>7

(* A session that has not timed out expires at t or later.                 *)
LEMMA NotTimedoutExpiry ==
  ASSUME NEW a \in Sessions, NEW t \in Times, ~SessTimedout(t, a)
  PROVE  Expiry(a) >= t
<1>1. a.time \in Times /\ a.timeout \in Times
  BY DEF Sessions
<1>2. TIME_MAX \in Nat
  BY SessCacheAssumption
<1> QED BY <1>1, <1>2, CalcTimeoutValue DEF SessTimedout, Times

-----------------------------------------------------------------------------
(* Numbers and sequences.                                                  *)

(* A set of numbers that is not empty has a least one.                     *)
LEMMA Least ==
  ASSUME NEW T, T \subseteq Nat, T # {}
  PROVE  \E x \in T : \A y \in T : x <= y
<1>1. PICK x \in T : \A y \in T : ~(<<y, x>> \in OpToRel(<, Nat))
  BY WFMin, NatLessThanWellFounded
<1>2. \A y \in T : ~(y < x)
  <2> SUFFICES ASSUME NEW y \in T, y < x
               PROVE  FALSE
    OBVIOUS
  <2>1. <<y, x>> \in Nat \X Nat
    OBVIOUS
  <2>2. <<y, x>> \in OpToRel(<, Nat)
    BY <2>1, Zenon DEF OpToRel
  <2> QED BY <1>1, <2>2, Zenon
<1> QED BY <1>2

(* What is left of a sequence without the element at p.                    *)
LEMMA RemoveAtFacts ==
  ASSUME NEW S, NEW s \in Seq(S), NEW p \in DOMAIN s
  PROVE  /\ RemoveAt(s, p) \in Seq(S)
         /\ Len(RemoveAt(s, p)) = Len(s) - 1
         /\ \A k \in 1 .. Len(s) - 1 :
              RemoveAt(s, p)[k] = IF k < p THEN s[k] ELSE s[k + 1]
<1> DEFINE a == SubSeq(s, 1, p - 1)
           b == SubSeq(s, p + 1, Len(s))
<1>1. /\ Len(s) \in Nat /\ p \in 1 .. Len(s)
      /\ \A k \in 1 .. Len(s) : s[k] \in S
  BY ElementOfSeq, LenProperties
<1>2. /\ a \in Seq(S) /\ Len(a) = p - 1
      /\ \A k \in 1 .. p - 1 : a[k] = s[k]
  BY <1>1, SubSeqProperties
<1>3. /\ b \in Seq(S) /\ Len(b) = Len(s) - p
      /\ \A k \in 1 .. Len(s) - p : b[k] = s[p + k]
  BY <1>1, SubSeqProperties
<1>4. /\ a \o b \in Seq(S) /\ Len(a \o b) = Len(a) + Len(b)
      /\ \A k \in 1 .. Len(a) + Len(b) :
           (a \o b)[k] = IF k <= Len(a) THEN a[k] ELSE b[k - Len(a)]
  BY <1>2, <1>3, ConcatProperties
<1>5. RemoveAt(s, p) = a \o b
  BY DEF RemoveAt
<1> HIDE DEF a, b
<1>6. ASSUME NEW k \in 1 .. Len(s) - 1
      PROVE  (a \o b)[k] = IF k < p THEN s[k] ELSE s[k + 1]
  <2>1. CASE k < p
    BY <1>1, <1>2, <1>3, <1>4, <2>1
  <2>2. CASE ~(k < p)
    <3> DEFINE j == k - Len(a)
    <3>1. j \in 1 .. Len(s) - p /\ p + j = k + 1
      BY <1>1, <1>2, <2>2
    <3>2. k \in 1 .. Len(a) + Len(b) /\ ~(k <= Len(a))
      BY <1>1, <1>2, <1>3, <2>2
    <3>3. (a \o b)[k] = b[j]
      BY <1>4, <3>2
    <3>4. b[j] = s[p + j]
      BY <1>3, <3>1
    <3> QED BY <2>2, <3>1, <3>3, <3>4
  <2> QED BY <2>1, <2>2
<1>7. Len(a \o b) = Len(s) - 1
  BY ONLY <1>1, <1>2, <1>3, <1>4
<1> QED BY ONLY <1>4, <1>5, <1>6, <1>7

(* A sequence with x put in at p.                                          *)
LEMMA InsertAtFacts ==
  ASSUME NEW S, NEW s \in Seq(S), NEW p \in 1 .. Len(s) + 1, NEW x \in S
  PROVE  /\ InsertAt(s, p, x) \in Seq(S)
         /\ Len(InsertAt(s, p, x)) = Len(s) + 1
         /\ \A k \in 1 .. Len(s) + 1 :
              /\ k < p => InsertAt(s, p, x)[k] = s[k]
              /\ k = p => InsertAt(s, p, x)[k] = x
              /\ k > p => InsertAt(s, p, x)[k] = s[k - 1]
<1> DEFINE a == SubSeq(s, 1, p - 1)
           b == SubSeq(s, p, Len(s))
           c == a \o <<x>>
<1>1. /\ Len(s) \in Nat /\ p \in 1 .. Len(s) + 1
      /\ \A k \in 1 .. Len(s) : s[k] \in S
  BY ElementOfSeq, LenProperties
<1>2. /\ a \in Seq(S) /\ Len(a) = p - 1
      /\ \A k \in 1 .. p - 1 : a[k] = s[k]
  BY <1>1, SubSeqProperties
<1>3. /\ b \in Seq(S) /\ Len(b) = Len(s) - p + 1
      /\ \A k \in 1 .. Len(s) - p + 1 : b[k] = s[p + k - 1]
  BY <1>1, SubSeqProperties
<1>4. <<x>> \in Seq(S) /\ Len(<<x>>) = 1 /\ <<x>>[1] = x
  OBVIOUS
<1>5. /\ c \in Seq(S) /\ Len(c) = Len(a) + 1
      /\ \A k \in 1 .. Len(a) + 1 :
           c[k] = IF k <= Len(a) THEN a[k] ELSE <<x>>[k - Len(a)]
  BY <1>2, <1>4, ConcatProperties
<1>6. /\ c \o b \in Seq(S) /\ Len(c \o b) = Len(c) + Len(b)
      /\ \A k \in 1 .. Len(c) + Len(b) :
           (c \o b)[k] = IF k <= Len(c) THEN c[k] ELSE b[k - Len(c)]
  BY <1>3, <1>5, ConcatProperties
<1>7. InsertAt(s, p, x) = c \o b
  BY DEF InsertAt
<1> HIDE DEF a, b, c
<1>8. \A k \in 1 .. p : c[k] = IF k < p THEN s[k] ELSE x
  BY <1>1, <1>2, <1>4, <1>5
<1> QED BY <1>1, <1>2, <1>3, <1>5, <1>6, <1>7, <1>8

-----------------------------------------------------------------------------
(* Steps on the memory.                                                    *)

(* What two states of an object have in common when only its references    *)
(* differ.                                                                 *)
Alike(a, b) ==
  /\ a.id = b.id /\ a.time = b.time /\ a.timeout = b.timeout
  /\ a.not_resumable = b.not_resumable

(* The types of the parts.                                                 *)
LEMMA MemoryTypes ==
  ASSUME NEW m \in Memories
  PROVE  /\ m.obj \in [Objects -> Sessions]
         /\ m.hash \in [Ids -> Objects \cup {NULL}]
         /\ m.list \in Seq(Objects)
         /\ m.store \in [Ids -> Entries \cup {NULL}]
         /\ Len(m.list) \in Nat
         /\ DOMAIN m.list = 1 .. Len(m.list)
         /\ \A k \in DOMAIN m.list : m.list[k] \in Objects
         /\ \A o \in Objects :
              /\ m.obj[o] \in Sessions
              /\ m.obj[o].id \in Ids \cup {NULL}
              /\ m.obj[o].time \in Nat /\ m.obj[o].timeout \in Nat
              /\ m.obj[o].references \in Nat
              /\ m.obj[o].owner \in BOOLEAN
              /\ m.obj[o].not_resumable \in BOOLEAN
<1>1. /\ m.obj \in [Objects -> Sessions]
      /\ m.hash \in [Ids -> Objects \cup {NULL}]
      /\ m.list \in Seq(Objects)
      /\ m.store \in [Ids -> Entries \cup {NULL}]
  BY DEF Memories
<1>2. \A o \in Objects : m.obj[o] \in Sessions
  BY <1>1
<1>3. Times \subseteq Nat
  BY SessCacheAssumption DEF Times
<1>4. \A o \in Objects :
        /\ m.obj[o].id \in Ids \cup {NULL}
        /\ m.obj[o].time \in Nat /\ m.obj[o].timeout \in Nat
        /\ m.obj[o].references \in Nat
        /\ m.obj[o].owner \in BOOLEAN
        /\ m.obj[o].not_resumable \in BOOLEAN
  BY <1>2, <1>3 DEF Sessions
<1>5. /\ Len(m.list) \in Nat
      /\ DOMAIN m.list = 1 .. Len(m.list)
      /\ \A k \in DOMAIN m.list : m.list[k] \in Objects
  BY <1>1, LenProperties, ElementOfSeq
<1> QED BY <1>1, <1>2, <1>4, <1>5

(* Hash table and list stay as they are, and so do the cached objects      *)
(* apart from their references; the one on its way into the cache may get  *)
(* another time.                                                           *)
LEMMA Untouched ==
  ASSUME NEW m, NEW m2 \in Memories, NEW new, NEW held, NEW held2,
         MemoryInv(m, new, held),
         m2.hash = m.hash, m2.list = m.list,
         \A o \in Objects :
           /\ m2.obj[o].owner = m.obj[o].owner
           /\ m.obj[o].owner => Alike(m2.obj[o], m.obj[o])
           /\ o = new => /\ m2.obj[o].id = m.obj[o].id
                         /\ m2.obj[o].not_resumable = m.obj[o].not_resumable,
         new = NULL \/ new \in Objects,
         Counted(m2, new, held2)
  PROVE  MemoryInv(m2, new, held2)
<1> USE DEF MemoryInv
<1>1. Linked(m2, new)
  <2>1. \A k \in DOMAIN m2.list : m2.obj[m2.list[k]].owner
    BY MemoryTypes DEF Linked
  <2>2. ASSUME NEW o \in Objects, m2.obj[o].owner
        PROVE  /\ \E k \in DOMAIN m2.list : m2.list[k] = o
               /\ m2.obj[o].id \in Ids /\ m2.hash[m2.obj[o].id] = o
               /\ ~m2.obj[o].not_resumable
    BY <2>2 DEF Linked, Alike
  <2>3. ASSUME NEW i \in Ids, m2.hash[i] # NULL
        PROVE  /\ m2.obj[m2.hash[i]].id = i
               /\ m2.obj[m2.hash[i]].owner \/ m2.hash[i] = new
    BY <2>3, MemoryTypes DEF Linked, Alike
  <2>4. new # NULL =>
          /\ m2.obj[new].id \in Ids /\ m2.hash[m2.obj[new].id] = new
          /\ ~m2.obj[new].not_resumable /\ ~m2.obj[new].owner
    BY DEF Linked, Alike
  <2> QED BY <2>1, <2>2, <2>3, <2>4 DEF Linked
<1>2. Ordered(m2)
  BY MemoryTypes DEF Ordered, Linked, Alike, Expiry
<1> QED BY <1>1, <1>2

(* A state of the memory that differs from m in the objects only.          *)
LEMMA ObjectsOnly ==
  ASSUME NEW m \in Memories, NEW f \in [Objects -> Sessions]
  PROVE  /\ [m EXCEPT !.obj = f] \in Memories
         /\ [m EXCEPT !.obj = f].obj = f
         /\ [m EXCEPT !.obj = f].hash = m.hash
         /\ [m EXCEPT !.obj = f].list = m.list
         /\ [m EXCEPT !.obj = f].store = m.store
BY DEF Memories

(* Memory that is given back is an object like the others.                 *)
LEMMA UnusedIsSession == Unused \in Sessions
BY SessCacheAssumption DEF Unused, Sessions, Times

(* SSL_SESSION_up_ref.                                                     *)
LEMMA UpRefFields ==
  ASSUME NEW m \in Memories, NEW o \in Objects
  PROVE  LET r == UpRef(m, o) IN
         /\ r \in Memories
         /\ r.hash = m.hash /\ r.list = m.list /\ r.store = m.store
         /\ \A x \in Objects :
              /\ x # o => r.obj[x] = m.obj[x]
              /\ Alike(r.obj[x], m.obj[x])
              /\ r.obj[x].owner = m.obj[x].owner
         /\ r.obj[o].references = m.obj[o].references + 1
<1> DEFINE f == [m.obj EXCEPT ![o].references = @ + 1]
<1>1. m.obj \in [Objects -> Sessions] /\ m.obj[o] \in Sessions
        /\ m.obj[o].references \in Nat
  BY MemoryTypes
<1>2. [m.obj[o] EXCEPT !.references = @ + 1] \in Sessions
  BY <1>1 DEF Sessions
<1>3. f \in [Objects -> Sessions]
  BY <1>1, <1>2
<1>4. UpRef(m, o) = [m EXCEPT !.obj = f]
  BY DEF UpRef
<1>5. \A x \in Objects : x # o => f[x] = m.obj[x]
  BY <1>1
<1>6. /\ f[o].references = m.obj[o].references + 1
      /\ f[o].owner = m.obj[o].owner /\ Alike(f[o], m.obj[o])
  BY <1>1 DEF Sessions, Alike
<1>7. \A x \in Objects : f[x].owner = m.obj[x].owner /\ Alike(f[x], m.obj[x])
  BY <1>5, <1>6 DEF Alike
<1> HIDE DEF f
<1> QED BY <1>3, <1>4, <1>5, <1>6, <1>7, ObjectsOnly

(* SSL_SESSION_free of several objects.                                    *)
LEMMA FreeAllFields ==
  ASSUME NEW m \in Memories, NEW gone \in SUBSET Objects
  PROVE  LET r == FreeAll(m, gone) IN
         /\ r \in Memories
         /\ r.hash = m.hash /\ r.list = m.list /\ r.store = m.store
         /\ \A x \in Objects :
              /\ x \notin gone => r.obj[x] = m.obj[x]
              /\ x \in gone /\ m.obj[x].references > 1 =>
                   /\ Alike(r.obj[x], m.obj[x])
                   /\ r.obj[x].owner = m.obj[x].owner
                   /\ r.obj[x].references = m.obj[x].references - 1
              /\ x \in gone /\ ~(m.obj[x].references > 1) =>
                   r.obj[x] = Unused
<1> DEFINE one(x) == IF m.obj[x].references > 1
                     THEN [m.obj[x] EXCEPT !.references = @ - 1]
                     ELSE Unused
           f == [o \in Objects |-> IF o \in gone THEN one(o) ELSE m.obj[o]]
<1>1. m.obj \in [Objects -> Sessions]
  BY MemoryTypes
<1>2. ASSUME NEW x \in Objects
      PROVE  Free(m, x).obj[x] = one(x)
  <2>1. x # NULL
    BY SessCacheAssumption
  <2>2. m = [obj |-> m.obj, hash |-> m.hash, list |-> m.list,
             store |-> m.store]
    BY DEF Memories
  <2>3. CASE m.obj[x].references > 1
    <3>1. Free(m, x) = [m EXCEPT !.obj[x].references = @ - 1]
      BY <2>1, <2>3 DEF Free
    <3> QED BY <1>1, <2>2, <2>3, <3>1
  <2>4. CASE ~(m.obj[x].references > 1)
    <3>1. Free(m, x) = [m EXCEPT !.obj[x] = Unused]
      BY <2>1, <2>4 DEF Free
    <3> QED BY <1>1, <2>2, <2>4, <3>1
  <2> QED BY <2>3, <2>4
<1>3. FreeAll(m, gone) = [m EXCEPT !.obj = f]
  BY <1>2 DEF FreeAll
<1>4. ASSUME NEW x \in Objects
      PROVE  one(x) \in Sessions
  <2>1. m.obj[x] \in Sessions /\ m.obj[x].references \in Nat
    BY MemoryTypes
  <2>2. m.obj[x].references > 1 =>
          [m.obj[x] EXCEPT !.references = @ - 1] \in Sessions
    BY <2>1 DEF Sessions
  <2> QED BY <2>2, UnusedIsSession
<1>5. f \in [Objects -> Sessions]
  BY <1>1, <1>4
<1>6. \A x \in Objects : f[x] = IF x \in gone THEN one(x) ELSE m.obj[x]
  OBVIOUS
<1>7. ASSUME NEW x \in Objects, m.obj[x].references > 1
      PROVE  /\ Alike(one(x), m.obj[x])
             /\ one(x).owner = m.obj[x].owner
             /\ one(x).references = m.obj[x].references - 1
  BY <1>1, <1>7 DEF Alike, Sessions
<1>8. \A x \in Objects : ~(m.obj[x].references > 1) => one(x) = Unused
  OBVIOUS
<1> HIDE DEF f, one
<1> QED BY <1>3, <1>5, <1>6, <1>7, <1>8, ObjectsOnly

(* SSL_SESSION_free of one object is a special case.                       *)
LEMMA FreeOne ==
  ASSUME NEW m \in Memories, NEW o \in Objects
  PROVE  Free(m, o) = FreeAll(m, {o})
<1> DEFINE new == IF m.obj[o].references > 1
                  THEN [m.obj[o] EXCEPT !.references = @ - 1]
                  ELSE Unused
           f == [m.obj EXCEPT ![o] = new]
<1>1. m.obj \in [Objects -> Sessions] /\ o # NULL
  BY MemoryTypes, SessCacheAssumption
<1>2. m = [obj |-> m.obj, hash |-> m.hash, list |-> m.list,
           store |-> m.store]
  BY DEF Memories
<1>3. Free(m, o) = [m EXCEPT !.obj = f]
  BY <1>1 DEF Free
<1>4. Free(m, o).obj[o] = new
  BY <1>1, <1>2, <1>3
<1>5. FreeAll(m, {o}) =
        [m EXCEPT !.obj = [x \in Objects |-> IF x \in {o}
                                             THEN Free(m, x).obj[x]
                                             ELSE m.obj[x]]]
  BY DEF FreeAll
<1> HIDE DEF new
<1>6. f = [x \in Objects |-> IF x \in {o} THEN Free(m, x).obj[x]
                             ELSE m.obj[x]]
  BY <1>1, <1>4
<1> QED BY <1>3, <1>5, <1>6

(* A reference that a connection takes is counted.                         *)
LEMMA UpRefInv ==
  ASSUME NEW m, NEW new, NEW held \in [Objects -> Nat], NEW held2,
         MemoryInv(m, new, held), new = NULL \/ new \in Objects,
         NEW o \in Objects, m.obj[o].references > 0,
         held2 = [held EXCEPT ![o] = @ + 1]
  PROVE  MemoryInv(UpRef(m, o), new, held2)
<1> DEFINE r == UpRef(m, o)
<1>1. m \in Memories /\ Counted(m, new, held)
  BY DEF MemoryInv
<1>2. /\ r \in Memories /\ r.hash = m.hash /\ r.list = m.list
      /\ \A x \in Objects :
           /\ x # o => r.obj[x] = m.obj[x]
           /\ Alike(r.obj[x], m.obj[x])
           /\ r.obj[x].owner = m.obj[x].owner
      /\ r.obj[o].references = m.obj[o].references + 1
  BY <1>1, UpRefFields
<1> HIDE DEF r
<1>3. Counted(r, new, held2)
  <2> SUFFICES ASSUME NEW x \in Objects
               PROVE  /\ r.obj[x].references = held2[x]
                           + (IF r.obj[x].owner \/ x = new THEN 1 ELSE 0)
                      /\ r.obj[x].references = 0 => r.obj[x] = Unused
                      /\ r.obj[x].references > 0 => r.obj[x].id \in Ids
    BY DEF Counted
  <2>1. CASE x # o
    BY <1>1, <1>2, <2>1 DEF Counted
  <2>2. CASE x = o
    BY <1>1, <1>2, <2>2, MemoryTypes DEF Counted, Alike
  <2> QED BY <2>1, <2>2
<1>4. \A x \in Objects : /\ r.obj[x].id = m.obj[x].id
                         /\ r.obj[x].not_resumable = m.obj[x].not_resumable
  BY <1>2 DEF Alike
<1> QED BY <1>2, <1>3, <1>4, Untouched DEF r

(* The references that connections drop are counted, and an object without *)
(* any is not in the cache.                                                *)
LEMMA FreeAllInv ==
  ASSUME NEW m, NEW new, NEW held \in [Objects -> Nat], NEW held2,
         MemoryInv(m, new, held), new = NULL \/ new \in Objects,
         NEW gone \in SUBSET Objects, \A o \in gone : held[o] > 0,
         held2 = [o \in Objects |-> held[o] - (IF o \in gone THEN 1 ELSE 0)]
  PROVE  MemoryInv(FreeAll(m, gone), new, held2)
<1> DEFINE r == FreeAll(m, gone)
<1>1. m \in Memories /\ Counted(m, new, held)
  BY DEF MemoryInv
<1>2. /\ r \in Memories /\ r.hash = m.hash /\ r.list = m.list
      /\ \A x \in Objects :
           /\ x \notin gone => r.obj[x] = m.obj[x]
           /\ x \in gone /\ m.obj[x].references > 1 =>
                /\ Alike(r.obj[x], m.obj[x])
                /\ r.obj[x].owner = m.obj[x].owner
                /\ r.obj[x].references = m.obj[x].references - 1
           /\ x \in gone /\ ~(m.obj[x].references > 1) =>
                r.obj[x] = Unused
  BY <1>1, FreeAllFields
<1> HIDE DEF r
<1>3. ASSUME NEW x \in Objects
      PROVE  /\ r.obj[x].owner = m.obj[x].owner
             /\ m.obj[x].owner \/ x = new => Alike(r.obj[x], m.obj[x])
             /\ r.obj[x].references = held2[x]
                  + (IF r.obj[x].owner \/ x = new THEN 1 ELSE 0)
             /\ r.obj[x].references = 0 => r.obj[x] = Unused
             /\ r.obj[x].references > 0 => r.obj[x].id \in Ids
  <2>0. m.obj[x].references \in Nat /\ m.obj[x].owner \in BOOLEAN
    BY <1>1, MemoryTypes
  <2>1. CASE x \notin gone
    BY <1>1, <1>2, <2>1 DEF Counted, Alike
  <2>2. CASE x \in gone /\ m.obj[x].references > 1
    BY <1>1, <1>2, <2>0, <2>2 DEF Counted, Alike
  <2>3. CASE x \in gone /\ ~(m.obj[x].references > 1)
    <3>1. r.obj[x] = Unused /\ held[x] > 0
      BY <1>2, <2>3
    <3>2. held[x] = 1 /\ ~m.obj[x].owner /\ x # new
      BY <1>1, <2>0, <2>3, <3>1 DEF Counted
    <3>3. Unused.references = 0 /\ Unused.owner = FALSE
      BY DEF Unused
    <3>4. r.obj[x].owner = FALSE /\ m.obj[x].owner = FALSE
            /\ r.obj[x].references = 0
      BY <2>0, <3>1, <3>2, <3>3
    <3>5. held2[x] = 0
      BY <2>3, <3>2
    <3>6. r.obj[x].references = held2[x]
            + (IF r.obj[x].owner \/ x = new THEN 1 ELSE 0)
      BY ONLY <3>2, <3>4, <3>5
    <3>7. ~(m.obj[x].owner \/ x = new) /\ ~(r.obj[x].references > 0)
      BY ONLY <3>2, <3>4
    <3> QED BY ONLY <3>1, <3>4, <3>6, <3>7
  <2> QED BY <2>1, <2>2, <2>3
<1>4. Counted(r, new, held2)
  BY <1>3 DEF Counted
<1> QED BY <1>2, <1>3, <1>4, Untouched DEF r, Alike

(* The cached session r leaves the list; new, if there is one, takes its   *)
(* place in the hash table (remove_session_lock, SSL_CTX_add_session and   *)
(* the removal in SSL_SESSION_list_add).                                   *)
LEMMA UnlinkInv ==
  ASSUME NEW m, NEW m2 \in Memories, NEW new, NEW held, NEW held2,
         MemoryInv(m, NULL, held),
         NEW r \in Objects, m.obj[r].owner,
         NEW p \in DOMAIN m.list, m.list[p] = r,
         m2.list = RemoveAt(m.list, p),
         \A i \in Ids : i # m.obj[r].id => m2.hash[i] = m.hash[i],
         m2.hash[m.obj[r].id] = new,
         new = NULL \/ new \in Objects,
         new # NULL => /\ m2.obj[new].id = m.obj[r].id
                       /\ ~m2.obj[new].not_resumable /\ ~m2.obj[new].owner,
         ~m2.obj[r].owner,
         \A o \in Objects : o # r =>
           /\ m2.obj[o].owner = m.obj[o].owner
           /\ m.obj[o].owner => Alike(m2.obj[o], m.obj[o]),
         Counted(m2, new, held2)
  PROVE  /\ MemoryInv(m2, new, held2)
         /\ Len(m2.list) = Len(m.list) - 1
<1> DEFINE at(k) == IF k < p THEN k ELSE k + 1
<1>1. m \in Memories /\ Linked(m, NULL) /\ Ordered(m)
  BY DEF MemoryInv
<1>2. /\ Len(m.list) \in Nat /\ DOMAIN m.list = 1 .. Len(m.list)
      /\ \A k \in DOMAIN m.list : m.list[k] \in Objects
      /\ m.list \in Seq(Objects)
      /\ Len(m2.list) \in Nat /\ DOMAIN m2.list = 1 .. Len(m2.list)
      /\ m.obj[r].id \in Ids
  <2>1. m.obj[r].id \in Ids
    BY <1>1 DEF Linked
  <2>2. Len(m2.list) \in Nat /\ DOMAIN m2.list = 1 .. Len(m2.list)
    BY MemoryTypes
  <2> QED BY <1>1, <2>1, <2>2, MemoryTypes
<1>3. /\ Len(m2.list) = Len(m.list) - 1
      /\ \A k \in 1 .. Len(m.list) - 1 : m2.list[k] = m.list[at(k)]
  <2>1. /\ Len(m2.list) = Len(m.list) - 1
        /\ \A k \in 1 .. Len(m.list) - 1 :
             m2.list[k] = IF k < p THEN m.list[k] ELSE m.list[k + 1]
    BY ONLY <1>2, RemoveAtFacts, p \in DOMAIN m.list,
            m2.list = RemoveAt(m.list, p)
  <2> QED BY ONLY <2>1
<1>4. \A k \in DOMAIN m2.list :
        at(k) \in DOMAIN m.list /\ at(k) # p /\ m2.list[k] = m.list[at(k)]
  <2>1. p \in 1 .. Len(m.list)
    BY <1>2
  <2>2. \A k \in 1 .. Len(m.list) - 1 : at(k) \in 1 .. Len(m.list) /\ at(k) # p
    BY <1>2, <2>1
  <2> HIDE DEF at
  <2> QED BY <1>2, <1>3, <2>2
<1>5. \A j \in DOMAIN m.list : j # p => m.list[j] # r
  BY <1>1, <1>2 DEF Ordered
<1>6. \A k \in DOMAIN m2.list : m2.list[k] # r /\ m2.list[k] \in Objects
  <2> HIDE DEF at
  <2> QED BY ONLY <1>2, <1>4, <1>5
<1>7. Linked(m2, new)
  <2>1. \A k \in DOMAIN m2.list : m2.obj[m2.list[k]].owner
    BY <1>1, <1>4, <1>6 DEF Linked
  <2>2. ASSUME NEW o \in Objects, m2.obj[o].owner
        PROVE  /\ \E k \in DOMAIN m2.list : m2.list[k] = o
               /\ m2.obj[o].id \in Ids /\ m2.hash[m2.obj[o].id] = o
               /\ ~m2.obj[o].not_resumable
    <3>1. o # r /\ m.obj[o].owner /\ Alike(m2.obj[o], m.obj[o])
      BY <2>2
    <3>2. PICK j \in DOMAIN m.list : m.list[j] = o
      BY <1>1, <3>1 DEF Linked
    <3>3. j # p
      BY <3>1, <3>2
    <3>4. PICK k \in DOMAIN m2.list : at(k) = j
      <4>1. CASE j < p
        <5>1. j \in DOMAIN m2.list /\ at(j) = j
          BY <1>2, <1>3, <4>1
        <5> QED BY <5>1
      <4>2. CASE ~(j < p)
        <5>1. j - 1 \in DOMAIN m2.list /\ at(j - 1) = j
          BY <1>2, <1>3, <3>3, <4>2
        <5> QED BY <5>1
      <4> QED BY <4>1, <4>2
    <3>5. m2.list[k] = o
      BY <1>4, <3>2, <3>4
    <3>6. m.obj[o].id # m.obj[r].id
      BY <1>1, <3>1 DEF Linked
    <3> QED BY <1>1, <3>1, <3>5, <3>6 DEF Linked, Alike
  <2>3. ASSUME NEW i \in Ids, m2.hash[i] # NULL
        PROVE  /\ m2.obj[m2.hash[i]].id = i
               /\ m2.obj[m2.hash[i]].owner \/ m2.hash[i] = new
    <3>1. CASE i = m.obj[r].id
      BY <2>3, <3>1
    <3>2. CASE i # m.obj[r].id
      <4>1. m2.hash[i] = m.hash[i] /\ m.hash[i] \in Objects
        BY <1>1, <2>3, <3>2, MemoryTypes
      <4>2. m.obj[m.hash[i]].id = i /\ m.obj[m.hash[i]].owner
        BY <1>1, <2>3, <4>1 DEF Linked
      <4> QED BY <3>2, <4>1, <4>2 DEF Alike
    <3> QED BY <3>1, <3>2
  <2>4. new # NULL =>
          /\ m2.obj[new].id \in Ids /\ m2.hash[m2.obj[new].id] = new
          /\ ~m2.obj[new].not_resumable /\ ~m2.obj[new].owner
    BY <1>2
  <2> QED BY <2>1, <2>2, <2>3, <2>4 DEF Linked
<1>8. Ordered(m2)
  <2> SUFFICES ASSUME NEW j \in DOMAIN m2.list, NEW k \in DOMAIN m2.list, j < k
               PROVE  /\ m2.list[j] # m2.list[k]
                      /\ Expiry(m2.obj[m2.list[j]])
                           >= Expiry(m2.obj[m2.list[k]])
    BY DEF Ordered
  <2>1. at(j) < at(k)
    BY <1>2, <1>3
  <2>2. /\ m.list[at(j)] # m.list[at(k)]
        /\ Expiry(m.obj[m.list[at(j)]]) >= Expiry(m.obj[m.list[at(k)]])
    BY <1>1, <1>4, <2>1 DEF Ordered
  <2>3. \A l \in DOMAIN m2.list :
          Expiry(m2.obj[m2.list[l]]) = Expiry(m.obj[m.list[at(l)]])
    <3> HIDE DEF at
    <3> QED BY <1>1, <1>4, <1>6 DEF Linked, Alike, Expiry
  <2> QED BY <1>4, <2>2, <2>3
<1> QED BY <1>3, <1>7, <1>8 DEF MemoryInv

(* A session whose id is not in the hash table goes there first.           *)
LEMMA AnnounceInv ==
  ASSUME NEW m, NEW m2 \in Memories, NEW new \in Objects, NEW held, NEW held2,
         MemoryInv(m, NULL, held),
         m2.list = m.list,
         m.hash[m2.obj[new].id] = NULL, m2.obj[new].id \in Ids,
         \A i \in Ids : i # m2.obj[new].id => m2.hash[i] = m.hash[i],
         m2.hash[m2.obj[new].id] = new,
         ~m2.obj[new].not_resumable,
         \A o \in Objects :
           /\ m2.obj[o].owner = m.obj[o].owner
           /\ m.obj[o].owner => Alike(m2.obj[o], m.obj[o]),
         ~m2.obj[new].owner,
         Counted(m2, new, held2)
  PROVE  MemoryInv(m2, new, held2)
<1>1. m \in Memories /\ Linked(m, NULL) /\ Ordered(m)
  BY DEF MemoryInv
<1>2. Linked(m2, new)
  <2>1. \A k \in DOMAIN m2.list : m2.obj[m2.list[k]].owner
    BY <1>1, MemoryTypes DEF Linked
  <2>2. ASSUME NEW o \in Objects, m2.obj[o].owner
        PROVE  /\ \E k \in DOMAIN m2.list : m2.list[k] = o
               /\ m2.obj[o].id \in Ids /\ m2.hash[m2.obj[o].id] = o
               /\ ~m2.obj[o].not_resumable
    <3>1. m.obj[o].owner /\ Alike(m2.obj[o], m.obj[o]) /\ o # NULL
      BY <2>2, SessCacheAssumption
    <3> QED BY <1>1, <3>1 DEF Linked, Alike
  <2>3. ASSUME NEW i \in Ids, m2.hash[i] # NULL
        PROVE  /\ m2.obj[m2.hash[i]].id = i
               /\ m2.obj[m2.hash[i]].owner \/ m2.hash[i] = new
    <3>1. CASE i = m2.obj[new].id
      BY <3>1
    <3>2. CASE i # m2.obj[new].id
      <4>1. m2.hash[i] = m.hash[i] /\ m.hash[i] \in Objects
        BY <1>1, <2>3, <3>2, MemoryTypes
      <4>2. m.obj[m.hash[i]].id = i /\ m.obj[m.hash[i]].owner
        BY <1>1, <2>3, <4>1 DEF Linked
      <4> QED BY <4>1, <4>2 DEF Alike
    <3> QED BY <3>1, <3>2
  <2> QED BY <2>1, <2>2, <2>3 DEF Linked
<1>3. Ordered(m2)
  BY <1>1, MemoryTypes DEF Ordered, Linked, Alike, Expiry
<1> QED BY <1>2, <1>3 DEF MemoryInv

(* SSL_SESSION_list_add: all sessions in front of the place found for o    *)
(* expire after it, and none behind it does.                               *)
LEMMA InsertPlace ==
  ASSUME NEW m \in Memories, Ordered(m), NEW o \in Objects
  PROVE  LET p == InsertPosition(m, o) IN
         /\ p \in 1 .. Len(m.list) + 1
         /\ \A k \in DOMAIN m.list :
              /\ k < p => Expiry(m.obj[m.list[k]]) > Expiry(m.obj[o])
              /\ k >= p => Expiry(m.obj[m.list[k]]) <= Expiry(m.obj[o])
<1> DEFINE p == InsertPosition(m, o)
           n == Len(m.list)
           e(k) == Expiry(m.obj[m.list[k]])
           x == Expiry(m.obj[o])
           before(y) == TimeoutLess(m.obj[o], m.obj[y])
           Q(k) == ~before(m.list[k]) /\ \A j \in 2 .. k - 1 : before(m.list[j])
<1>1. /\ n \in Nat /\ DOMAIN m.list = 1 .. n /\ m.list \in Seq(Objects)
      /\ \A k \in 1 .. n : m.list[k] \in Objects
      /\ \A y \in Objects : m.obj[y] \in Sessions
                              /\ Expiry(m.obj[y]) \in Nat
  BY MemoryTypes DEF Expiry
<1>2. \A k \in 1 .. n : before(m.list[k]) <=> x < e(k)
  BY <1>1, TimeoutLessIsLess
<1>3. /\ x \in Nat /\ \A k \in 1 .. n : e(k) \in Nat
      /\ \A j, k \in 1 .. n : j < k => e(j) >= e(k)
  BY <1>1 DEF Ordered
<1>4. n > 0 => Head(m.list) = m.list[1] /\ Last(m.list) = m.list[n]
  BY <1>1, HeadTailProperties, EmptySeq DEF Last
<1>5. n = 0 <=> m.list = << >>
  BY <1>1, EmptySeq
<1>6. p = IF m.list = << >> \/ ~before(Head(m.list)) THEN 1
          ELSE IF before(Last(m.list)) THEN n + 1
          ELSE CHOOSE k \in 2 .. n : Q(k)
  BY DEF InsertPosition
<1> HIDE DEF p, n, x, e, before, Q
<1> SUFFICES /\ p \in 1 .. n + 1
             /\ \A k \in 1 .. n : /\ k < p => e(k) > x
                                  /\ k >= p => e(k) <= x
  BY <1>1 DEF p, n, e, x
<1>7. CASE n = 0
  BY <1>5, <1>6, <1>7
<1>8. CASE n > 0 /\ ~before(m.list[1])
  <2>1. p = 1
    BY <1>4, <1>6, <1>8
  <2>2. \A k \in 1 .. n : e(k) <= e(1)
    BY <1>1, <1>3, <1>8
  <2>3. ~(x < e(1))
    BY <1>1, <1>2, <1>8
  <2> QED BY <1>1, <1>3, <1>8, <2>1, <2>2, <2>3
<1>9. CASE n > 0 /\ before(m.list[1]) /\ before(m.list[n])
  <2>1. p = n + 1
    BY <1>1, <1>4, <1>5, <1>6, <1>9
  <2>2. \A k \in 1 .. n : e(k) >= e(n)
    BY <1>1, <1>3, <1>9
  <2>3. x < e(n)
    BY <1>1, <1>2, <1>9
  <2> QED BY <1>1, <1>3, <1>9, <2>1, <2>2, <2>3
<1>10. CASE n > 0 /\ before(m.list[1]) /\ ~before(m.list[n])
  <2>1. p = CHOOSE k \in 2 .. n : Q(k)
    BY <1>1, <1>4, <1>5, <1>6, <1>10
  <2>2. \E k \in 2 .. n : Q(k)
    <3> DEFINE T == {k \in 2 .. n : ~before(m.list[k])}
    <3>1. n # 1
      BY <1>10
    <3>2. n \in T /\ T \subseteq Nat
      BY <1>1, <1>10, <3>1
    <3>3. PICK k \in T : \A j \in T : k <= j
      BY <3>2, Least
    <3>4. \A j \in 2 .. k - 1 : before(m.list[j])
      BY <1>1, <3>3
    <3> QED BY <3>3, <3>4 DEF Q
  <2>3. p \in 2 .. n /\ Q(p)
    BY <2>1, <2>2
  <2>4. ASSUME NEW k \in 1 .. n, k < p
        PROVE  e(k) > x
    <3>1. before(m.list[k])
      <4>1. k = 1 \/ k \in 2 .. p - 1
        BY <1>1, <2>3, <2>4
      <4> QED BY <1>10, <2>3, <4>1 DEF Q
    <3> QED BY <1>2, <1>3, <3>1
  <2>5. ASSUME NEW k \in 1 .. n, k >= p
        PROVE  e(k) <= x
    <3>1. ~(x < e(p)) /\ p \in 1 .. n
      BY <1>1, <1>2, <2>3 DEF Q
    <3>2. e(k) <= e(p)
      BY <1>1, <1>3, <2>5, <3>1
    <3> QED BY <1>3, <3>1, <3>2
  <2> QED BY <1>1, <2>3, <2>4, <2>5
<1> QED BY <1>1, <1>7, <1>8, <1>9, <1>10

(* The session on its way into the cache gets its place in the list.       *)
LEMMA InsertInv ==
  ASSUME NEW m, NEW m2 \in Memories, NEW c \in Objects, NEW held,
         MemoryInv(m, c, held),
         m2.list = InsertAt(m.list, InsertPosition(m, c), c),
         m2.hash = m.hash,
         m2.obj[c].owner,
         m2.obj[c].references = m.obj[c].references,
         \A o \in Objects : /\ o # c => m2.obj[o] = m.obj[o]
                            /\ Alike(m2.obj[o], m.obj[o])
  PROVE  /\ MemoryInv(m2, NULL, held)
         /\ Len(m2.list) = Len(m.list) + 1
<1> DEFINE p == InsertPosition(m, c)
           at(k) == IF k < p THEN k ELSE k - 1
<1>0. m \in Memories /\ Linked(m, c) /\ Ordered(m) /\ Counted(m, c, held)
  BY DEF MemoryInv
<1>1. /\ Len(m.list) \in Nat /\ DOMAIN m.list = 1 .. Len(m.list)
      /\ \A k \in DOMAIN m.list : m.list[k] \in Objects
      /\ m.list \in Seq(Objects)
  BY <1>0, MemoryTypes
<1>2. Len(m2.list) \in Nat /\ DOMAIN m2.list = 1 .. Len(m2.list)
  BY MemoryTypes
<1>3. /\ p \in 1 .. Len(m.list) + 1
      /\ \A k \in DOMAIN m.list :
           /\ k < p => Expiry(m.obj[m.list[k]]) > Expiry(m.obj[c])
           /\ k >= p => Expiry(m.obj[m.list[k]]) <= Expiry(m.obj[c])
  BY <1>0, InsertPlace
<1>4. m2.list = InsertAt(m.list, p, c)
  OBVIOUS
<1> HIDE DEF p
<1>5. /\ Len(m2.list) = Len(m.list) + 1
      /\ \A k \in 1 .. Len(m.list) + 1 :
           /\ k < p => m2.list[k] = m.list[k]
           /\ k = p => m2.list[k] = c
           /\ k > p => m2.list[k] = m.list[k - 1]
  <2> DEFINE s == m.list
  <2>1. s \in Seq(Objects) /\ p \in 1 .. Len(s) + 1
    BY <1>1, <1>3
  <2> HIDE DEF s
  <2>2. /\ Len(InsertAt(s, p, c)) = Len(s) + 1
        /\ \A k \in 1 .. Len(s) + 1 :
             /\ k < p => InsertAt(s, p, c)[k] = s[k]
             /\ k = p => InsertAt(s, p, c)[k] = c
             /\ k > p => InsertAt(s, p, c)[k] = s[k - 1]
    BY ONLY <2>1, c \in Objects, InsertAtFacts
  <2> QED BY ONLY <1>4, <2>2 DEF s
<1>6. /\ p \in DOMAIN m2.list /\ m2.list[p] = c
      /\ \A k \in DOMAIN m2.list :
           k # p => at(k) \in DOMAIN m.list /\ m2.list[k] = m.list[at(k)]
  <2>1. p \in DOMAIN m2.list /\ m2.list[p] = c
    BY ONLY <1>1, <1>2, <1>3, <1>5
  <2>2. ASSUME NEW k \in DOMAIN m2.list, k # p
        PROVE  at(k) \in DOMAIN m.list /\ m2.list[k] = m.list[at(k)]
    BY ONLY <1>1, <1>2, <1>3, <1>5, <2>2, k \in DOMAIN m2.list
  <2> QED BY <2>1, <2>2
<1>7. \A k \in DOMAIN m.list : m.list[k] # c
  BY <1>0, SessCacheAssumption DEF Linked
<1>8. \A k \in DOMAIN m.list :
        \E l \in DOMAIN m2.list : l # p /\ m2.list[l] = m.list[k]
  <2> SUFFICES ASSUME NEW k \in DOMAIN m.list
               PROVE  \E l \in DOMAIN m2.list : l # p /\ m2.list[l] = m.list[k]
    OBVIOUS
  <2>1. CASE k < p
    <3>1. k \in DOMAIN m2.list /\ k # p /\ m2.list[k] = m.list[k]
      BY ONLY <1>1, <1>2, <1>3, <1>5, <2>1, k \in DOMAIN m.list
    <3> QED BY <3>1
  <2>2. CASE ~(k < p)
    <3>1. k + 1 \in DOMAIN m2.list /\ k + 1 # p /\ m2.list[k + 1] = m.list[k]
      <4>1. /\ k + 1 \in 1 .. Len(m.list) + 1 /\ k + 1 > p
            /\ (k + 1) - 1 = k
        BY ONLY <1>1, <1>3, <2>2, k \in DOMAIN m.list
      <4>2. m2.list[k + 1] = m.list[(k + 1) - 1]
        BY ONLY <1>5, <4>1
      <4>3. k + 1 # p
        BY ONLY <1>1, <1>3, <4>1, k \in DOMAIN m.list
      <4> QED BY ONLY <1>2, <1>5, <4>1, <4>2, <4>3
    <3> QED BY <3>1
  <2> QED BY <2>1, <2>2
<1>9. c # NULL /\ \A o \in Objects : o # NULL
  BY SessCacheAssumption
<1>10. Linked(m2, NULL)
  <2>1. \A k \in DOMAIN m2.list : m2.obj[m2.list[k]].owner
    <3> HIDE DEF at
    <3> QED BY <1>0, <1>1, <1>6, <1>7 DEF Linked
  <2>2. ASSUME NEW o \in Objects, m2.obj[o].owner
        PROVE  /\ \E k \in DOMAIN m2.list : m2.list[k] = o
               /\ m2.obj[o].id \in Ids /\ m2.hash[m2.obj[o].id] = o
               /\ ~m2.obj[o].not_resumable
    <3>1. CASE o = c
      BY <1>0, <1>6, <1>9, <3>1 DEF Linked, Alike
    <3>2. CASE o # c
      <4>1. m2.obj[o] = m.obj[o] /\ m.obj[o].owner
        BY <2>2, <3>2
      <4>2. \E k \in DOMAIN m.list : m.list[k] = o
        BY <1>0, <4>1 DEF Linked
      <4>3. \E k \in DOMAIN m2.list : m2.list[k] = o
        BY <1>8, <4>2
      <4> QED BY <1>0, <4>1, <4>3 DEF Linked
    <3> QED BY <3>1, <3>2
  <2>3. ASSUME NEW i \in Ids, m2.hash[i] # NULL
        PROVE  /\ m2.obj[m2.hash[i]].id = i
               /\ m2.obj[m2.hash[i]].owner \/ m2.hash[i] = NULL
    <3>1. m.hash[i] \in Objects
      BY <1>0, <2>3, MemoryTypes
    <3> QED BY <1>0, <2>3, <3>1 DEF Linked, Alike
  <2> QED BY <2>1, <2>2, <2>3 DEF Linked
<1>11. Ordered(m2)
  <2> SUFFICES ASSUME NEW j \in DOMAIN m2.list, NEW k \in DOMAIN m2.list, j < k
               PROVE  /\ m2.list[j] # m2.list[k]
                      /\ Expiry(m2.obj[m2.list[j]])
                           >= Expiry(m2.obj[m2.list[k]])
    BY DEF Ordered
  <2>1. \A l \in DOMAIN m2.list : m2.list[l] \in Objects
    BY MemoryTypes
  <2>2. \A o \in Objects : /\ Expiry(m2.obj[o]) = Expiry(m.obj[o])
                           /\ Expiry(m.obj[o]) \in Nat
    BY <1>0, MemoryTypes DEF Alike, Expiry
  <2>3. CASE j # p /\ k # p
    <3>1. at(j) < at(k)
      BY ONLY <1>1, <1>2, <1>3, <2>3, j < k, j \in DOMAIN m2.list,
              k \in DOMAIN m2.list
    <3> HIDE DEF at
    <3> QED BY <1>0, <1>6, <2>1, <2>2, <2>3, <3>1 DEF Ordered
  <2>4. CASE j = p
    <3>1. k # p /\ at(k) >= p
      BY ONLY <1>1, <1>2, <1>3, <2>4, j < k, k \in DOMAIN m2.list
    <3> HIDE DEF at
    <3> QED BY <1>1, <1>3, <1>6, <1>7, <2>2, <2>4, <3>1
  <2>5. CASE k = p
    <3>1. j # p /\ at(j) < p
      BY ONLY <1>1, <1>2, <1>3, <2>5, j < k, j \in DOMAIN m2.list
    <3> HIDE DEF at
    <3> QED BY <1>1, <1>3, <1>6, <1>7, <2>2, <2>5, <3>1
  <2> QED BY <2>3, <2>4, <2>5
<1>12. Counted(m2, NULL, held)
  <2> SUFFICES ASSUME NEW x \in Objects
               PROVE  /\ m2.obj[x].references = held[x]
                           + (IF m2.obj[x].owner \/ x = NULL THEN 1 ELSE 0)
                      /\ m2.obj[x].references = 0 => m2.obj[x] = Unused
                      /\ m2.obj[x].references > 0 => m2.obj[x].id \in Ids
    BY DEF Counted
  <2>1. CASE x # c
    BY <1>0, <1>9, <2>1 DEF Counted
  <2>2. CASE x = c
    <3>1. m.obj[c].references = held[c] + 1 /\ m.obj[c].id \in Ids
      BY <1>0, <1>9 DEF Counted, Linked
    <3>2. m.obj[c].references # 0
      <4>1. m.obj[c].references = 0 => m.obj[c] = Unused
        BY <1>0 DEF Counted
      <4>2. Unused.id = NULL /\ NULL \notin Ids
        BY SessCacheAssumption DEF Unused
      <4> QED BY <3>1, <4>1, <4>2
    <3> QED BY <2>2, <3>1, <3>2 DEF Alike
  <2> QED BY <2>1, <2>2
<1> QED BY <1>5, <1>10, <1>11, <1>12 DEF MemoryInv

(* The eviction of SSL_CTX_add_session and SSL_CTX_flush_sessions: the     *)
(* references of the cache to the sessions that leave it pass to the       *)
(* thread that removed them.                                               *)
LEMMA DiscardInv ==
  ASSUME NEW m, NEW new, NEW held \in [Objects -> Nat], NEW held2,
         MemoryInv(m, new, held), new = NULL \/ new \in Objects,
         NEW keep \in 0 .. Len(m.list),
         held2 = [o \in Objects |->
                    held[o] + (IF o \in Behind(m, keep) THEN 1 ELSE 0)]
  PROVE  /\ MemoryInv(Discard(m, keep), new, held2)
         /\ Discard(m, keep).list = SubSeq(m.list, 1, keep)
         /\ Len(Discard(m, keep).list) = keep
         /\ \A k \in 1 .. keep : Discard(m, keep).list[k] = m.list[k]
         /\ Behind(m, keep) \in SUBSET Objects
         /\ \A o \in Behind(m, keep) : m.obj[o].owner
         /\ \A o \in Objects : o \notin Behind(m, keep) =>
                                 Discard(m, keep).obj[o] = m.obj[o]
<1> DEFINE gone == Behind(m, keep)
           r == Discard(m, keep)
           n == Len(m.list)
<1>0. m \in Memories /\ Linked(m, new) /\ Ordered(m) /\ Counted(m, new, held)
  BY DEF MemoryInv
<1>1. /\ n \in Nat /\ DOMAIN m.list = 1 .. n
      /\ \A k \in 1 .. n : m.list[k] \in Objects
      /\ m.list \in Seq(Objects) /\ keep \in 0 .. n
  BY <1>0, MemoryTypes
<1>2. \A o : o \in gone <=> \E k \in keep + 1 .. n : m.list[k] = o
  BY DEF Behind
<1>3. \A o \in gone : o \in Objects /\ m.obj[o].owner
  <2>1. \A k \in keep + 1 .. n : k \in 1 .. n
    BY ONLY <1>1
  <2>2. \A k \in 1 .. n : m.obj[m.list[k]].owner
    BY <1>0, <1>1 DEF Linked
  <2> HIDE DEF gone, n
  <2> QED BY ONLY <1>1, <1>2, <2>1, <2>2
<1>4. r.obj = [o \in Objects |->
                 IF o \in gone
                 THEN [m.obj[o] EXCEPT !.not_resumable = TRUE, !.owner = FALSE]
                 ELSE m.obj[o]]
  BY DEF Discard
<1>14. r.hash = [i \in Ids |-> IF m.hash[i] \in gone THEN NULL ELSE m.hash[i]]
  BY DEF Discard
<1>15. r.list = SubSeq(m.list, 1, keep)
  BY DEF Discard
<1>16. r.store = [i \in Ids |-> IF \E o \in gone : m.obj[o].id = i
                               THEN NULL ELSE m.store[i]]
  BY DEF Discard
<1>17. r = [obj |-> r.obj, hash |-> r.hash, list |-> r.list,
            store |-> r.store]
  BY DEF Discard
<1> HIDE DEF gone, r, n
<1>5. /\ r.list \in Seq(Objects) /\ Len(r.list) = keep
      /\ DOMAIN r.list = 1 .. keep
      /\ \A k \in 1 .. keep : r.list[k] = m.list[k] /\ k \in 1 .. n
  <2>1. \A k \in 1 .. keep : k \in 1 .. n /\ m.list[k] \in Objects
    BY ONLY <1>1
  <2>2. /\ r.list \in Seq(Objects) /\ Len(r.list) = keep
        /\ \A k \in 1 .. keep : r.list[k] = m.list[k]
    BY ONLY <1>1, <1>15, <2>1, SubSeqProperties
  <2> QED BY <2>1, <2>2, LenProperties
<1>6. \A o \in Objects : /\ m.obj[o] \in Sessions
                         /\ m.obj[o].references \in Nat
                         /\ m.obj[o].owner \in BOOLEAN
  BY <1>0, MemoryTypes
<1>7. \A o \in Objects :
        /\ o \notin gone => r.obj[o] = m.obj[o]
        /\ o \in gone => /\ r.obj[o] \in Sessions
                         /\ ~r.obj[o].owner
                         /\ r.obj[o].id = m.obj[o].id
                         /\ r.obj[o].references = m.obj[o].references
  <2>1. ASSUME NEW o \in Objects
        PROVE  LET q == [m.obj[o] EXCEPT !.not_resumable = TRUE,
                                         !.owner = FALSE]
               IN /\ q \in Sessions /\ ~q.owner
                  /\ q.id = m.obj[o].id
                  /\ q.references = m.obj[o].references
    BY <1>6 DEF Sessions
  <2> QED BY ONLY <1>4, <2>1
<1>8. r \in Memories
  <2>1. r.obj \in [Objects -> Sessions]
    <3>1. \A o \in Objects : r.obj[o] \in Sessions
      BY <1>6, <1>7
    <3> QED BY <1>4, <3>1
  <2>2. r.hash \in [Ids -> Objects \cup {NULL}]
    <3>1. m.hash \in [Ids -> Objects \cup {NULL}]
      BY <1>0, MemoryTypes
    <3> QED BY ONLY <1>14, <3>1
  <2>3. r.store \in [Ids -> Entries \cup {NULL}]
    <3>1. m.store \in [Ids -> Entries \cup {NULL}]
      BY <1>0, MemoryTypes
    <3> QED BY ONLY <1>16, <3>1
  <2> QED BY ONLY <1>5, <1>17, <2>1, <2>2, <2>3 DEF Memories
<1>9. \A k \in 1 .. keep : m.list[k] \notin gone
  <2> SUFFICES ASSUME NEW k \in 1 .. keep, m.list[k] \in gone
               PROVE  FALSE
    OBVIOUS
  <2>1. PICK j \in keep + 1 .. n : m.list[j] = m.list[k]
    BY <1>2
  <2>2. k < j /\ j \in DOMAIN m.list /\ k \in DOMAIN m.list
    BY <1>1
  <2> QED BY <1>0, <2>1, <2>2 DEF Ordered
<1>10. Linked(r, new)
  <2>1. \A k \in DOMAIN r.list : r.obj[r.list[k]].owner
    <3>1. \A k \in 1 .. n : m.obj[m.list[k]].owner
      BY <1>0, <1>1 DEF Linked
    <3>2. \A k \in 1 .. keep : r.obj[r.list[k]] = m.obj[m.list[k]]
      BY ONLY <1>1, <1>5, <1>7, <1>9
    <3> QED BY ONLY <1>5, <3>1, <3>2
  <2>2. ASSUME NEW o \in Objects, r.obj[o].owner
        PROVE  /\ \E k \in DOMAIN r.list : r.list[k] = o
               /\ r.obj[o].id \in Ids /\ r.hash[r.obj[o].id] = o
               /\ ~r.obj[o].not_resumable
    <3>1. o \notin gone /\ r.obj[o] = m.obj[o] /\ m.obj[o].owner
      BY <1>7, <2>2
    <3>2. /\ m.obj[o].id \in Ids /\ m.hash[m.obj[o].id] = o
          /\ ~m.obj[o].not_resumable
      BY <1>0, <3>1 DEF Linked
    <3>3. PICK k \in DOMAIN m.list : m.list[k] = o
      BY <1>0, <3>1 DEF Linked
    <3>4. k \in 1 .. keep
      BY <1>1, <1>2, <3>1, <3>3
    <3>5. k \in DOMAIN r.list /\ r.list[k] = o
      BY <1>5, <3>3, <3>4
    <3> QED BY <1>14, <3>1, <3>2, <3>5
  <2>3. ASSUME NEW i \in Ids, r.hash[i] # NULL
        PROVE  /\ r.obj[r.hash[i]].id = i
               /\ r.obj[r.hash[i]].owner \/ r.hash[i] = new
    <3>1. r.hash[i] = m.hash[i] /\ m.hash[i] \notin gone
      BY <1>14, <2>3
    <3>2. m.hash[i] \in Objects
      BY <1>0, <2>3, <3>1, MemoryTypes
    <3> QED BY <1>0, <1>7, <2>3, <3>1, <3>2 DEF Linked
  <2>4. ASSUME new # NULL
        PROVE  /\ r.obj[new].id \in Ids /\ r.hash[r.obj[new].id] = new
               /\ ~r.obj[new].not_resumable /\ ~r.obj[new].owner
    <3>1. /\ m.obj[new].id \in Ids /\ m.hash[m.obj[new].id] = new
          /\ ~m.obj[new].not_resumable /\ ~m.obj[new].owner
      BY <1>0, <2>4 DEF Linked
    <3>2. new \notin gone /\ r.obj[new] = m.obj[new]
      BY <1>3, <1>7, <2>4, <3>1
    <3> QED BY <1>14, <3>1, <3>2
  <2> QED BY <2>1, <2>2, <2>3, <2>4 DEF Linked
<1>11. Ordered(r)
  <2>1. \A k \in 1 .. keep : r.obj[r.list[k]] = m.obj[m.list[k]]
    BY <1>1, <1>5, <1>7, <1>9
  <2> SUFFICES ASSUME NEW j \in 1 .. keep, NEW k \in 1 .. keep, j < k
               PROVE  /\ r.list[j] # r.list[k]
                      /\ Expiry(r.obj[r.list[j]]) >= Expiry(r.obj[r.list[k]])
    BY <1>5 DEF Ordered
  <2>2. j \in DOMAIN m.list /\ k \in DOMAIN m.list
    BY <1>1, <1>5
  <2>3. /\ m.list[j] # m.list[k]
        /\ Expiry(m.obj[m.list[j]]) >= Expiry(m.obj[m.list[k]])
    BY <1>0, <2>2 DEF Ordered
  <2> QED BY <1>5, <2>1, <2>3
<1>12. Counted(r, new, held2)
  <2> SUFFICES ASSUME NEW x \in Objects
               PROVE  /\ r.obj[x].references = held2[x]
                           + (IF r.obj[x].owner \/ x = new THEN 1 ELSE 0)
                      /\ r.obj[x].references = 0 => r.obj[x] = Unused
                      /\ r.obj[x].references > 0 => r.obj[x].id \in Ids
    BY DEF Counted
  <2>0. held2[x] = held[x] + (IF x \in gone THEN 1 ELSE 0)
    BY DEF gone
  <2>1. CASE x \notin gone
    <3>1. r.obj[x] = m.obj[x] /\ held2[x] = held[x]
      BY <1>7, <2>0, <2>1
    <3> QED BY <1>0, <3>1 DEF Counted
  <2>2. CASE x \in gone
    <3>1. m.obj[x].owner /\ x # new
      BY <1>0, <1>3, <2>2, SessCacheAssumption DEF Linked
    <3>2. m.obj[x].references = held[x] + 1 /\ m.obj[x].id \in Ids
      BY <1>0, <3>1 DEF Counted, Linked
    <3>3. ~r.obj[x].owner /\ r.obj[x].references = held2[x]
            /\ r.obj[x].references > 0 /\ r.obj[x].id \in Ids
      BY <1>7, <2>0, <2>2, <3>2
    <3> QED BY <3>1, <3>3
  <2> QED BY <2>1, <2>2
<1>13. MemoryInv(r, new, held2)
  BY <1>8, <1>10, <1>11, <1>12 DEF MemoryInv
<1> QED BY <1>3, <1>5, <1>7, <1>13, <1>15 DEF r, gone

(* The number of sessions in the hash table, the one on its way into the   *)
(* cache included.                                                         *)
LEMMA NumberPending ==
  ASSUME NEW m, NEW c \in Objects, NEW held, MemoryInv(m, c, held)
  PROVE  Number(m) = Len(m.list) + 1
<1> DEFINE n == Len(m.list)
           H == {i \in Ids : m.hash[i] # NULL}
           d == m.obj[c].id
           f == [k \in 1 .. n |-> m.obj[m.list[k]].id]
<1>0. m \in Memories /\ Linked(m, c) /\ Ordered(m) /\ c # NULL
        /\ \A o \in Objects : o # NULL
  BY SessCacheAssumption DEF MemoryInv
<1>1. /\ n \in Nat /\ DOMAIN m.list = 1 .. n
      /\ \A k \in 1 .. n : m.list[k] \in Objects
  BY <1>0, MemoryTypes
<1>2. d \in H
  BY <1>0 DEF Linked
<1>3. \A k \in 1 .. n : f[k] \in Ids /\ m.hash[f[k]] = m.list[k]
  BY <1>0, <1>1 DEF Linked
<1>4. \A k \in 1 .. n : m.list[k] # c
  BY <1>0, <1>1 DEF Linked
<1>5. f \in [1 .. n -> H \ {d}]
  <2>1. \A k \in 1 .. n : f[k] \in H \ {d}
    <3> SUFFICES ASSUME NEW k \in 1 .. n
                 PROVE  f[k] \in H /\ f[k] # d
      OBVIOUS
    <3>1. f[k] \in H
      BY <1>0, <1>1, <1>3
    <3>2. m.hash[d] = c
      BY <1>0 DEF Linked
    <3> QED BY <1>3, <1>4, <3>1, <3>2
  <2> QED BY <2>1
<1>6. \A j, k \in 1 .. n : f[j] = f[k] => j = k
  <2> SUFFICES ASSUME NEW j \in 1 .. n, NEW k \in 1 .. n, f[j] = f[k]
               PROVE  j = k
    OBVIOUS
  <2>1. m.list[j] = m.list[k]
    BY <1>3
  <2> QED BY <1>0, <1>1, <2>1 DEF Ordered
<1>7. \A i \in H \ {d} : \E k \in 1 .. n : f[k] = i
  <2> SUFFICES ASSUME NEW i \in H, i # d
               PROVE  \E k \in 1 .. n : f[k] = i
    OBVIOUS
  <2>1. m.hash[i] \in Objects /\ m.obj[m.hash[i]].id = i
    BY <1>0, MemoryTypes DEF Linked
  <2>2. m.hash[i] # c
    BY <2>1
  <2>3. m.obj[m.hash[i]].owner
    BY <1>0, <2>2 DEF Linked
  <2>4. PICK k \in DOMAIN m.list : m.list[k] = m.hash[i]
    BY <1>0, <2>1, <2>3 DEF Linked
  <2> QED BY <1>1, <2>1, <2>4
<1> HIDE DEF f, H, n, d
<1>8. f \in Bijection(1 .. n, H \ {d})
  BY <1>5, <1>6, <1>7 DEF Bijection, Injection, Surjection, IsInjective
<1>9. Cardinality(H \ {d}) = n
  BY <1>1, <1>8, FS_CountingElements DEF ExistsBijection
<1>10. IsFiniteSet(H)
  BY SessCacheAssumption, FS_Subset DEF H
<1>11. Cardinality(H) \in Nat
  BY <1>10, FS_CardinalityType
<1>12. Cardinality(H \ {d}) = Cardinality(H) - 1
  BY <1>2, <1>10, FS_RemoveElement
<1> QED BY <1>1, <1>9, <1>11, <1>12 DEF Number, H, n

(* A change to an object that is not in the list, and not to its id, owner *)
(* or references.                                                          *)
LEMMA AlterInv ==
  ASSUME NEW m, NEW new, NEW held, MemoryInv(m, new, held),
         new = NULL \/ new \in Objects,
         NEW o \in Objects, ~m.obj[o].owner, m.obj[o].references > 0,
         NEW q \in Sessions, q.id = m.obj[o].id, ~q.owner,
         q.references = m.obj[o].references,
         o = new => q.not_resumable = m.obj[o].not_resumable
  PROVE  MemoryInv([m EXCEPT !.obj = [@ EXCEPT ![o] = q]], new, held)
<1> DEFINE f == [m.obj EXCEPT ![o] = q]
           r == [m EXCEPT !.obj = f]
<1>0. m \in Memories /\ Counted(m, new, held)
  BY DEF MemoryInv
<1>1. m.obj \in [Objects -> Sessions] /\ f \in [Objects -> Sessions]
  BY <1>0, MemoryTypes
<1>2. \A x \in Objects : f[x] = IF x = o THEN q ELSE m.obj[x]
  BY <1>1
<1>3. f[o] = q /\ \A x \in Objects : x # o => f[x] = m.obj[x]
  BY <1>2
<1>4. q.owner = m.obj[o].owner
  BY <1>0, MemoryTypes DEF Sessions
<1>5. m.obj[o].references \in Nat
  BY <1>0, MemoryTypes
<1> HIDE DEF f
<1>6. r \in Memories /\ r.obj = f /\ r.hash = m.hash /\ r.list = m.list
  BY <1>0, <1>1, ObjectsOnly
<1> HIDE DEF r
<1>7. \A x \in Objects :
        /\ r.obj[x].owner = m.obj[x].owner
        /\ m.obj[x].owner => Alike(r.obj[x], m.obj[x])
        /\ x = new => /\ r.obj[x].id = m.obj[x].id
                      /\ r.obj[x].not_resumable = m.obj[x].not_resumable
  BY <1>3, <1>4, <1>6 DEF Alike
<1>8. Counted(r, new, held)
  <2> SUFFICES ASSUME NEW x \in Objects
               PROVE  /\ r.obj[x].references = held[x]
                           + (IF r.obj[x].owner \/ x = new THEN 1 ELSE 0)
                      /\ r.obj[x].references = 0 => r.obj[x] = Unused
                      /\ r.obj[x].references > 0 => r.obj[x].id \in Ids
    BY DEF Counted
  <2>1. CASE x # o
    BY <1>0, <1>3, <1>6, <2>1 DEF Counted
  <2>2. CASE x = o
    BY <1>0, <1>3, <1>4, <1>5, <1>6, <2>2 DEF Counted
  <2> QED BY <2>1, <2>2
<1>9. MemoryInv(r, new, held)
  BY <1>6, <1>7, <1>8, Untouched
<1> QED BY <1>9 DEF r, f

(* SSL_SESSION_list_remove of a session in the list.                       *)
LEMMA ListRemoveFields ==
  ASSUME NEW m \in Memories, NEW o \in Objects,
         \E k \in DOMAIN m.list : m.list[k] = o
  PROVE  LET r == ListRemove(m, o) IN
         /\ r \in Memories /\ r.hash = m.hash /\ r.store = m.store
         /\ \E p \in DOMAIN m.list :
              m.list[p] = o /\ r.list = RemoveAt(m.list, p)
         /\ \A x \in Objects : x # o => r.obj[x] = m.obj[x]
         /\ ~r.obj[o].owner /\ Alike(r.obj[o], m.obj[o])
         /\ r.obj[o].references = m.obj[o].references
<1> DEFINE p == CHOOSE k \in DOMAIN m.list : m.list[k] = o
           l == RemoveAt(m.list, p)
           f == [m.obj EXCEPT ![o].owner = FALSE]
           r == ListRemove(m, o)
<1>1. p \in DOMAIN m.list /\ m.list[p] = o
  OBVIOUS
<1>2. o \in Range(m.list)
  BY DEF Range
<1> HIDE DEF p
<1>3. r = [m EXCEPT !.list = l, !.obj = f]
  BY <1>2 DEF ListRemove, p
<1>4. m.obj \in [Objects -> Sessions] /\ m.obj[o] \in Sessions
        /\ m.list \in Seq(Objects)
  BY MemoryTypes
<1>5. [m.obj[o] EXCEPT !.owner = FALSE] \in Sessions
  BY <1>4 DEF Sessions
<1>6. f \in [Objects -> Sessions]
  BY <1>4, <1>5
<1>7. f[o] = [m.obj[o] EXCEPT !.owner = FALSE]
        /\ \A x \in Objects : x # o => f[x] = m.obj[x]
  BY <1>4
<1>8. ~f[o].owner /\ Alike(f[o], m.obj[o])
        /\ f[o].references = m.obj[o].references
  BY <1>4, <1>7 DEF Sessions, Alike
<1>9. l \in Seq(Objects)
  BY <1>1, <1>4, RemoveAtFacts
<1> HIDE DEF f, l
<1>10. r \in Memories /\ r.obj = f /\ r.list = l /\ r.hash = m.hash
         /\ r.store = m.store
  <2> HIDE DEF r
  <2> QED BY <1>3, <1>6, <1>9 DEF Memories
<1> QED BY <1>1, <1>7, <1>8, <1>10 DEF l

(* SSL_SESSION_list_add of a session that is not in the list.              *)
LEMMA ListAddFields ==
  ASSUME NEW m \in Memories, NEW o \in Objects, Ordered(m),
         \A k \in DOMAIN m.list : m.list[k] # o
  PROVE  LET r == ListAdd(m, o) IN
         /\ r \in Memories /\ r.hash = m.hash /\ r.store = m.store
         /\ r.list = InsertAt(m.list, InsertPosition(m, o), o)
         /\ \A x \in Objects : /\ x # o => r.obj[x] = m.obj[x]
                               /\ Alike(r.obj[x], m.obj[x])
         /\ r.obj[o].owner
         /\ r.obj[o].references = m.obj[o].references
<1> DEFINE p == InsertPosition(m, o)
           l == InsertAt(m.list, p, o)
           f == [m.obj EXCEPT ![o].owner = TRUE]
           r == ListAdd(m, o)
<1>1. p \in 1 .. Len(m.list) + 1
  BY InsertPlace
<1>2. ListRemove(m, o) = m
  BY DEF ListRemove, Range
<1>3. r = [m EXCEPT !.list = l, !.obj = f]
  BY <1>2 DEF ListAdd
<1> HIDE DEF p
<1>4. m.obj \in [Objects -> Sessions] /\ m.obj[o] \in Sessions
        /\ m.list \in Seq(Objects)
  BY MemoryTypes
<1>5. [m.obj[o] EXCEPT !.owner = TRUE] \in Sessions
  BY <1>4 DEF Sessions
<1>6. f \in [Objects -> Sessions]
  BY <1>4, <1>5
<1>7. f[o] = [m.obj[o] EXCEPT !.owner = TRUE]
        /\ \A x \in Objects : x # o => f[x] = m.obj[x]
  BY <1>4
<1>8. f[o].owner /\ Alike(f[o], m.obj[o])
        /\ f[o].references = m.obj[o].references
  BY <1>4, <1>7 DEF Sessions, Alike
<1>9. l \in Seq(Objects)
  BY <1>1, <1>4, InsertAtFacts
<1> HIDE DEF f, l
<1>10. r \in Memories /\ r.obj = f /\ r.list = l /\ r.hash = m.hash
         /\ r.store = m.store
  <2> HIDE DEF r
  <2> QED BY <1>3, <1>6, <1>9 DEF Memories
<1>11. \A x \in Objects : x # o => Alike(f[x], m.obj[x])
  BY <1>7 DEF Alike
<1> QED BY <1>7, <1>8, <1>10, <1>11 DEF l, p

(* The last step into the cache.                                           *)
LEMMA ListAddInv ==
  ASSUME NEW m, NEW c \in Objects, NEW held, MemoryInv(m, c, held)
  PROVE  /\ MemoryInv(ListAdd(m, c), NULL, held)
         /\ Len(ListAdd(m, c).list) = Len(m.list) + 1
         /\ \A o \in Objects : o # c => ListAdd(m, c).obj[o] = m.obj[o]
<1> DEFINE r == ListAdd(m, c)
<1>1. m \in Memories /\ Linked(m, c) /\ Ordered(m) /\ c # NULL
  BY SessCacheAssumption DEF MemoryInv
<1>2. \A k \in DOMAIN m.list : m.list[k] # c
  BY <1>1 DEF Linked
<1>3. /\ r \in Memories /\ r.hash = m.hash
      /\ r.list = InsertAt(m.list, InsertPosition(m, c), c)
      /\ \A x \in Objects : /\ x # c => r.obj[x] = m.obj[x]
                            /\ Alike(r.obj[x], m.obj[x])
      /\ r.obj[c].owner
      /\ r.obj[c].references = m.obj[c].references
  BY <1>1, <1>2, ListAddFields
<1> HIDE DEF r
<1> SUFFICES /\ MemoryInv(r, NULL, held)
             /\ Len(r.list) = Len(m.list) + 1
             /\ \A o \in Objects : o # c => r.obj[o] = m.obj[o]
  BY DEF r
<1> QED BY <1>3, InsertInv

(* SSL_CTX_add_session, as far as the eviction: the session c of a         *)
(* connection is in the hash table, and another one with its id is gone.   *)
LEMMA AnnouncedInv ==
  ASSUME NEW m, NEW c \in Objects, NEW held \in [Objects -> Nat],
         MemoryInv(m, NULL, held),
         m.obj[c].references = 1, held[c] = 1, ~m.obj[c].not_resumable
  PROVE  LET i  == m.obj[c].id
             s  == m.hash[i]
             m1 == [UpRef(m, c) EXCEPT !.hash[i] = c]
             m2 == IF s \in {NULL, c} THEN m1 ELSE Free(ListRemove(m1, s), s)
         IN /\ s # c
            /\ MemoryInv(m2, c, held)
            /\ \A o \in Objects :
                 o # c /\ ~m.obj[o].owner => m2.obj[o] = m.obj[o]
<1> DEFINE i  == m.obj[c].id
           s  == m.hash[i]
           u  == UpRef(m, c)
           m1 == [u EXCEPT !.hash[i] = c]
           m2 == IF s \in {NULL, c} THEN m1 ELSE Free(ListRemove(m1, s), s)
<1>0. /\ m \in Memories /\ Linked(m, NULL) /\ Counted(m, NULL, held)
      /\ \A o \in Objects : o # NULL
      /\ m.hash \in [Ids -> Objects \cup {NULL}]
  BY SessCacheAssumption, MemoryTypes DEF MemoryInv
<1>1. i \in Ids /\ ~m.obj[c].owner
  BY <1>0 DEF Counted
<1>2. s # c /\ s \in Objects \cup {NULL} /\ (s # NULL => m.obj[s].owner)
        /\ (s # NULL => m.obj[s].id = i)
        /\ i = m.obj[c].id /\ s = m.hash[i]
  BY <1>0, <1>1 DEF Linked
<1>3. /\ u \in Memories
      /\ u.hash = m.hash /\ u.list = m.list /\ u.store = m.store
      /\ \A x \in Objects :
           /\ x # c => u.obj[x] = m.obj[x]
           /\ Alike(u.obj[x], m.obj[x])
           /\ u.obj[x].owner = m.obj[x].owner
      /\ u.obj[c].references = 2
  BY <1>0, UpRefFields
<1> HIDE DEF u, i, s
<1>4. /\ m1 \in Memories
      /\ m1.hash = [m.hash EXCEPT ![i] = c]
      /\ m1.list = m.list /\ m1.obj = u.obj
  BY <1>1, <1>3 DEF Memories
<1> HIDE DEF m1
<1>5. /\ m1.hash[i] = c
      /\ \A j \in Ids : j # i => m1.hash[j] = m.hash[j]
  BY <1>0, <1>1, <1>4
<1>6. m1.obj[c].id = i /\ ~m1.obj[c].not_resumable /\ ~m1.obj[c].owner
        /\ m1.obj[c].references = 2
  BY <1>1, <1>2, <1>3, <1>4 DEF Alike
<1>7. ASSUME s = NULL
      PROVE  s # c /\ MemoryInv(m2, c, held)
               /\ \A o \in Objects :
                    o # c /\ ~m.obj[o].owner => m2.obj[o] = m.obj[o]
  <2>1. m2 = m1
    BY <1>7
  <2>2. Counted(m1, c, held)
    <3> SUFFICES ASSUME NEW x \in Objects
                 PROVE  /\ m1.obj[x].references = held[x]
                             + (IF m1.obj[x].owner \/ x = c THEN 1 ELSE 0)
                        /\ m1.obj[x].references = 0 => m1.obj[x] = Unused
                        /\ m1.obj[x].references > 0 => m1.obj[x].id \in Ids
      BY DEF Counted
    <3>1. CASE x # c
      BY <1>0, <1>3, <1>4, <3>1 DEF Counted
    <3>2. CASE x = c
      BY <1>1, <1>6, <3>2
    <3> QED BY <3>1, <3>2
  <2>3. MemoryInv(m1, c, held)
    <3>1. m.hash[m1.obj[c].id] = NULL /\ m1.obj[c].id \in Ids
      BY <1>1, <1>2, <1>6, <1>7
    <3>2. \A o \in Objects :
           /\ m1.obj[o].owner = m.obj[o].owner
           /\ m.obj[o].owner => Alike(m1.obj[o], m.obj[o])
      BY <1>3, <1>4
    <3> QED BY <1>4, <1>5, <1>6, <2>2, <3>1, <3>2, AnnounceInv
  <2> HIDE DEF m2
  <2> QED BY <1>2, <1>3, <1>4, <2>1, <2>3
<1>8. ASSUME s # NULL
      PROVE  s # c /\ MemoryInv(m2, c, held)
               /\ \A o \in Objects :
                    o # c /\ ~m.obj[o].owner => m2.obj[o] = m.obj[o]
  <2> DEFINE l == ListRemove(m1, s)
             held2 == [held EXCEPT ![s] = @ + 1]
  <2>1. m2 = Free(l, s) /\ s \in Objects /\ m.obj[s].owner
    BY <1>2, <1>8
  <2>2. \E k \in DOMAIN m1.list : m1.list[k] = s
    BY <1>0, <1>4, <2>1 DEF Linked
  <2>3. /\ l \in Memories /\ l.hash = m1.hash
        /\ \E p \in DOMAIN m1.list :
             m1.list[p] = s /\ l.list = RemoveAt(m1.list, p)
        /\ \A x \in Objects : x # s => l.obj[x] = m1.obj[x]
        /\ ~l.obj[s].owner /\ Alike(l.obj[s], m1.obj[s])
        /\ l.obj[s].references = m1.obj[s].references
    BY <1>4, <2>1, <2>2, ListRemoveFields
  <2> HIDE DEF l
  <2>4. PICK p \in DOMAIN m.list : m.list[p] = s /\ l.list = RemoveAt(m.list, p)
    BY <1>4, <2>3
  <2>5. held2 \in [Objects -> Nat] /\ held2[s] = held[s] + 1
          /\ \A x \in Objects : x # s => held2[x] = held[x]
    BY <2>1
  <2> HIDE DEF held2
  <2>6. Counted(l, c, held2)
    <3> SUFFICES ASSUME NEW x \in Objects
                 PROVE  /\ l.obj[x].references = held2[x]
                             + (IF l.obj[x].owner \/ x = c THEN 1 ELSE 0)
                        /\ l.obj[x].references = 0 => l.obj[x] = Unused
                        /\ l.obj[x].references > 0 => l.obj[x].id \in Ids
      BY DEF Counted
    <3>1. CASE x # c /\ x # s
      <4>1. l.obj[x] = m.obj[x] /\ held2[x] = held[x] /\ x # NULL
        BY <1>0, <1>3, <1>4, <2>3, <2>5, <3>1
      <4> QED BY <1>0, <3>1, <4>1 DEF Counted
    <3>2. CASE x = c
      <4>1. l.obj[c] = m1.obj[c] /\ held2[c] = 1
        BY <1>2, <2>3, <2>5, Zenon
      <4>2. l.obj[c].references = 2 /\ l.obj[c].id \in Ids
        BY <1>1, <1>6, <4>1
      <4> QED BY ONLY <1>6, <3>2, <4>1, <4>2
    <3>3. CASE x = s
      <4>1. m1.obj[s] = m.obj[s] /\ m.obj[s].references = held[s] + 1
        BY <1>0, <1>2, <1>3, <1>4, <2>1 DEF Counted
      <4>2. l.obj[s].references = held2[s] /\ held2[s] > 0
              /\ l.obj[s].id \in Ids
        <5>1. l.obj[s].references = held2[s] /\ held2[s] > 0
          BY <2>1, <2>3, <2>5, <4>1
        <5>2. l.obj[s].id = i
          BY ONLY <1>2, <1>8, <2>3, <4>1, Zenon DEF Alike
        <5> QED BY <1>1, <5>1, <5>2
      <4>3. held2[s] \in Nat /\ ~(l.obj[s].owner \/ s = c)
        BY <1>2, <2>1, <2>3, <2>5, Zenon
      <4>4. l.obj[s].references = held2[s]
              + (IF l.obj[s].owner \/ s = c THEN 1 ELSE 0)
        BY ONLY <4>2, <4>3
      <4> QED BY ONLY <3>3, <4>2, <4>3, <4>4
    <3> QED BY <3>1, <3>2, <3>3
  <2>7. MemoryInv(l, c, held2)
    <3>1. m.obj[s].id = i /\ s # c
      BY <1>2, <1>8
    <3>2. l.obj[c] = m1.obj[c]
      BY <2>3, <3>1
    <3>3. \A o \in Objects : o # s =>
           /\ l.obj[o].owner = m.obj[o].owner
           /\ m.obj[o].owner => Alike(l.obj[o], m.obj[o])
      BY <1>3, <1>4, <2>3
    <3>4. /\ l.hash[m.obj[s].id] = c
          /\ \A j \in Ids : j # m.obj[s].id => l.hash[j] = m.hash[j]
      BY <1>5, <2>3, <3>1
    <3>5. /\ l.obj[c].id = m.obj[s].id
          /\ ~l.obj[c].not_resumable /\ ~l.obj[c].owner
      BY <1>6, <3>1, <3>2
    <3> QED BY ONLY MemoryInv(m, NULL, held), c \in Objects, <2>1, <2>3, <2>4,
                    <2>6, <3>3, <3>4, <3>5, UnlinkInv
  <2>8. MemoryInv(FreeAll(l, {s}), c, held)
    <3>1. held = [o \in Objects |-> held2[o] - (IF o \in {s} THEN 1 ELSE 0)]
      BY <2>1, <2>5
    <3>2. {s} \in SUBSET Objects /\ \A o \in {s} : held2[o] > 0
      BY <2>1, <2>5
    <3> QED BY ONLY <2>5, <2>7, <3>1, <3>2, c \in Objects, FreeAllInv
  <2>9. m2 = FreeAll(l, {s})
    BY <2>1, <2>3, FreeOne
  <2>10. \A o \in Objects : o # s => FreeAll(l, {s}).obj[o] = l.obj[o]
    BY <2>1, <2>3, FreeAllFields
  <2> HIDE DEF m2
  <2>11. \A o \in Objects : o # c /\ ~m.obj[o].owner => m2.obj[o] = m.obj[o]
    <3> SUFFICES ASSUME NEW o \in Objects, o # c, ~m.obj[o].owner
                 PROVE  m2.obj[o] = m.obj[o]
      OBVIOUS
    <3>1. o # s
      BY <2>1
    <3>2. m2.obj[o] = l.obj[o]
      BY ONLY <2>9, <2>10, <3>1, o \in Objects
    <3>3. l.obj[o] = m1.obj[o]
      BY ONLY <2>3, <3>1, o \in Objects
    <3>4. m1.obj[o] = m.obj[o]
      BY ONLY <1>3, <1>4, o \in Objects, o # c
    <3> QED BY <3>2, <3>3, <3>4
  <2> QED BY <1>2, <2>8, <2>9, <2>11
<1> HIDE DEF m2
<1>9. s # c /\ MemoryInv(m2, c, held)
        /\ \A o \in Objects :
             o # c /\ ~m.obj[o].owner => m2.obj[o] = m.obj[o]
  BY <1>7, <1>8
<1> QED BY <1>9, Zenon DEF m2, m1, u, s, i

(* SSL_CTX_add_session puts a session that one connection has into the     *)
(* cache, within its limit, and touches no session that is not in it.      *)
LEMMA AddSessionInv ==
  ASSUME NEW m, NEW c \in Objects, NEW held \in [Objects -> Nat],
         MemoryInv(m, NULL, held),
         m.obj[c].references = 1, held[c] = 1, ~m.obj[c].not_resumable,
         size \in Nat, now \in Times
  PROVE  LET r == AddSession(m, c) IN
         /\ MemoryInv(r, NULL, held)
         /\ size > 0 => Len(r.list) <= IF size = 1 THEN 1 ELSE size - 1
         /\ \A o \in Objects :
              o # c /\ ~m.obj[o].owner => r.obj[o] = m.obj[o]
<1> DEFINE i  == m.obj[c].id
           s  == m.hash[i]
           m1 == [UpRef(m, c) EXCEPT !.hash[i] = c]
           m2 == IF s \in {NULL, c} THEN m1 ELSE Free(ListRemove(m1, s), s)
           m3 == IF UpdateTime THEN [m2 EXCEPT !.obj[c].time = now] ELSE m2
           n  == Fitting(m3)
           g  == Behind(m3, n)
           d  == Discard(m3, n)
           m4 == FreeAll(d, g)
           r  == AddSession(m, c)
<1>1. /\ s # c
      /\ MemoryInv(m2, c, held)
      /\ \A o \in Objects : o # c /\ ~m.obj[o].owner => m2.obj[o] = m.obj[o]
  BY AnnouncedInv
<1>2. r = ListAdd(m4, c)
  BY <1>1, Zenon DEF AddSession
<1> HIDE DEF r, m2, s, m1, i
<1>3. MemoryInv(m3, c, held) /\ \A o \in Objects : o # c => m3.obj[o] = m2.obj[o]
  <2>1. CASE ~UpdateTime
    BY <1>1, <2>1
  <2>2. CASE UpdateTime
    <3> DEFINE q == [m2.obj[c] EXCEPT !.time = now]
               f == [m2.obj EXCEPT ![c] = q]
    <3>0. m2 \in Memories /\ Linked(m2, c) /\ Counted(m2, c, held) /\ c # NULL
      BY <1>1, SessCacheAssumption DEF MemoryInv
    <3>1. m2.obj[c] \in Sessions /\ m2.obj \in [Objects -> Sessions]
      BY <3>0, MemoryTypes
    <3>2. m2.obj[c].references = 2 /\ ~m2.obj[c].owner
      BY <3>0 DEF Linked, Counted
    <3>3. /\ q \in Sessions /\ q.id = m2.obj[c].id /\ ~q.owner
          /\ q.references = m2.obj[c].references
          /\ q.not_resumable = m2.obj[c].not_resumable
      BY <3>1, <3>2 DEF Sessions
    <3>4. m3 = [m2 EXCEPT !.obj = f]
      BY <2>2
    <3>5. \A o \in Objects : o # c => f[o] = m2.obj[o]
      BY <3>1
    <3>6. f \in [Objects -> Sessions]
      BY <3>1, <3>3
    <3> HIDE DEF q, m3
    <3>7. MemoryInv(m3, c, held)
      <4>1. [m2 EXCEPT !.obj = f] = [m2 EXCEPT !.obj = [@ EXCEPT ![c] = q]]
        OBVIOUS
      <4>2. m2.obj[c].references > 0
        BY <3>2
      <4> HIDE DEF f
      <4> QED BY ONLY <1>1, <3>2, <3>3, <3>4, <4>1, <4>2, c \in Objects, AlterInv
    <3> HIDE DEF f
    <3>8. m3.obj = f
      BY <3>0, <3>4, <3>6, ObjectsOnly
    <3> QED BY <3>5, <3>7, <3>8
  <2> QED BY <2>1, <2>2
<1> HIDE DEF m3
<1>4. Len(m3.list) \in Nat /\ Number(m3) = Len(m3.list) + 1
  BY <1>3, NumberPending, MemoryTypes DEF MemoryInv
<1>5. /\ n \in 0 .. Len(m3.list)
      /\ size > 0 => n + 1 <= IF size = 1 THEN 1 ELSE size - 1
  <2> DEFINE L == Len(m3.list)
             N == Number(m3)
  <2>1. n = IF size = 0 \/ N - size + 1 <= 0 THEN L
            ELSE IF N - size + 1 >= L THEN 0 ELSE L - (N - size + 1)
    BY DEF Fitting
  <2>2. L \in Nat /\ N = L + 1
    BY <1>4
  <2> HIDE DEF L, N, n
  <2>3. CASE size = 0 \/ L + 1 - size + 1 <= 0
    BY <2>1, <2>2, <2>3 DEF L
  <2>4. CASE ~(size = 0 \/ L + 1 - size + 1 <= 0) /\ L + 1 - size + 1 >= L
    <3>1. n = 0
      BY <2>1, <2>2, <2>4
    <3> QED BY <2>2, <2>4, <3>1 DEF L
  <2>5. CASE ~(size = 0 \/ L + 1 - size + 1 <= 0) /\ ~(L + 1 - size + 1 >= L)
    <3>1. n = L - (L + 1 - size + 1)
      BY <2>1, <2>2, <2>5
    <3> QED BY <2>2, <2>5, <3>1 DEF L
  <2> QED BY <2>3, <2>4, <2>5
<1> HIDE DEF n
<1> DEFINE held2 == [o \in Objects |-> held[o] + (IF o \in g THEN 1 ELSE 0)]
<1>6. /\ MemoryInv(d, c, held2) /\ Len(d.list) = n
      /\ g \in SUBSET Objects
      /\ \A o \in g : m3.obj[o].owner
      /\ \A o \in Objects : o \notin g => d.obj[o] = m3.obj[o]
  BY <1>3, <1>5, DiscardInv
<1> HIDE DEF d, g
<1>7. /\ held2 \in [Objects -> Nat] /\ \A o \in g : held2[o] > 0
      /\ held = [o \in Objects |-> held2[o] - (IF o \in g THEN 1 ELSE 0)]
  BY <1>6
<1> HIDE DEF held2
<1>8. MemoryInv(m4, c, held)
  BY ONLY <1>6, <1>7, c \in Objects, FreeAllInv
<1>9. /\ m4.list = d.list
      /\ \A o \in Objects : o \notin g => m4.obj[o] = d.obj[o]
  BY <1>6, FreeAllFields DEF MemoryInv
<1> HIDE DEF m4
<1>10. /\ MemoryInv(r, NULL, held)
       /\ Len(r.list) = Len(m4.list) + 1
       /\ \A o \in Objects : o # c => r.obj[o] = m4.obj[o]
  BY <1>2, <1>8, ListAddInv
<1>11. ASSUME NEW o \in Objects, o # c, ~m.obj[o].owner
       PROVE  r.obj[o] = m.obj[o]
  <2>1. m3.obj[o] = m.obj[o]
    BY <1>1, <1>3, <1>11
  <2>2. o \notin g
    BY <1>6, <1>11, <2>1
  <2> QED BY <1>6, <1>9, <1>10, <1>11, <2>1, <2>2
<1>12. size > 0 => Len(r.list) <= IF size = 1 THEN 1 ELSE size - 1
  BY <1>5, <1>6, <1>9, <1>10
<1> QED BY <1>10, <1>11, <1>12 DEF r

(* SSL_SESSION_set_timeout on a cached session: it gets a new place.       *)
LEMMA RelistInv ==
  ASSUME NEW m, NEW s \in Objects, NEW held, MemoryInv(m, NULL, held),
         m.obj[s].owner, NEW v \in Times
  PROVE  LET r == ListAdd([m EXCEPT !.obj[s].timeout = v], s) IN
         /\ MemoryInv(r, NULL, held)
         /\ Len(r.list) = Len(m.list)
         /\ \A o \in Objects : o # s => r.obj[o] = m.obj[o]
<1> DEFINE f == [m.obj EXCEPT ![s].timeout = v]
           mt == [m EXCEPT !.obj[s].timeout = v]
           l == ListRemove(mt, s)
<1>0. /\ m \in Memories /\ Linked(m, NULL) /\ Counted(m, NULL, held)
      /\ Ordered(m) /\ s # NULL
      /\ m.obj \in [Objects -> Sessions] /\ m.obj[s] \in Sessions
      /\ Len(m.list) \in Nat
  BY SessCacheAssumption, MemoryTypes DEF MemoryInv
<1>1. [m.obj[s] EXCEPT !.timeout = v] \in Sessions
  BY <1>0 DEF Sessions
<1>2. f \in [Objects -> Sessions]
  BY <1>0, <1>1
<1>3. /\ f[s].id = m.obj[s].id /\ f[s].not_resumable = m.obj[s].not_resumable
      /\ f[s].references = m.obj[s].references
      /\ \A o \in Objects : o # s => f[o] = m.obj[o]
  BY <1>0 DEF Sessions
<1>4. mt = [m EXCEPT !.obj = f]
  OBVIOUS
<1> HIDE DEF mt, f
<1>5. mt \in Memories /\ mt.obj = f /\ mt.hash = m.hash /\ mt.list = m.list
  BY <1>0, <1>2, <1>4, ObjectsOnly
<1>6. \E k \in DOMAIN mt.list : mt.list[k] = s
  BY <1>0, <1>5 DEF Linked
<1>7. /\ l \in Memories /\ l.hash = mt.hash
      /\ \E p \in DOMAIN mt.list :
           mt.list[p] = s /\ l.list = RemoveAt(mt.list, p)
      /\ \A x \in Objects : x # s => l.obj[x] = mt.obj[x]
      /\ ~l.obj[s].owner /\ Alike(l.obj[s], mt.obj[s])
      /\ l.obj[s].references = mt.obj[s].references
  BY <1>5, <1>6, ListRemoveFields
<1> HIDE DEF l
<1>8. PICK p \in DOMAIN m.list : m.list[p] = s /\ l.list = RemoveAt(m.list, p)
  BY <1>5, <1>7
<1>9. /\ l.obj[s].id = m.obj[s].id /\ ~l.obj[s].not_resumable
      /\ l.obj[s].references = m.obj[s].references
      /\ m.obj[s].id \in Ids /\ m.hash[m.obj[s].id] = s
  <2>1. m.obj[s].id \in Ids /\ m.hash[m.obj[s].id] = s
          /\ ~m.obj[s].not_resumable
    BY <1>0 DEF Linked
  <2> QED BY <1>3, <1>5, <1>7, <2>1 DEF Alike
<1>10. \A o \in Objects : o # s => l.obj[o] = m.obj[o]
  BY <1>3, <1>5, <1>7
<1>11. Counted(l, s, held)
  <2> SUFFICES ASSUME NEW x \in Objects
               PROVE  /\ l.obj[x].references = held[x]
                           + (IF l.obj[x].owner \/ x = s THEN 1 ELSE 0)
                      /\ l.obj[x].references = 0 => l.obj[x] = Unused
                      /\ l.obj[x].references > 0 => l.obj[x].id \in Ids
    BY DEF Counted
  <2>1. CASE x # s
    <3>1. l.obj[x] = m.obj[x] /\ x # NULL
      BY <1>10, <2>1, SessCacheAssumption
    <3> QED BY <1>0, <2>1, <3>1 DEF Counted
  <2>2. CASE x = s
    <3>1. m.obj[s].references = held[s] + 1 /\ m.obj[s].references # 0
      <4>1. m.obj[s].references = 0 => m.obj[s] = Unused
        BY <1>0 DEF Counted
      <4>2. ~Unused.owner
        BY DEF Unused
      <4> QED BY <1>0, <4>1, <4>2 DEF Counted
    <3>2. l.obj[s].references = held[s] + 1 /\ l.obj[s].references # 0
            /\ l.obj[s].id \in Ids
      BY <1>9, <3>1
    <3> QED BY ONLY <2>2, <3>2
  <2> QED BY <2>1, <2>2
<1>12. MemoryInv(l, s, held) /\ Len(l.list) = Len(m.list) - 1
  <2>1. l.hash = m.hash
    BY <1>5, <1>7
  <2>2. \A o \in Objects : o # s =>
          /\ l.obj[o].owner = m.obj[o].owner
          /\ m.obj[o].owner => Alike(l.obj[o], m.obj[o])
    BY <1>10 DEF Alike
  <2> QED BY <1>7, <1>8, <1>9, <1>11, <2>1, <2>2, UnlinkInv
<1>13. ListAdd(mt, s) = ListAdd(l, s)
  <2>1. \A k \in DOMAIN l.list : l.list[k] # s
    BY <1>0, <1>12 DEF MemoryInv, Linked
  <2>2. ListRemove(l, s) = l
    BY <2>1 DEF ListRemove, Range
  <2> QED BY <2>2 DEF ListAdd, l
<1>14. /\ MemoryInv(ListAdd(l, s), NULL, held)
       /\ Len(ListAdd(l, s).list) = Len(l.list) + 1
       /\ \A o \in Objects : o # s => ListAdd(l, s).obj[o] = l.obj[o]
  BY <1>12, ListAddInv
<1>15. Len(ListAdd(l, s).list) = Len(m.list)
  BY <1>0, <1>12, <1>14
<1> QED BY <1>10, <1>13, <1>14, <1>15 DEF mt

(* remove_session_lock on the session c of a connection: the cached        *)
(* session with its id leaves the cache, and its reference passes to the   *)
(* connection.                                                             *)
LEMMA RemoveInv ==
  ASSUME NEW m, NEW c \in Objects, NEW held \in [Objects -> Nat],
         MemoryInv(m, NULL, held), held[c] > 0
  PROVE  LET i == m.obj[c].id
             r == m.hash[i]
             n == IF r = NULL THEN m
                  ELSE ListRemove([m EXCEPT !.hash[i] = NULL], r)
             q == [n EXCEPT !.obj[c].not_resumable = TRUE]
         IN /\ MemoryInv(q, NULL,
                         [o \in Objects |-> held[o] + (IF o = r THEN 1 ELSE 0)])
            /\ Len(q.list) <= Len(m.list)
            /\ r \in Objects \cup {NULL}
            /\ \A o \in Objects :
                 o # c /\ ~m.obj[o].owner => q.obj[o] = m.obj[o]
<1> DEFINE i == m.obj[c].id
           r == m.hash[i]
           h == [m EXCEPT !.hash[i] = NULL]
           n == IF r = NULL THEN m ELSE ListRemove(h, r)
           q == [n EXCEPT !.obj[c].not_resumable = TRUE]
           held2 == [o \in Objects |-> held[o] + (IF o = r THEN 1 ELSE 0)]
<1>0. /\ m \in Memories /\ Linked(m, NULL) /\ Counted(m, NULL, held)
      /\ \A o \in Objects : o # NULL
      /\ m.hash \in [Ids -> Objects \cup {NULL}]
      /\ Len(m.list) \in Nat
      /\ \A o \in Objects : m.obj[o].references \in Nat
  BY SessCacheAssumption, MemoryTypes DEF MemoryInv
<1>1. m.obj[c].references > 0 /\ i \in Ids
  BY <1>0 DEF Counted
<1>2. /\ r \in Objects \cup {NULL}
      /\ r # NULL => m.obj[r].owner /\ m.obj[r].id = i
      /\ m.obj[c].owner => r = c
      /\ i = m.obj[c].id /\ r = m.hash[i]
  BY <1>0, <1>1 DEF Linked
<1>3. /\ held2 \in [Objects -> Nat]
      /\ \A o \in Objects : /\ o # r => held2[o] = held[o]
                            /\ o = r => held2[o] = held[o] + 1
  OBVIOUS
<1> HIDE DEF r, i, held2
<1>4. /\ MemoryInv(n, NULL, held2) /\ Len(n.list) <= Len(m.list)
      /\ n.obj[c].references > 0 /\ ~n.obj[c].owner
      /\ \A o \in Objects : ~m.obj[o].owner => n.obj[o] = m.obj[o]
  <2>1. CASE r = NULL
    <3>1. held2 = held
      BY <1>0, <2>1 DEF held2
    <3>2. n = m
      BY <2>1
    <3> HIDE DEF n
    <3>3. ~m.obj[c].owner
      BY <1>0, <1>2, <2>1
    <3>4. MemoryInv(n, NULL, held2) /\ Len(n.list) <= Len(m.list)
      BY <1>0, <3>1, <3>2
    <3> QED BY ONLY <1>1, <3>2, <3>3, <3>4
  <2>2. CASE r # NULL
    <3>1. r \in Objects /\ m.obj[r].owner /\ m.obj[r].id = i /\ n = ListRemove(h, r)
      BY <1>2, <2>2
    <3> HIDE DEF n
    <3>2. /\ h \in Memories /\ h.hash = [m.hash EXCEPT ![i] = NULL]
          /\ h.list = m.list /\ h.obj = m.obj
      BY <1>0, <1>1 DEF Memories
    <3> HIDE DEF h
    <3>3. \E k \in DOMAIN h.list : h.list[k] = r
      BY <1>0, <3>1, <3>2 DEF Linked
    <3>4. /\ n \in Memories /\ n.hash = h.hash
          /\ \E p \in DOMAIN h.list :
               h.list[p] = r /\ n.list = RemoveAt(h.list, p)
          /\ \A x \in Objects : x # r => n.obj[x] = h.obj[x]
          /\ ~n.obj[r].owner /\ Alike(n.obj[r], h.obj[r])
          /\ n.obj[r].references = h.obj[r].references
      BY <3>1, <3>2, <3>3, ListRemoveFields
    <3>5. PICK p \in DOMAIN m.list :
            m.list[p] = r /\ n.list = RemoveAt(m.list, p)
      BY <3>2, <3>4
    <3>6. n.hash[i] = NULL /\ \A j \in Ids : j # i => n.hash[j] = m.hash[j]
      BY <1>0, <1>1, <3>2, <3>4
    <3>7. \A x \in Objects : x # r => n.obj[x] = m.obj[x]
      BY <3>2, <3>4
    <3>8. Counted(n, NULL, held2)
      <4> SUFFICES ASSUME NEW x \in Objects
                   PROVE  /\ n.obj[x].references = held2[x]
                               + (IF n.obj[x].owner \/ x = NULL THEN 1 ELSE 0)
                          /\ n.obj[x].references = 0 => n.obj[x] = Unused
                          /\ n.obj[x].references > 0 => n.obj[x].id \in Ids
        BY DEF Counted
      <4>1. CASE x # r
        <5>1. n.obj[x] = m.obj[x] /\ held2[x] = held[x]
          BY <1>3, <3>7, <4>1
        <5> QED BY <1>0, <5>1 DEF Counted
      <4>2. CASE x = r
        <5>1. m.obj[r].references = held[r] + 1
          BY <1>0, <3>1 DEF Counted
        <5>2. n.obj[r].references = held2[r] /\ n.obj[r].references > 0
          BY <1>3, <3>1, <3>2, <3>4, <5>1
        <5>3. n.obj[r].id \in Ids
          BY <1>1, <3>1, <3>2, <3>4 DEF Alike
        <5>4. held2[r] \in Nat /\ r # NULL /\ ~n.obj[r].owner
          BY <1>3, <2>2, <3>1, <3>4
        <5> QED BY ONLY <4>2, <5>2, <5>3, <5>4
      <4> QED BY <4>1, <4>2
    <3>9. MemoryInv(n, NULL, held2) /\ Len(n.list) = Len(m.list) - 1
      <4>1. \A o \in Objects : o # r =>
              /\ n.obj[o].owner = m.obj[o].owner
              /\ m.obj[o].owner => Alike(n.obj[o], m.obj[o])
        BY <3>7 DEF Alike
      <4>2. /\ n.hash[m.obj[r].id] = NULL
            /\ \A j \in Ids : j # m.obj[r].id => n.hash[j] = m.hash[j]
        BY <3>1, <3>6
      <4>3. n \in Memories /\ r \in Objects /\ m.obj[r].owner /\ ~n.obj[r].owner
        BY <3>1, <3>4
      <4> QED BY ONLY MemoryInv(m, NULL, held), <3>5, <3>8, <4>1, <4>2, <4>3,
                      UnlinkInv
    <3>10. n.obj[c].references > 0
      BY <1>1, <3>2, <3>4, <3>7
    <3>11. ~n.obj[c].owner
      BY <1>2, <3>4, <3>7, Zenon
    <3>12. \A o \in Objects : ~m.obj[o].owner => n.obj[o] = m.obj[o]
      BY <3>1, <3>7
    <3> QED BY <1>0, <3>9, <3>10, <3>11, <3>12
  <2> QED BY <2>1, <2>2
<1> HIDE DEF n
<1>5. MemoryInv(q, NULL, held2) /\ q.list = n.list
        /\ \A o \in Objects : o # c => q.obj[o] = n.obj[o]
  <2> DEFINE b == [n.obj[c] EXCEPT !.not_resumable = TRUE]
             f == [n.obj EXCEPT ![c] = b]
  <2>1. n \in Memories /\ n.obj[c] \in Sessions /\ n.obj \in [Objects -> Sessions]
    BY <1>4, MemoryTypes DEF MemoryInv
  <2>2. /\ b \in Sessions /\ b.id = n.obj[c].id /\ b.owner = n.obj[c].owner
        /\ b.references = n.obj[c].references
    BY <2>1 DEF Sessions
  <2>3. q = [n EXCEPT !.obj = [@ EXCEPT ![c] = b]] /\ q = [n EXCEPT !.obj = f]
    OBVIOUS
  <2>4. f \in [Objects -> Sessions] /\ \A o \in Objects : o # c => f[o] = n.obj[o]
    BY <2>1, <2>2
  <2> HIDE DEF b, f, q
  <2>5. MemoryInv(q, NULL, held2)
    <3>1. ~b.owner /\ c # NULL
      BY <1>0, <1>4, <2>2
    <3> QED BY ONLY <1>4, <2>2, <2>3, <3>1, c \in Objects, AlterInv
  <2> QED BY <2>1, <2>3, <2>4, <2>5, ObjectsOnly
<1> HIDE DEF q
<1>6. \A o \in Objects : o # c /\ ~m.obj[o].owner => q.obj[o] = m.obj[o]
  BY <1>4, <1>5
<1>7. /\ MemoryInv(q, NULL, held2) /\ Len(q.list) <= Len(m.list)
      /\ r \in Objects \cup {NULL}
  BY <1>2, <1>4, <1>5
<1> QED BY <1>6, <1>7, Zenon DEF q, n, h, held2, r, i

-----------------------------------------------------------------------------
(* The references of the connections.                                      *)

(* Two sets of threads that differ in t at most.                           *)
LEMMA OneThread ==
  ASSUME NEW A \in SUBSET Threads, NEW B \in SUBSET Threads, NEW t,
         A \ {t} = B \ {t}
  PROVE  /\ Cardinality(A) \in Nat
         /\ Cardinality(A) >= IF t \in A THEN 1 ELSE 0
         /\ Cardinality(B) = Cardinality(A) - (IF t \in A THEN 1 ELSE 0)
                               + (IF t \in B THEN 1 ELSE 0)
<1>1. IsFiniteSet(A) /\ IsFiniteSet(B)
  BY SessCacheAssumption, FS_Subset
<1>2. IsFiniteSet(A \ {t})
  BY <1>1, FS_RemoveElement
<1>3. Cardinality(A) \in Nat /\ Cardinality(B) \in Nat
        /\ Cardinality(A \ {t}) \in Nat
  BY <1>1, <1>2, FS_CardinalityType
<1>4. Cardinality(A \ {t}) =
        IF t \in A THEN Cardinality(A) - 1 ELSE Cardinality(A)
  BY <1>1, FS_RemoveElement
<1>5. Cardinality(B \ {t}) =
        IF t \in B THEN Cardinality(B) - 1 ELSE Cardinality(B)
  BY <1>1, FS_RemoveElement
<1>6. Cardinality(B \ {t}) = Cardinality(A \ {t})
  OBVIOUS
<1> QED BY ONLY <1>3, <1>4, <1>5, <1>6

(* A step of the thread t changes the references of its connection only.   *)
LEMMA HeldStep ==
  ASSUME NEW f \in [Threads -> Connections], NEW t \in Threads,
         NEW c \in Connections
  PROVE  /\ Held(f) \in [Objects -> Nat]
         /\ \A o \in Objects :
              /\ Held(f)[o] >= Holds(f[t], o)
              /\ Held([f EXCEPT ![t] = c])[o] =
                   Held(f)[o] - Holds(f[t], o) + Holds(c, o)
<1> DEFINE g == [f EXCEPT ![t] = c]
           S(h, o) == {u \in Threads : h[u].session = o}
           R(h, o) == {u \in Threads : h[u].ret = o}
           D(h, o) == {u \in Threads : o \in h[u].removed}
<1>1. g[t] = c /\ \A u \in Threads : u # t => g[u] = f[u]
  OBVIOUS
<1>2. \A h : \A o \in Objects :
        Held(h)[o] = Cardinality(S(h, o)) + Cardinality(R(h, o))
                       + Cardinality(D(h, o))
  BY DEF Held
<1> HIDE DEF g
<1>3. ASSUME NEW o \in Objects
      PROVE  /\ Held(f)[o] \in Nat /\ Held(f)[o] >= Holds(f[t], o)
             /\ Held(g)[o] = Held(f)[o] - Holds(f[t], o) + Holds(c, o)
  <2> DEFINE s == IF f[t].session = o THEN 1 ELSE 0
             s2 == IF c.session = o THEN 1 ELSE 0
             r == IF f[t].ret = o THEN 1 ELSE 0
             r2 == IF c.ret = o THEN 1 ELSE 0
             d == IF o \in f[t].removed THEN 1 ELSE 0
             d2 == IF o \in c.removed THEN 1 ELSE 0
  <2>1. /\ Cardinality(S(f, o)) \in Nat /\ Cardinality(S(f, o)) >= s
        /\ Cardinality(S(g, o)) = Cardinality(S(f, o)) - s + s2
    <3>1. S(f, o) \ {t} = S(g, o) \ {t}
      BY <1>1
    <3>2. /\ t \in S(f, o) <=> f[t].session = o
          /\ t \in S(g, o) <=> c.session = o
          /\ S(f, o) \in SUBSET Threads /\ S(g, o) \in SUBSET Threads
      BY <1>1
    <3> HIDE DEF S
    <3> QED BY <3>1, <3>2, OneThread
  <2>2. /\ Cardinality(R(f, o)) \in Nat /\ Cardinality(R(f, o)) >= r
        /\ Cardinality(R(g, o)) = Cardinality(R(f, o)) - r + r2
    <3>1. R(f, o) \ {t} = R(g, o) \ {t}
      BY <1>1
    <3>2. /\ t \in R(f, o) <=> f[t].ret = o
          /\ t \in R(g, o) <=> c.ret = o
          /\ R(f, o) \in SUBSET Threads /\ R(g, o) \in SUBSET Threads
      BY <1>1
    <3> HIDE DEF R
    <3> QED BY <3>1, <3>2, OneThread
  <2>3. /\ Cardinality(D(f, o)) \in Nat /\ Cardinality(D(f, o)) >= d
        /\ Cardinality(D(g, o)) = Cardinality(D(f, o)) - d + d2
    <3>1. D(f, o) \ {t} = D(g, o) \ {t}
      BY <1>1
    <3>2. /\ t \in D(f, o) <=> o \in f[t].removed
          /\ t \in D(g, o) <=> o \in c.removed
          /\ D(f, o) \in SUBSET Threads /\ D(g, o) \in SUBSET Threads
      BY <1>1
    <3> HIDE DEF D
    <3> QED BY <3>1, <3>2, OneThread
  <2>4. s \in Nat /\ s2 \in Nat /\ r \in Nat /\ r2 \in Nat /\ d \in Nat
          /\ d2 \in Nat
    OBVIOUS
  <2>5. Holds(f[t], o) = s + r + d /\ Holds(c, o) = s2 + r2 + d2
    BY DEF Holds
  <2> HIDE DEF S, R, D, s, s2, r, r2, d, d2
  <2> QED BY <1>2, <2>1, <2>2, <2>3, <2>4, <2>5
<1>4. Held(f) \in [Objects -> Nat]
  BY <1>3 DEF Held
<1> QED BY <1>3, <1>4 DEF g

(* The references of two connections add up.                               *)
LEMMA TwoThreads ==
  ASSUME NEW f \in [Threads -> Connections], NEW t \in Threads,
         NEW u \in Threads, t # u, NEW o \in Objects
  PROVE  Held(f)[o] >= Holds(f[t], o) + Holds(f[u], o)
<1> DEFINE g == [f EXCEPT ![t] = Idle]
<1>1. Idle \in Connections /\ Holds(Idle, o) = 0
  BY SessCacheAssumption DEF Idle, Connections, Holds, Times
<1>2. g \in [Threads -> Connections] /\ g[u] = f[u]
  BY <1>1
<1>3. Held(f)[o] \in Nat /\ Held(g)[o] = Held(f)[o] - Holds(f[t], o)
  <2>1. /\ Held(f) \in [Objects -> Nat]
        /\ Held(g)[o] = Held(f)[o] - Holds(f[t], o) + Holds(Idle, o)
    BY <1>1, HeldStep
  <2>2. Holds(f[t], o) \in Nat
    BY DEF Holds
  <2> HIDE DEF g
  <2> QED BY <1>1, <2>1, <2>2
<1> HIDE DEF g
<1>4. Held(g)[o] >= Holds(f[u], o)
  BY <1>2, HeldStep
<1>5. Holds(f[t], o) \in Nat /\ Holds(f[u], o) \in Nat
  BY DEF Holds
<1> QED BY <1>3, <1>4, <1>5

(* A step of the thread t to the memory m2 and the connection c.  It may   *)
(* change cached objects and those that t has a reference to.              *)
LEMMA Advance ==
  ASSUME NEW m, NEW f, StateInv(m, f), NEW t \in Threads,
         NEW c \in Connections, Place(c),
         NEW m2, Private(m2, c), Within(m2, size),
         NEW h \in [Objects -> Nat], MemoryInv(m2, NULL, h),
         \A o \in Objects :
           h[o] = Held(f)[o] - Holds(f[t], o) + Holds(c, o),
         \A o \in Objects :
           \/ m2.obj[o] = m.obj[o]
           \/ m.obj[o].owner \/ Holds(f[t], o) > 0 \/ m.obj[o].references = 0
  PROVE  StateInv(m2, [f EXCEPT ![t] = c])
<1> DEFINE g == [f EXCEPT ![t] = c]
<1>0. /\ MemoryInv(m, NULL, Held(f)) /\ f \in [Threads -> Connections]
      /\ \A u \in Threads : Place(f[u]) /\ Private(m, f[u])
  BY DEF StateInv
<1>1. g \in [Threads -> Connections] /\ g[t] = c
        /\ \A u \in Threads : u # t => g[u] = f[u]
  BY <1>0
<1>2. Held(g) = h
  <2>1. \A o \in Objects : Held(g)[o] = h[o]
    BY <1>0, HeldStep
  <2> HIDE DEF g
  <2>2. Held(g) = [o \in Objects |-> Held(g)[o]]
    BY DEF Held
  <2> QED BY <2>1, <2>2
<1>3. ASSUME NEW u \in Threads, u # t, NEW o \in Objects,
             Holds(f[u], o) > 0, m.obj[o].references = 1
      PROVE  m2.obj[o] = m.obj[o]
  <2>1. Held(f)[o] >= Holds(f[t], o) + Holds(f[u], o)
    BY <1>0, <1>3, TwoThreads
  <2>2. Counted(m, NULL, Held(f)) /\ m \in Memories /\ Linked(m, NULL)
    BY <1>0 DEF MemoryInv
  <2>3. Holds(f[t], o) \in Nat /\ Holds(f[u], o) \in Nat /\ Held(f)[o] \in Nat
    BY <1>0, HeldStep DEF Holds
  <2>4. Holds(f[t], o) = 0 /\ ~m.obj[o].owner
    BY <1>3, <2>1, <2>2, <2>3 DEF Counted
  <2> QED BY <1>3, <2>4
<1>4. ASSUME NEW u \in Threads
      PROVE  Place(g[u]) /\ Private(m2, g[u])
  <2>1. CASE u = t
    BY <1>1, <2>1
  <2>2. CASE u # t
    <3>0. g[u] = f[u] /\ f[u] \in Connections /\ Place(f[u])
            /\ Private(m, f[u])
      BY <1>0, <1>1, <2>2
    <3>1. ASSUME f[u].pc = "store"
          PROVE  m2.obj[f[u].ret] = m.obj[f[u].ret]
      <4>1. f[u].ret \in Objects
        BY <3>0, <3>1 DEF Place, HasRet, Connections
      <4>2. Holds(f[u], f[u].ret) > 0
        BY DEF Holds
      <4> QED BY <1>3, <2>2, <3>0, <3>1, <4>1, <4>2 DEF Private
    <3>2. ASSUME f[u].pc = "handshake", ~f[u].hit
          PROVE  m2.obj[f[u].session] = m.obj[f[u].session]
      <4>1. f[u].session \in Objects
        BY <3>0, <3>2 DEF Place, HasRet, HasNone, Connections
      <4>2. Holds(f[u], f[u].session) > 0
        BY DEF Holds
      <4> QED BY <1>3, <2>2, <3>0, <3>2, <4>1, <4>2 DEF Private
    <3>3. Private(m2, f[u])
      BY <3>0, <3>1, <3>2 DEF Private
    <3> QED BY <3>0, <3>3
  <2> QED BY <2>1, <2>2
<1> QED BY <1>1, <1>2, <1>4 DEF StateInv

(* What the invariant says about the memory and one connection.            *)
LEMMA Before ==
  ASSUME CacheInv, NEW t \in Threads
  PROVE  /\ StateInv(Memory, conn) /\ MemoryInv(Memory, NULL, Held(conn))
         /\ Memory \in Memories /\ Linked(Memory, NULL)
         /\ Counted(Memory, NULL, Held(conn)) /\ Within(Memory, size)
         /\ Memory.obj = obj /\ Memory.hash = hash /\ Memory.list = list
         /\ Memory.store = store
         /\ conn \in [Threads -> Connections] /\ conn[t] \in Connections
         /\ Place(conn[t]) /\ Private(Memory, conn[t])
         /\ Held(conn) \in [Objects -> Nat]
         /\ \A o \in Objects : Held(conn)[o] >= Holds(conn[t], o)
         /\ \A o \in Objects : Holds(conn[t], o) \in Nat
         /\ \A o \in Objects : o # NULL
         /\ size \in Nat /\ now \in Times
<1>1. StateInv(Memory, conn) /\ size \in Nat /\ now \in Times
  BY SessCacheAssumption DEF CacheInv, Times
<1>2. conn \in [Threads -> Connections] /\ conn[t] \in Connections
        /\ MemoryInv(Memory, NULL, Held(conn)) /\ Within(Memory, size)
        /\ Place(conn[t]) /\ Private(Memory, conn[t])
  BY <1>1 DEF StateInv
<1>3. /\ Held(conn) \in [Objects -> Nat]
      /\ \A o \in Objects : Held(conn)[o] >= Holds(conn[t], o)
  BY <1>2, HeldStep
<1>4. \A o \in Objects : Holds(conn[t], o) \in Nat /\ o # NULL
  BY SessCacheAssumption DEF Holds
<1>5. /\ Memory.obj = obj /\ Memory.hash = hash /\ Memory.list = list
      /\ Memory.store = store
  BY DEF Memory
<1>6. Memory \in Memories /\ Linked(Memory, NULL)
        /\ Counted(Memory, NULL, Held(conn))
  BY <1>2 DEF MemoryInv
<1> QED BY <1>1, <1>2, <1>3, <1>4, <1>5, <1>6

(* A memory is given by its four parts.                                    *)
LEMMA MemoryIs ==
  ASSUME NEW m \in Memories
  PROVE  m = [obj |-> m.obj, hash |-> m.hash, list |-> m.list,
              store |-> m.store]
BY DEF Memories

(* A step that leaves the objects, the hash table and the list alone, and  *)
(* the references of the connection too.                                   *)
LEMMA AdvanceOnly ==
  ASSUME NEW m, NEW m2, NEW f, StateInv(m, f), NEW t \in Threads,
         NEW c \in Connections, Place(c), Private(m, c),
         c.session = f[t].session, c.ret = f[t].ret, c.removed = f[t].removed,
         m2 \in Memories, m2.obj = m.obj, m2.hash = m.hash, m2.list = m.list
  PROVE  StateInv(m2, [f EXCEPT ![t] = c])
<1>1. /\ MemoryInv(m, NULL, Held(f)) /\ f \in [Threads -> Connections]
      /\ Within(m, size)
  BY DEF StateInv
<1>2. MemoryInv(m2, NULL, Held(f))
  BY <1>1 DEF MemoryInv, Linked, Ordered, Counted
<1>3. Held(f) \in [Objects -> Nat]
        /\ \A o \in Objects : Holds(c, o) = Holds(f[t], o)
                                /\ Holds(f[t], o) \in Nat
  BY <1>1, HeldStep DEF Holds
<1>4. \A o \in Objects : Held(f)[o] = Held(f)[o] - Holds(f[t], o) + Holds(c, o)
  BY <1>3
<1>5. Private(m2, c) /\ Within(m2, size)
  BY <1>1 DEF Private, Within
<1> QED BY <1>2, <1>3, <1>4, <1>5, Advance

(* The session found has timed out.                                        *)
LEMMA CheckTimedoutInv ==
  ASSUME CacheInv, NEW t \in Threads, CheckTimedout(t), size' = size
  PROVE  CacheInv'
<1> DEFINE c == [conn[t] EXCEPT !.pc = "remove", !.after = "miss"]
<1>1. /\ StateInv(Memory, conn) /\ Memory \in Memories
      /\ conn \in [Threads -> Connections] /\ conn[t] \in Connections
      /\ Place(conn[t])
  BY Before
<1>2. conn[t].pc = "check" /\ conn' = [conn EXCEPT ![t] = c]
        /\ Memory' = Memory /\ now' = now
  BY <1>1 DEF CheckTimedout, cache, Memory
<1>3. c \in Connections /\ c.pc = "remove" /\ c.after = "miss"
        /\ c.session = conn[t].session /\ c.ret = conn[t].ret
        /\ c.removed = conn[t].removed
  BY <1>1 DEF Connections
<1>4. Place(c) /\ Private(Memory, c)
  BY <1>1, <1>2, <1>3 DEF Place, HasRet, HasNone, Private
<1> HIDE DEF c
<1>5. StateInv(Memory, [conn EXCEPT ![t] = c])
  BY <1>1, <1>3, <1>4, AdvanceOnly
<1> QED BY <1>2, <1>5 DEF CacheInv, StateInv, Within

(* No memory or no id for a new session.                                   *)
LEMMA NewSessionFailsInv ==
  ASSUME CacheInv, NEW t \in Threads, NewSessionFails(t), size' = size
  PROVE  CacheInv'
<1>1. /\ StateInv(Memory, conn) /\ Memory \in Memories
      /\ conn[t] \in Connections /\ Place(conn[t])
  BY Before
<1>2. conn[t].pc = "miss" /\ conn' = [conn EXCEPT ![t] = Idle]
        /\ Memory' = Memory /\ now' = now
  BY <1>1 DEF NewSessionFails, cache, Memory
<1>3. Idle \in Connections /\ Idle.session = conn[t].session
        /\ Idle.ret = conn[t].ret /\ Idle.removed = conn[t].removed
  BY <1>1, <1>2, SessCacheAssumption
     DEF Idle, Connections, Times, Place, HasRet, HasNone
<1>4. Place(Idle) /\ Private(Memory, Idle)
  BY DEF Idle, Place, HasRet, HasNone, Private
<1>5. StateInv(Memory, [conn EXCEPT ![t] = Idle])
  BY <1>1, <1>3, <1>4, AdvanceOnly
<1> QED BY <1>2, <1>5 DEF CacheInv, StateInv, Within

(* A fatal alert: the session is to be removed.                            *)
LEMMA FatalAlertInv ==
  ASSUME CacheInv, NEW t \in Threads, FatalAlert(t), size' = size
  PROVE  CacheInv'
<1> DEFINE c == [conn[t] EXCEPT !.pc = "remove", !.after = "failed"]
<1>1. /\ StateInv(Memory, conn) /\ Memory \in Memories
      /\ conn \in [Threads -> Connections] /\ conn[t] \in Connections
      /\ Place(conn[t])
  BY Before
<1>2. conn[t].pc \in {"handshake", "connected"}
        /\ conn' = [conn EXCEPT ![t] = c] /\ Memory' = Memory /\ now' = now
  BY <1>1 DEF FatalAlert, cache, Memory
<1>3. c \in Connections /\ c.pc = "remove" /\ c.after = "failed"
        /\ c.session = conn[t].session /\ c.ret = conn[t].ret
        /\ c.removed = conn[t].removed
  BY <1>1 DEF Connections
<1>4. Place(c) /\ Private(Memory, c)
  BY <1>1, <1>2, <1>3 DEF Place, HasRet, HasNone, Private
<1> HIDE DEF c
<1>5. StateInv(Memory, [conn EXCEPT ![t] = c])
  BY <1>1, <1>3, <1>4, AdvanceOnly
<1> QED BY <1>2, <1>5 DEF CacheInv, StateInv, Within

(* SSL_free without close_notify: the session is to be removed.            *)
LEMMA CloseAbruptlyInv ==
  ASSUME CacheInv, NEW t \in Threads, CloseAbruptly(t), size' = size
  PROVE  CacheInv'
<1> DEFINE c == [conn[t] EXCEPT !.pc = "remove"]
<1>1. /\ StateInv(Memory, conn) /\ Memory \in Memories
      /\ conn \in [Threads -> Connections] /\ conn[t] \in Connections
      /\ Place(conn[t])
  BY Before
<1>2. conn[t].pc = "connected" /\ conn' = [conn EXCEPT ![t] = c]
        /\ Memory' = Memory /\ now' = now
  BY <1>1 DEF CloseAbruptly, cache, Memory
<1>3. c \in Connections /\ c.pc = "remove" /\ c.after = conn[t].after
        /\ c.session = conn[t].session /\ c.ret = conn[t].ret
        /\ c.removed = conn[t].removed
  BY <1>1 DEF Connections
<1>4. Place(c) /\ Private(Memory, c)
  BY <1>1, <1>2, <1>3 DEF Place, HasRet, HasNone, Private
<1> HIDE DEF c
<1>5. StateInv(Memory, [conn EXCEPT ![t] = c])
  BY <1>1, <1>3, <1>4, AdvanceOnly
<1> QED BY <1>2, <1>5 DEF CacheInv, StateInv, Within

(* The external cache has nothing, or not yet.                             *)
LEMMA CallbackMissInv ==
  ASSUME CacheInv, NEW t \in Threads, CallbackMiss(t), size' = size
  PROVE  CacheInv'
<1>1. /\ StateInv(Memory, conn) /\ Memory \in Memories
      /\ conn \in [Threads -> Connections] /\ conn[t] \in Connections
      /\ Place(conn[t]) /\ Memory.store = store
  BY Before
<1>2. PICK pending \in BOOLEAN :
        /\ store' = IF pending THEN store ELSE [store EXCEPT ![conn[t].id] = NULL]
        /\ conn' = [conn EXCEPT ![t].id = NULL, ![t].waiting = pending,
                                ![t].pc = "miss"]
  BY DEF CallbackMiss
<1> DEFINE c == [conn[t] EXCEPT !.id = NULL, !.waiting = pending, !.pc = "miss"]
<1>3. conn[t].pc = "callback" /\ conn' = [conn EXCEPT ![t] = c]
        /\ obj' = obj /\ hash' = hash /\ list' = list /\ now' = now
  BY <1>1, <1>2 DEF CallbackMiss
<1>4. c \in Connections /\ c.pc = "miss" /\ c.after = conn[t].after
        /\ c.session = conn[t].session /\ c.ret = conn[t].ret
        /\ c.removed = conn[t].removed
  BY <1>1 DEF Connections
<1>5. Place(c) /\ Private(Memory, c)
  BY <1>1, <1>3, <1>4 DEF Place, HasRet, HasNone, Private
<1> HIDE DEF c
<1>6. store' \in [Ids -> Entries \cup {NULL}]
  BY <1>1, <1>2, MemoryTypes
<1>7. Memory' \in Memories /\ Memory'.obj = Memory.obj
        /\ Memory'.hash = Memory.hash /\ Memory'.list = Memory.list
  BY <1>1, <1>3, <1>6 DEF Memory, Memories
<1>8. StateInv(Memory', [conn EXCEPT ![t] = c])
  BY <1>1, <1>4, <1>5, <1>7, AdvanceOnly
<1> QED BY <1>3, <1>8 DEF CacheInv, StateInv, Within

(* The external cache gets the new session.                                *)
LEMMA NewCallbackInv ==
  ASSUME CacheInv, NEW t \in Threads, NewCallback(t), size' = size
  PROVE  CacheInv'
<1> DEFINE c == [conn[t] EXCEPT !.pc = "connected"]
           s == obj[conn[t].session]
           e == [time |-> s.time, timeout |-> s.timeout, expire |-> now + Timeout]
<1>1. /\ StateInv(Memory, conn) /\ Memory \in Memories
      /\ conn \in [Threads -> Connections] /\ conn[t] \in Connections
      /\ Place(conn[t]) /\ Memory.store = store /\ Memory.obj = obj
      /\ now \in Times
  BY Before
<1>2. PICK keep \in SUBSET Ids :
        store' = [i \in Ids |-> CASE i = s.id -> e
                                  [] i # s.id /\ i \in keep -> store[i]
                                  [] OTHER -> NULL]
  BY DEF NewCallback
<1>3. conn[t].pc = "newCb" /\ conn' = [conn EXCEPT ![t] = c]
        /\ obj' = obj /\ hash' = hash /\ list' = list /\ now' = now
  BY <1>1 DEF NewCallback, Goto
<1>4. c \in Connections /\ c.pc = "connected" /\ c.after = conn[t].after
        /\ c.session = conn[t].session /\ c.ret = conn[t].ret
        /\ c.removed = conn[t].removed
  BY <1>1 DEF Connections
<1>5. Place(c) /\ Private(Memory, c)
  BY <1>1, <1>3, <1>4 DEF Place, HasRet, HasNone, Private
<1> HIDE DEF c
<1>6. store' \in [Ids -> Entries \cup {NULL}]
  <2>1. conn[t].session \in Objects
    BY <1>1, <1>3 DEF Place, HasRet, HasNone, Connections
  <2>2. s \in Sessions
    BY <1>1, <2>1, MemoryTypes
  <2>3. e \in Entries
    BY <1>1, <2>2, SessCacheAssumption DEF Sessions, Entries, Times
  <2>4. store \in [Ids -> Entries \cup {NULL}]
    BY <1>1, MemoryTypes
  <2> HIDE DEF e, s
  <2> QED BY <1>2, <2>3, <2>4
<1>7. Memory' \in Memories /\ Memory'.obj = Memory.obj
        /\ Memory'.hash = Memory.hash /\ Memory'.list = Memory.list
  BY <1>1, <1>3, <1>6 DEF Memory, Memories
<1>8. StateInv(Memory', [conn EXCEPT ![t] = c])
  BY <1>1, <1>4, <1>5, <1>7, AdvanceOnly
<1> QED BY <1>3, <1>8 DEF CacheInv, StateInv, Within

(* The session found is resumed: s->session takes the reference over.      *)
LEMMA CheckResumesInv ==
  ASSUME CacheInv, NEW t \in Threads, CheckResumes(t), size' = size
  PROVE  CacheInv'
<1> DEFINE c == [conn[t] EXCEPT !.session = conn[t].ret, !.ret = NULL,
                                !.hit = TRUE, !.pc = "handshake"]
<1>1. /\ StateInv(Memory, conn) /\ MemoryInv(Memory, NULL, Held(conn))
      /\ conn \in [Threads -> Connections] /\ conn[t] \in Connections
      /\ Place(conn[t]) /\ Within(Memory, size)
      /\ Held(conn) \in [Objects -> Nat] /\ \A o \in Objects : o # NULL
  BY Before
<1>2. conn[t].pc = "check" /\ conn' = [conn EXCEPT ![t] = c]
        /\ Memory' = Memory /\ now' = now
  BY <1>1 DEF CheckResumes, cache, Memory
<1>3. conn[t].ret \in Objects /\ conn[t].session = NULL
        /\ conn[t].removed = {} /\ conn[t].after = "idle"
  BY <1>1, <1>2 DEF Connections, Place, HasRet, HasNone
<1>4. c \in Connections /\ c.pc = "handshake" /\ c.after = "idle"
        /\ c.session = conn[t].ret /\ c.ret = NULL
        /\ c.removed = {} /\ c.hit = TRUE
  BY <1>1, <1>3 DEF Connections
<1> HIDE DEF c
<1>5. Place(c) /\ Private(Memory, c)
  BY <1>1, <1>3, <1>4 DEF Place, HasRet, HasNone, Private
<1>6. \A o \in Objects :
        Held(conn)[o] = Held(conn)[o] - Holds(conn[t], o) + Holds(c, o)
  <2>1. \A o \in Objects : Holds(conn[t], o) = Holds(c, o)
                             /\ Holds(c, o) \in Nat
    BY <1>1, <1>3, <1>4 DEF Holds
  <2> QED BY <1>1, <2>1
<1>7. StateInv(Memory, [conn EXCEPT ![t] = c])
  BY <1>1, <1>4, <1>5, <1>6, Advance
<1> QED BY <1>2, <1>7 DEF CacheInv, StateInv, Within

(* A step in which a thread drops references.                              *)
LEMMA AdvanceFree ==
  ASSUME NEW m, NEW f, StateInv(m, f), NEW t \in Threads,
         NEW c \in Connections, Place(c), c.pc \notin {"store", "handshake"},
         NEW gone \in SUBSET Objects,
         \A o \in Objects : Holds(f[t], o) =
                              Holds(c, o) + (IF o \in gone THEN 1 ELSE 0)
  PROVE  StateInv(FreeAll(m, gone), [f EXCEPT ![t] = c])
<1> DEFINE h == [o \in Objects |-> Held(f)[o] - (IF o \in gone THEN 1 ELSE 0)]
           r == FreeAll(m, gone)
<1>1. /\ MemoryInv(m, NULL, Held(f)) /\ f \in [Threads -> Connections]
      /\ Within(m, size) /\ m \in Memories
  BY DEF StateInv, MemoryInv
<1>2. /\ Held(f) \in [Objects -> Nat]
      /\ \A o \in Objects : Held(f)[o] >= Holds(f[t], o)
  BY <1>1, HeldStep
<1>3. \A o \in Objects : Holds(c, o) \in Nat /\ Holds(f[t], o) \in Nat
  BY DEF Holds
<1>4. \A o \in gone : Held(f)[o] > 0 /\ Holds(f[t], o) > 0
  BY <1>2, <1>3
<1>5. h \in [Objects -> Nat]
  BY <1>2, <1>4
<1>6. MemoryInv(r, NULL, h)
  BY <1>1, <1>2, <1>4, FreeAllInv
<1>7. r.list = m.list /\ \A o \in Objects : o \notin gone => r.obj[o] = m.obj[o]
  BY <1>1, FreeAllFields
<1>8. \A o \in Objects : h[o] = Held(f)[o] - Holds(f[t], o) + Holds(c, o)
  BY <1>2, <1>3
<1> HIDE DEF h, r
<1>9. Private(r, c) /\ Within(r, size)
  BY <1>1, <1>7 DEF Private, Within
<1>10. StateInv(r, [f EXCEPT ![t] = c])
  BY <1>4, <1>5, <1>6, <1>7, <1>8, <1>9, Advance
<1> QED BY <1>10 DEF r

(* The end of a connection that has one reference, to o.                   *)
LEMMA DropInv ==
  ASSUME CacheInv, NEW t \in Threads, NEW o \in Objects,
         NEW c \in Connections, Place(c), c.pc \notin {"store", "handshake"},
         \A x \in Objects : /\ Holds(conn[t], x) = IF x = o THEN 1 ELSE 0
                            /\ Holds(c, x) = 0
  PROVE  StateInv(Free(Memory, o), [conn EXCEPT ![t] = c])
           /\ Free(Memory, o) \in Memories
<1>1. StateInv(Memory, conn) /\ Memory \in Memories
  BY Before
<1>2. Free(Memory, o) = FreeAll(Memory, {o})
  BY <1>1, FreeOne
<1>3. \A x \in Objects : Holds(conn[t], x) =
                           Holds(c, x) + (IF x \in {o} THEN 1 ELSE 0)
  OBVIOUS
<1>4. StateInv(FreeAll(Memory, {o}), [conn EXCEPT ![t] = c])
  BY <1>1, <1>3, AdvanceFree
<1> QED BY <1>2, <1>4 DEF StateInv, MemoryInv

(* A session of another version or context.                                *)
LEMMA CheckMismatchInv ==
  ASSUME CacheInv, NEW t \in Threads, CheckMismatch(t), size' = size
  PROVE  CacheInv'
<1> DEFINE c == [conn[t] EXCEPT !.ret = NULL, !.pc = "miss"]
           r == Free(Memory, conn[t].ret)
<1>1. /\ conn \in [Threads -> Connections] /\ conn[t] \in Connections
      /\ Place(conn[t]) /\ \A o \in Objects : o # NULL
  BY Before
<1>2. conn[t].pc = "check" /\ conn' = [conn EXCEPT ![t] = c]
        /\ SetMemory(r) /\ now' = now
  BY <1>1 DEF CheckMismatch
<1>3. conn[t].ret \in Objects /\ conn[t].session = NULL
        /\ conn[t].removed = {} /\ conn[t].after = "idle"
  BY <1>1, <1>2 DEF Connections, Place, HasRet, HasNone
<1>4. c \in Connections /\ c.pc = "miss" /\ c.after = "idle"
        /\ c.session = NULL /\ c.ret = NULL /\ c.removed = {}
  BY <1>1, <1>3 DEF Connections
<1> HIDE DEF c, r
<1>5. Place(c)
  BY <1>4 DEF Place, HasRet, HasNone
<1>6. \A o \in Objects : Holds(conn[t], o) = IF o = conn[t].ret THEN 1 ELSE 0
  BY <1>1, <1>3 DEF Holds
<1>7. \A o \in Objects : Holds(c, o) = 0
  BY <1>1, <1>4 DEF Holds
<1>8. StateInv(r, [conn EXCEPT ![t] = c]) /\ r \in Memories
  BY <1>3, <1>4, <1>5, <1>6, <1>7, DropInv DEF r
<1>9. Memory' = r
  BY <1>2, <1>8, MemoryIs DEF SetMemory, Memory
<1> QED BY <1>2, <1>8, <1>9 DEF CacheInv, StateInv, Within

(* A connection without references.                                        *)
LEMMA IdleFacts ==
  /\ Idle \in Connections /\ Place(Idle)
  /\ Idle.pc \notin {"store", "handshake"}
  /\ \A o \in Objects : Holds(Idle, o) = 0
<1>1. Idle \in Connections
  BY SessCacheAssumption DEF Idle, Connections, Times
<1>2. Place(Idle) /\ Idle.pc \notin {"store", "handshake"}
  BY DEF Idle, Place, HasRet, HasNone
<1>3. \A o \in Objects : Holds(Idle, o) = 0
  BY SessCacheAssumption DEF Idle, Holds
<1> QED BY <1>1, <1>2, <1>3

(* A session that ends the handshake.                                      *)
LEMMA CheckFatalInv ==
  ASSUME CacheInv, NEW t \in Threads, CheckFatal(t), size' = size
  PROVE  CacheInv'
<1> DEFINE r == Free(Memory, conn[t].ret)
<1>1. /\ conn[t] \in Connections
      /\ Place(conn[t]) /\ \A o \in Objects : o # NULL
  BY Before
<1>2. conn[t].pc = "check" /\ conn' = [conn EXCEPT ![t] = Idle]
        /\ SetMemory(r) /\ now' = now
  BY DEF CheckFatal
<1>3. conn[t].ret \in Objects /\ conn[t].session = NULL
        /\ conn[t].removed = {}
  BY <1>1, <1>2 DEF Connections, Place, HasRet, HasNone
<1>4. \A o \in Objects : Holds(conn[t], o) = IF o = conn[t].ret THEN 1 ELSE 0
  BY <1>1, <1>3 DEF Holds
<1>5. StateInv(r, [conn EXCEPT ![t] = Idle]) /\ r \in Memories
  BY <1>3, <1>4, IdleFacts, DropInv
<1> HIDE DEF r
<1>6. Memory' = r
  BY <1>2, <1>5, MemoryIs DEF SetMemory, Memory
<1> QED BY <1>2, <1>5, <1>6 DEF CacheInv, StateInv, Within

(* SSL_free of a connection.                                               *)
LEMMA CloseCleanlyInv ==
  ASSUME CacheInv, NEW t \in Threads, CloseCleanly(t), size' = size
  PROVE  CacheInv'
<1> DEFINE r == Free(Memory, conn[t].session)
<1>1. /\ conn[t] \in Connections
      /\ Place(conn[t]) /\ \A o \in Objects : o # NULL
  BY Before
<1>2. conn[t].pc \in {"handshake", "connected", "failed"}
        /\ conn' = [conn EXCEPT ![t] = Idle] /\ SetMemory(r) /\ now' = now
  BY DEF CloseCleanly
<1>3. conn[t].session \in Objects /\ conn[t].ret = NULL
        /\ conn[t].removed = {}
  BY <1>1, <1>2 DEF Connections, Place, HasRet, HasNone
<1>4. \A o \in Objects :
        Holds(conn[t], o) = IF o = conn[t].session THEN 1 ELSE 0
  BY <1>1, <1>3 DEF Holds
<1>5. StateInv(r, [conn EXCEPT ![t] = Idle]) /\ r \in Memories
  BY <1>3, <1>4, IdleFacts, DropInv
<1> HIDE DEF r
<1>6. Memory' = r
  BY <1>2, <1>5, MemoryIs DEF SetMemory, Memory
<1> QED BY <1>2, <1>5, <1>6 DEF CacheInv, StateInv, Within

(* The end of SSL_CTX_flush_sessions: the references are dropped.          *)
LEMMA FlushFreeInv ==
  ASSUME CacheInv, NEW t \in Threads, FlushFree(t), size' = size
  PROVE  CacheInv'
<1> DEFINE c == [conn[t] EXCEPT !.removed = {}, !.pc = "connected"]
           r == FreeAll(Memory, conn[t].removed)
<1>1. /\ StateInv(Memory, conn)
      /\ conn \in [Threads -> Connections] /\ conn[t] \in Connections
      /\ Place(conn[t]) /\ \A o \in Objects : o # NULL
  BY Before
<1>2. conn[t].pc = "flushed" /\ conn' = [conn EXCEPT ![t] = c]
        /\ SetMemory(r) /\ now' = now
  BY <1>1 DEF FlushFree
<1>3. conn[t].removed \in SUBSET Objects
  BY <1>1 DEF Connections
<1>4. c \in Connections /\ c.pc = "connected" /\ c.after = conn[t].after
        /\ c.session = conn[t].session /\ c.ret = conn[t].ret
        /\ c.removed = {}
  BY <1>1 DEF Connections
<1> HIDE DEF c
<1>5. Place(c)
  BY <1>1, <1>2, <1>4 DEF Place, HasRet, HasNone
<1>6. \A o \in Objects : Holds(conn[t], o) =
        Holds(c, o) + (IF o \in conn[t].removed THEN 1 ELSE 0)
  BY <1>4 DEF Holds
<1>7. StateInv(r, [conn EXCEPT ![t] = c])
  BY <1>1, <1>3, <1>4, <1>5, <1>6, AdvanceFree
<1> HIDE DEF r
<1>8. Memory' = r
  BY <1>2, <1>7, MemoryIs DEF SetMemory, Memory, StateInv, MemoryInv
<1> QED BY <1>2, <1>7, <1>8 DEF CacheInv, StateInv, Within

(* lookup_sess_in_cache: the reference is taken under the lock.            *)
LEMMA LookupInv ==
  ASSUME CacheInv, NEW t \in Threads, NEW i \in Ids, Lookup(t, i), size' = size
  PROVE  CacheInv'
<1> DEFINE c == [conn[t] EXCEPT !.ret = hash[i],
                   !.id = IF hash[i] = NULL THEN i ELSE NULL,
                   !.pc = IF hash[i] = NULL THEN "callback" ELSE "check"]
<1>1. /\ StateInv(Memory, conn) /\ MemoryInv(Memory, NULL, Held(conn))
      /\ Memory \in Memories /\ Linked(Memory, NULL)
      /\ Counted(Memory, NULL, Held(conn)) /\ Within(Memory, size)
      /\ conn \in [Threads -> Connections] /\ conn[t] \in Connections
      /\ Place(conn[t]) /\ \A o \in Objects : o # NULL
      /\ Held(conn) \in [Objects -> Nat]
      /\ Memory.hash = hash
  BY Before
<1>2. conn[t].pc = "idle" /\ conn' = [conn EXCEPT ![t] = c] /\ now' = now
  BY <1>1 DEF Lookup
<1>3. hash[i] \in Objects \cup {NULL}
  BY <1>1, MemoryTypes
<1>4. conn[t].ret = NULL /\ conn[t].session = NULL
        /\ conn[t].removed = {} /\ conn[t].after = "idle"
  BY <1>1, <1>2 DEF Connections, Place, HasRet, HasNone
<1>5. c \in Connections /\ c.ret = hash[i]
        /\ c.session = NULL /\ c.removed = {} /\ c.after = "idle"
        /\ (hash[i] = NULL => c.pc = "callback" /\ c.id = i)
        /\ (hash[i] # NULL => c.pc = "check")
  BY <1>1, <1>3, <1>4 DEF Connections
<1> HIDE DEF c
<1>6. Place(c) /\ \A m : Private(m, c)
  BY <1>5 DEF Place, HasRet, HasNone, Private
<1>7. CASE hash[i] = NULL
  <2>1. Memory' = Memory
    BY <1>7 DEF Lookup, SetMemory, Memory
  <2>2. StateInv(Memory, [conn EXCEPT ![t] = c])
    BY <1>1, <1>4, <1>5, <1>6, <1>7, AdvanceOnly
  <2> QED BY <1>2, <2>1, <2>2 DEF CacheInv, StateInv, Within
<1>8. CASE hash[i] # NULL
  <2> DEFINE o == hash[i]
             r == UpRef(Memory, o)
             h == [Held(conn) EXCEPT ![o] = @ + 1]
  <2>1. o \in Objects /\ SetMemory(r)
    BY <1>3, <1>8 DEF Lookup
  <2>2. Memory.obj[o].owner
    BY <1>1, <1>8, <2>1 DEF Linked
  <2>3. Memory.obj[o].references > 0
    BY <1>1, <2>1, <2>2 DEF Counted
  <2>4. MemoryInv(r, NULL, h) /\ h \in [Objects -> Nat]
    <3> HIDE DEF o
    <3>1. h \in [Objects -> Nat]
      BY <1>1, <2>1
    <3> QED BY <1>1, <2>1, <2>3, <3>1, UpRefInv
  <2>5. r \in Memories /\ r.list = Memory.list
          /\ \A x \in Objects : x # o => r.obj[x] = Memory.obj[x]
    BY <1>1, <2>1, UpRefFields
  <2>6. \A x \in Objects :
          h[x] = Held(conn)[x] - Holds(conn[t], x) + Holds(c, x)
    <3>1. \A x \in Objects : Holds(conn[t], x) = 0
      BY <1>1, <1>4 DEF Holds
    <3>2. \A x \in Objects : Holds(c, x) = IF x = o THEN 1 ELSE 0
      BY <1>1, <1>5 DEF Holds
    <3> QED BY <1>1, <2>1, <3>1, <3>2
  <2> HIDE DEF r, h
  <2>7. Within(r, size)
    BY <1>1, <2>5 DEF Within
  <2>8. \A x \in Objects : r.obj[x] = Memory.obj[x] \/ Memory.obj[x].owner
    BY <2>2, <2>5
  <2> HIDE DEF o
  <2>9. StateInv(r, [conn EXCEPT ![t] = c])
    <3>1. Private(r, c)
      BY <1>6
    <3> QED BY <1>1, <1>5, <1>6, <2>4, <2>6, <2>7, <2>8, <3>1, Advance
  <2>10. Memory' = r
    BY <2>1, <2>5, MemoryIs DEF SetMemory, Memory
  <2> QED BY <1>2, <2>9, <2>10 DEF CacheInv, StateInv, Within
<1> QED BY <1>7, <1>8

(* An unused object becomes a session with one reference.                  *)
LEMMA BirthInv ==
  ASSUME NEW m, NEW held \in [Objects -> Nat], MemoryInv(m, NULL, held),
         NEW o \in Objects, m.obj[o].references = 0,
         NEW r \in Memories, r.hash = m.hash, r.list = m.list,
         \A x \in Objects : x # o => r.obj[x] = m.obj[x],
         r.obj[o].references = 1, ~r.obj[o].owner, r.obj[o].id \in Ids,
         NEW h, h[o] = held[o] + 1, \A x \in Objects : x # o => h[x] = held[x]
  PROVE  MemoryInv(r, NULL, h)
<1>0. m \in Memories /\ Counted(m, NULL, held)
        /\ \A x \in Objects : x # NULL
  BY SessCacheAssumption DEF MemoryInv
<1>1. h[o] = 1 /\ ~m.obj[o].owner
  <2>1. m.obj[o] = Unused
    BY <1>0 DEF Counted
  <2>2. ~m.obj[o].owner
    BY <2>1 DEF Unused
  <2> QED BY <1>0, <2>2 DEF Counted
<1>2. \A x \in Objects :
        /\ r.obj[x].owner = m.obj[x].owner
        /\ m.obj[x].owner => Alike(r.obj[x], m.obj[x])
  <2>1. r.obj[o].owner = m.obj[o].owner
    <3>1. r.obj[o].owner \in BOOLEAN /\ m.obj[o].owner \in BOOLEAN
      BY <1>0, MemoryTypes
    <3> QED BY <1>1, <3>1
  <2> QED BY <1>1, <2>1 DEF Alike
<1>3. Counted(r, NULL, h)
  <2> SUFFICES ASSUME NEW x \in Objects
               PROVE  /\ r.obj[x].references = h[x]
                           + (IF r.obj[x].owner \/ x = NULL THEN 1 ELSE 0)
                      /\ r.obj[x].references = 0 => r.obj[x] = Unused
                      /\ r.obj[x].references > 0 => r.obj[x].id \in Ids
    BY DEF Counted
  <2>1. CASE x # o
    BY <1>0, <2>1 DEF Counted
  <2>2. CASE x = o
    BY <1>0, <1>1, <2>2
  <2> QED BY <2>1, <2>2
<1> QED BY <1>0, <1>2, <1>3, Untouched

(* A connection gets the new object o.                                     *)
LEMMA AdvanceBirth ==
  ASSUME CacheInv, NEW t \in Threads, NEW o \in Objects,
         obj[o].references = 0,
         NEW q \in Sessions, q.references = 1, ~q.owner, q.id \in Ids,
         ~q.not_resumable,
         NEW c \in Connections, Place(c),
         c.pc = "store" => c.ret = o,
         c.pc = "handshake" => c.session = o,
         \A x \in Objects :
           Holds(c, x) = Holds(conn[t], x) + (IF x = o THEN 1 ELSE 0),
         NEW r, r = [obj |-> [obj EXCEPT ![o] = q], hash |-> hash,
                     list |-> list, store |-> store]
  PROVE  StateInv(r, [conn EXCEPT ![t] = c])
<1> DEFINE h == [Held(conn) EXCEPT ![o] = @ + 1]
<1>1. /\ StateInv(Memory, conn) /\ MemoryInv(Memory, NULL, Held(conn))
      /\ Memory \in Memories
      /\ Held(conn) \in [Objects -> Nat] /\ Within(Memory, size)
      /\ Memory.obj = obj /\ Memory.hash = hash /\ Memory.list = list
      /\ Memory.store = store
      /\ \A x \in Objects : Holds(conn[t], x) \in Nat
  BY Before
<1>2. obj \in [Objects -> Sessions] /\ hash \in [Ids -> Objects \cup {NULL}]
        /\ list \in Seq(Objects) /\ store \in [Ids -> Entries \cup {NULL}]
  BY <1>1, MemoryTypes
<1>3. /\ r.hash = Memory.hash /\ r.list = Memory.list /\ r.obj[o] = q
      /\ \A x \in Objects : x # o => r.obj[x] = Memory.obj[x]
  BY <1>1, <1>2
<1>4. r \in Memories
  <2>1. [obj EXCEPT ![o] = q] \in [Objects -> Sessions]
    BY <1>2
  <2> QED BY <1>2, <2>1 DEF Memories
<1>5. h \in [Objects -> Nat] /\ h[o] = Held(conn)[o] + 1
        /\ \A x \in Objects : x # o => h[x] = Held(conn)[x]
  BY <1>1
<1> HIDE DEF h
<1>6. MemoryInv(r, NULL, h)
  <2>1. Memory.obj[o].references = 0 /\ r.obj[o].references = 1
          /\ ~r.obj[o].owner /\ r.obj[o].id \in Ids
    BY <1>1, <1>3
  <2> QED BY ONLY <1>1, <1>3, <1>4, <1>5, <2>1, o \in Objects, BirthInv
<1>7. \A x \in Objects : h[x] = Held(conn)[x] - Holds(conn[t], x) + Holds(c, x)
  <2> SUFFICES ASSUME NEW x \in Objects
               PROVE  h[x] = Held(conn)[x] - Holds(conn[t], x) + Holds(c, x)
    OBVIOUS
  <2>1. Held(conn)[x] \in Nat /\ Holds(conn[t], x) \in Nat
    BY <1>1
  <2>2. CASE x = o
    BY <1>5, <2>1, <2>2
  <2>3. CASE x # o
    BY <1>5, <2>1, <2>3
  <2> QED BY <2>2, <2>3
<1>8. Private(r, c) /\ Within(r, size)
  BY <1>1, <1>3 DEF Private, Within
<1>9. \A x \in Objects :
        r.obj[x] = Memory.obj[x] \/ Memory.obj[x].references = 0
  BY <1>1, <1>3
<1> QED BY ONLY <1>1, <1>5, <1>6, <1>7, <1>8, <1>9, t \in Threads,
                c \in Connections, Place(c), Advance

(* A new object and the session it becomes.                                *)
LEMMA NewSessionValue ==
  ASSUME NEW i \in Ids, NEW a \in Times, NEW b \in Times
  PROVE  LET q == SSL_SESSION_new(i, a, b) IN
         /\ q \in Sessions /\ q.references = 1 /\ ~q.owner /\ q.id = i
         /\ ~q.not_resumable
BY DEF SSL_SESSION_new, Unused, Sessions

(* The external cache has the session.                                     *)
LEMMA CallbackHitInv ==
  ASSUME CacheInv, NEW t \in Threads, CallbackHit(t), size' = size
  PROVE  CacheInv'
<1> DEFINE i == conn[t].id
           e == store[i]
           q == SSL_SESSION_new(i, e.time, e.timeout)
<1>1. /\ Memory \in Memories
      /\ conn \in [Threads -> Connections] /\ conn[t] \in Connections
      /\ Place(conn[t]) /\ Memory.store = store
      /\ \A x \in Objects : x # NULL
  BY Before
<1>2. PICK o \in Available :
        /\ obj' = [obj EXCEPT ![o] = q]
        /\ conn' = [conn EXCEPT ![t].id = NULL, ![t].ret = o, ![t].pc = "store"]
  BY DEF CallbackHit
<1> DEFINE c == [conn[t] EXCEPT !.id = NULL, !.ret = o, !.pc = "store"]
           r == [obj |-> [obj EXCEPT ![o] = q], hash |-> hash, list |-> list,
                 store |-> store]
<1>3. conn[t].pc = "callback" /\ conn' = [conn EXCEPT ![t] = c]
        /\ e # NULL /\ hash' = hash /\ list' = list /\ store' = store
        /\ now' = now
  BY <1>1, <1>2 DEF CallbackHit
<1>4. o \in Objects /\ obj[o].references = 0
  BY <1>2 DEF Available
<1>5. conn[t].ret = NULL /\ conn[t].session = NULL /\ i \in Ids
        /\ conn[t].removed = {} /\ conn[t].after = "idle"
  BY <1>1, <1>3 DEF Connections, Place, HasRet, HasNone
<1>6. e.time \in Times /\ e.timeout \in Times
  <2>1. e \in Entries
    BY <1>1, <1>3, <1>5, MemoryTypes
  <2> QED BY <2>1 DEF Entries
<1>7. /\ q \in Sessions /\ q.references = 1 /\ ~q.owner /\ q.id \in Ids
      /\ ~q.not_resumable
  BY <1>5, <1>6, NewSessionValue
<1>8. c \in Connections /\ c.pc = "store" /\ c.ret = o
        /\ c.session = NULL /\ c.removed = {} /\ c.after = "idle"
  BY <1>1, <1>4, <1>5 DEF Connections
<1>9. Memory' = r
  BY <1>2, <1>3 DEF Memory
<1> HIDE DEF c, q, r
<1>10. Place(c)
  BY <1>1, <1>4, <1>8 DEF Place, HasRet, HasNone
<1>11. \A x \in Objects :
         Holds(c, x) = Holds(conn[t], x) + (IF x = o THEN 1 ELSE 0)
  BY <1>1, <1>5, <1>8 DEF Holds
<1>12. StateInv(r, [conn EXCEPT ![t] = c])
  BY <1>4, <1>7, <1>8, <1>10, <1>11, AdvanceBirth DEF r
<1> QED BY <1>3, <1>9, <1>12 DEF CacheInv, StateInv, Within

(* ssl_get_new_session.                                                    *)
LEMMA NewSessionInv ==
  ASSUME CacheInv, NEW t \in Threads, NewSession(t), size' = size
  PROVE  CacheInv'
<1>1. /\ conn \in [Threads -> Connections] /\ conn[t] \in Connections
      /\ Place(conn[t]) /\ now \in Times
      /\ \A x \in Objects : x # NULL
  BY Before
<1>2. PICK o \in Available, i \in Ids :
        /\ obj' = [obj EXCEPT ![o] = SSL_SESSION_new(i, now, Timeout)]
        /\ conn' = [conn EXCEPT ![t].session = o, ![t].pc = "handshake"]
  BY DEF NewSession
<1> DEFINE c == [conn[t] EXCEPT !.session = o, !.pc = "handshake"]
           q == SSL_SESSION_new(i, now, Timeout)
           r == [obj |-> [obj EXCEPT ![o] = q], hash |-> hash, list |-> list,
                 store |-> store]
<1>3. conn[t].pc \in {"idle", "miss"} /\ conn' = [conn EXCEPT ![t] = c]
        /\ hash' = hash /\ list' = list /\ store' = store /\ now' = now
  BY <1>1, <1>2 DEF NewSession
<1>4. o \in Objects /\ obj[o].references = 0
  BY <1>2 DEF Available
<1>5. conn[t].ret = NULL /\ conn[t].session = NULL
        /\ conn[t].removed = {} /\ conn[t].after = "idle"
  BY <1>1, <1>3 DEF Connections, Place, HasRet, HasNone
<1>6. Timeout \in Times
  BY SessCacheAssumption DEF Times
<1>7. /\ q \in Sessions /\ q.references = 1 /\ ~q.owner /\ q.id \in Ids
      /\ ~q.not_resumable
  BY <1>1, <1>6, NewSessionValue
<1>8. c \in Connections /\ c.pc = "handshake" /\ c.session = o
        /\ c.ret = NULL /\ c.removed = {} /\ c.after = "idle"
  BY <1>1, <1>4, <1>5 DEF Connections
<1>9. Memory' = r
  BY <1>2, <1>3 DEF Memory
<1> HIDE DEF c, q, r
<1>10. Place(c)
  BY <1>1, <1>4, <1>8 DEF Place, HasRet, HasNone
<1>11. \A x \in Objects :
         Holds(c, x) = Holds(conn[t], x) + (IF x = o THEN 1 ELSE 0)
  BY <1>1, <1>5, <1>8 DEF Holds
<1>12. StateInv(r, [conn EXCEPT ![t] = c])
  BY <1>4, <1>7, <1>8, <1>10, <1>11, AdvanceBirth DEF r
<1> QED BY <1>3, <1>9, <1>12 DEF CacheInv, StateInv, Within

(* A connection adds the session o that nobody else has.                   *)
LEMMA AdvanceAdd ==
  ASSUME CacheInv, NEW t \in Threads, NEW o \in Objects,
         obj[o].references = 1, ~obj[o].not_resumable,
         Holds(conn[t], o) > 0,
         NEW c \in Connections, Place(c), c.pc \notin {"store", "handshake"},
         c.session = conn[t].session, c.ret = conn[t].ret,
         c.removed = conn[t].removed
  PROVE  /\ StateInv(AddSession(Memory, o), [conn EXCEPT ![t] = c])
         /\ AddSession(Memory, o) \in Memories
<1> DEFINE r == AddSession(Memory, o)
<1>1. /\ StateInv(Memory, conn) /\ MemoryInv(Memory, NULL, Held(conn))
      /\ Counted(Memory, NULL, Held(conn)) /\ Memory \in Memories
      /\ Held(conn) \in [Objects -> Nat] /\ Memory.obj = obj
      /\ \A x \in Objects : /\ Held(conn)[x] >= Holds(conn[t], x)
                            /\ Holds(conn[t], x) \in Nat
      /\ size \in Nat /\ now \in Times
  BY Before
<1>2. Held(conn)[o] = 1 /\ ~obj[o].owner
  <2>1. Held(conn)[o] \in Nat /\ Held(conn)[o] > 0
    BY <1>1
  <2> QED BY <1>1, <2>1 DEF Counted
<1>3. /\ MemoryInv(r, NULL, Held(conn))
      /\ size > 0 => Len(r.list) <= IF size = 1 THEN 1 ELSE size - 1
      /\ \A x \in Objects : x # o /\ ~obj[x].owner => r.obj[x] = obj[x]
  BY <1>1, <1>2, AddSessionInv
<1> HIDE DEF r
<1>4. \A x \in Objects :
        Held(conn)[x] = Held(conn)[x] - Holds(conn[t], x) + Holds(c, x)
  <2>1. \A x \in Objects : Holds(c, x) = Holds(conn[t], x)
    BY DEF Holds
  <2> QED BY <1>1, <2>1
<1>5. Private(r, c) /\ Within(r, size)
  BY <1>3 DEF Private, Within
<1>6. \A x \in Objects : \/ r.obj[x] = Memory.obj[x]
                         \/ Memory.obj[x].owner \/ Holds(conn[t], x) > 0
  BY <1>1, <1>3
<1>7. StateInv(r, [conn EXCEPT ![t] = c])
  BY ONLY <1>1, <1>3, <1>4, <1>5, <1>6, t \in Threads, c \in Connections,
          Place(c), Advance
<1> QED BY <1>3, <1>7 DEF r, MemoryInv

(* The session from the external cache is added.                           *)
LEMMA StoreFoundInv ==
  ASSUME CacheInv, NEW t \in Threads, StoreFound(t), size' = size
  PROVE  CacheInv'
<1> DEFINE c == [conn[t] EXCEPT !.pc = "check"]
           r == AddSession(Memory, conn[t].ret)
<1>1. /\ conn \in [Threads -> Connections] /\ conn[t] \in Connections
      /\ Place(conn[t]) /\ Private(Memory, conn[t]) /\ Memory.obj = obj
  BY Before
<1>2. conn[t].pc = "store" /\ conn' = [conn EXCEPT ![t] = c]
        /\ SetMemory(r) /\ now' = now
  BY <1>1 DEF StoreFound, Goto
<1>3. c \in Connections /\ c.pc = "check" /\ c.after = conn[t].after
        /\ c.session = conn[t].session /\ c.ret = conn[t].ret
        /\ c.removed = conn[t].removed
  BY <1>1 DEF Connections
<1> HIDE DEF c
<1>4. Place(c)
  BY <1>1, <1>2, <1>3 DEF Place, HasRet, HasNone
<1>5. conn[t].ret \in Objects
  BY <1>1, <1>2 DEF Connections, Place, HasRet
<1>6. obj[conn[t].ret].references = 1 /\ ~obj[conn[t].ret].not_resumable
  BY <1>1, <1>2 DEF Private
<1>7. Holds(conn[t], conn[t].ret) > 0
  BY DEF Holds
<1>8. StateInv(r, [conn EXCEPT ![t] = c]) /\ r \in Memories
  BY <1>3, <1>4, <1>5, <1>6, <1>7, AdvanceAdd
<1> HIDE DEF r
<1>9. Memory' = r
  BY <1>2, <1>8, MemoryIs DEF SetMemory, Memory
<1> QED BY <1>2, <1>8, <1>9 DEF CacheInv, StateInv, Within

(* The end of the handshake: ssl_update_cache.                             *)
LEMMA FinishInv ==
  ASSUME CacheInv, NEW t \in Threads, Finish(t), size' = size
  PROVE  CacheInv'
<1> DEFINE s == conn[t].session
           old == conn[t].hit \/ obj[s].not_resumable
           c == [conn[t] EXCEPT !.hit = FALSE, !.waiting = FALSE,
                                !.pc = IF old THEN "connected" ELSE "newCb"]
           r == AddSession(Memory, s)
<1>1. /\ StateInv(Memory, conn) /\ Memory \in Memories
      /\ conn \in [Threads -> Connections] /\ conn[t] \in Connections
      /\ Place(conn[t]) /\ Private(Memory, conn[t]) /\ Memory.obj = obj
  BY Before
<1>2. conn[t].pc = "handshake" /\ now' = now
  BY DEF Finish
<1>3. c \in Connections /\ c.pc \in {"connected", "newCb"}
        /\ c.after = conn[t].after /\ c.session = conn[t].session
        /\ c.ret = conn[t].ret /\ c.removed = conn[t].removed
  BY <1>1 DEF Connections
<1>4. conn' = [conn EXCEPT ![t] = c]
  BY <1>1 DEF Finish, Completed
<1>5. s \in Objects
  BY <1>1, <1>2 DEF Connections, Place, HasRet, HasNone
<1> HIDE DEF c
<1>6. Place(c) /\ Private(Memory, c)
  BY <1>1, <1>2, <1>3 DEF Place, HasRet, HasNone, Private
<1>7. CASE old
  <2>1. Memory' = Memory
    BY <1>7 DEF Finish, cache, Memory
  <2>2. StateInv(Memory, [conn EXCEPT ![t] = c])
    BY <1>1, <1>3, <1>6, AdvanceOnly
  <2> QED BY <1>2, <1>4, <2>1, <2>2 DEF CacheInv, StateInv, Within
<1>8. CASE ~old
  <2>1. SetMemory(r)
    BY <1>8 DEF Finish
  <2>2. obj[s].references = 1 /\ ~obj[s].not_resumable
    BY <1>1, <1>2, <1>8 DEF Private
  <2>3. Holds(conn[t], s) > 0
    BY DEF Holds
  <2>4. StateInv(r, [conn EXCEPT ![t] = c]) /\ r \in Memories
    <3> HIDE DEF old
    <3> QED BY <1>3, <1>5, <1>6, <2>2, <2>3, AdvanceAdd
  <2> HIDE DEF r
  <2>5. Memory' = r
    BY <2>1, <2>4, MemoryIs DEF SetMemory, Memory
  <2> QED BY <1>2, <1>4, <2>4, <2>5 DEF CacheInv, StateInv, Within
<1> QED BY <1>7, <1>8

(* The session that a connection removes is one it has a reference to.     *)
LEMMA RemovingFacts ==
  ASSUME CacheInv, NEW t \in Threads,
         conn[t].pc \in {"remove", "removeCb"}
  PROVE  /\ Removing(t) \in Objects
         /\ conn[t].after = "miss" =>
              Removing(t) = conn[t].ret /\ conn[t].session = NULL
         /\ conn[t].after # "miss" =>
              Removing(t) = conn[t].session /\ conn[t].ret = NULL
         /\ Holds(conn[t], Removing(t)) > 0
         /\ Held(conn)[Removing(t)] > 0
         /\ obj[Removing(t)].id \in Ids
<1>1. /\ conn[t] \in Connections /\ Place(conn[t])
      /\ Counted(Memory, NULL, Held(conn)) /\ Memory.obj = obj
      /\ Held(conn) \in [Objects -> Nat]
      /\ \A x \in Objects : /\ Held(conn)[x] >= Holds(conn[t], x)
                            /\ Holds(conn[t], x) \in Nat
      /\ \A x \in Objects : obj[x].references \in Nat
  BY Before, MemoryTypes
<1>2. /\ Removing(t) \in Objects
      /\ conn[t].after = "miss" =>
           Removing(t) = conn[t].ret /\ conn[t].session = NULL
      /\ conn[t].after # "miss" =>
           Removing(t) = conn[t].session /\ conn[t].ret = NULL
  BY <1>1 DEF Connections, Place, HasRet, HasNone, Removing
<1>3. Holds(conn[t], Removing(t)) > 0
  BY <1>2 DEF Holds
<1>4. Held(conn)[Removing(t)] > 0 /\ Held(conn)[Removing(t)] \in Nat
  BY <1>1, <1>2, <1>3
<1>5. obj[Removing(t)].references > 0
  BY <1>1, <1>2, <1>4 DEF Counted
<1>6. obj[Removing(t)].id \in Ids
  BY <1>1, <1>2, <1>5 DEF Counted
<1> QED BY <1>2, <1>3, <1>4, <1>6

(* remove_session_lock up to the unlock.                                   *)
LEMMA RemoveLockedInv ==
  ASSUME CacheInv, NEW t \in Threads, RemoveLocked(t), size' = size
  PROVE  CacheInv'
<1> DEFINE s == Removing(t)
           i == Memory.obj[s].id
           g == Memory.hash[i]
           n == IF g = NULL THEN Memory
                ELSE ListRemove([Memory EXCEPT !.hash[i] = NULL], g)
           r == [n EXCEPT !.obj[s].not_resumable = TRUE]
           c == [conn[t] EXCEPT !.removed = {g} \ {NULL}, !.pc = "removeCb"]
           h == [o \in Objects |-> Held(conn)[o] + (IF o = g THEN 1 ELSE 0)]
<1>1. /\ StateInv(Memory, conn) /\ MemoryInv(Memory, NULL, Held(conn))
      /\ Memory \in Memories /\ Within(Memory, size)
      /\ conn \in [Threads -> Connections] /\ conn[t] \in Connections
      /\ Place(conn[t]) /\ Memory.obj = obj /\ Memory.hash = hash
      /\ Held(conn) \in [Objects -> Nat] /\ size \in Nat
      /\ \A x \in Objects : Holds(conn[t], x) \in Nat /\ x # NULL
      /\ Len(Memory.list) \in Nat
  BY Before, MemoryTypes
<1>2. conn[t].pc = "remove" /\ conn' = [conn EXCEPT ![t] = c]
        /\ SetMemory(r) /\ now' = now
  BY <1>1, Zenon DEF RemoveLocked
<1>3. s \in Objects /\ Holds(conn[t], s) > 0 /\ Held(conn)[s] > 0
  BY <1>2, RemovingFacts, Zenon
<1>4. /\ MemoryInv(r, NULL, h) /\ Len(r.list) <= Len(Memory.list)
      /\ g \in Objects \cup {NULL}
      /\ \A o \in Objects : o # s /\ ~Memory.obj[o].owner =>
                              r.obj[o] = Memory.obj[o]
  <2> HIDE DEF s
  <2> QED BY <1>1, <1>3, RemoveInv, Zenon
<1>5. r \in Memories /\ Len(r.list) \in Nat
  BY <1>4, MemoryTypes, Zenon DEF MemoryInv
<1> HIDE DEF r, n, g, i, s
<1>6. h \in [Objects -> Nat]
        /\ \A o \in Objects : h[o] = Held(conn)[o] + (IF o = g THEN 1 ELSE 0)
  BY <1>1
<1> HIDE DEF h
<1>7. c \in Connections /\ c.pc = "removeCb" /\ c.after = conn[t].after
        /\ c.session = conn[t].session /\ c.ret = conn[t].ret
        /\ c.removed = {g} \ {NULL}
  BY <1>1, <1>4 DEF Connections
<1> HIDE DEF c
<1>8. conn[t].removed = {}
  BY <1>1, <1>2 DEF Place
<1>9. Place(c) /\ Private(r, c)
  BY <1>1, <1>2, <1>7 DEF Place, HasRet, HasNone, Private
<1>10. \A o \in Objects :
         Holds(c, o) = Holds(conn[t], o) + (IF o = g THEN 1 ELSE 0)
  BY <1>1, <1>7, <1>8 DEF Holds
<1>11. \A o \in Objects :
         h[o] = Held(conn)[o] - Holds(conn[t], o) + Holds(c, o)
  BY ONLY <1>1, <1>6, <1>10
<1>12. Within(r, size)
  BY <1>1, <1>4, <1>5 DEF Within
<1>13. \A o \in Objects : \/ r.obj[o] = Memory.obj[o]
                          \/ Memory.obj[o].owner \/ Holds(conn[t], o) > 0
  BY <1>3, <1>4
<1>14. StateInv(r, [conn EXCEPT ![t] = c])
  BY ONLY <1>1, <1>4, <1>6, <1>7, <1>9, <1>11, <1>12, <1>13, t \in Threads,
          Advance
<1>15. Memory' = r
  BY <1>2, <1>5, MemoryIs DEF SetMemory, Memory
<1> QED BY <1>2, <1>14, <1>15 DEF CacheInv, StateInv, Within

(* remove_session_cb and SSL_SESSION_free after the unlock, and what the   *)
(* caller drops.                                                           *)
LEMMA RemoveCallbackInv ==
  ASSUME CacheInv, NEW t \in Threads, RemoveCallback(t), size' = size
  PROVE  CacheInv'
<1> DEFINE gone == conn[t].removed
           i == obj[Removing(t)].id
           m1 == FreeAll(Memory, gone)
           m2 == [m1 EXCEPT !.store[i] = NULL]
           next == [conn[t] EXCEPT !.removed = {}, !.pc = conn[t].after,
                                   !.after = "idle"]
           c1 == [conn[t] EXCEPT !.removed = {}]
           f1 == [conn EXCEPT ![t] = c1]
<1>1. /\ StateInv(Memory, conn) /\ Memory \in Memories
      /\ conn \in [Threads -> Connections] /\ conn[t] \in Connections
      /\ Place(conn[t]) /\ \A x \in Objects : x # NULL
  BY Before
<1>2. conn[t].pc = "removeCb" /\ now' = now
  BY DEF RemoveCallback
<1>3. /\ Removing(t) \in Objects /\ i \in Ids
      /\ conn[t].after = "miss" =>
           Removing(t) = conn[t].ret /\ conn[t].session = NULL
      /\ conn[t].after # "miss" =>
           Removing(t) = conn[t].session /\ conn[t].ret = NULL
  BY <1>2, RemovingFacts
<1>4. c1 \in Connections /\ c1.pc = "removeCb" /\ c1.after = conn[t].after
        /\ c1.session = conn[t].session /\ c1.ret = conn[t].ret
        /\ c1.removed = {}
  BY <1>1, <1>2 DEF Connections
<1>5. f1[t] = c1 /\ [f1 EXCEPT ![t] = c1] = f1
        /\ \A c : [f1 EXCEPT ![t] = c] = [conn EXCEPT ![t] = c]
  BY <1>1
<1>6. gone \in SUBSET Objects
  BY <1>1 DEF Connections
<1> HIDE DEF c1
<1>7. Place(c1)
  BY <1>1, <1>2, <1>4 DEF Place, HasRet, HasNone
<1>8. StateInv(m1, f1)
  <2>1. \A o \in Objects :
          Holds(conn[t], o) = Holds(c1, o) + (IF o \in gone THEN 1 ELSE 0)
    BY <1>4 DEF Holds
  <2> HIDE DEF gone
  <2> QED BY <1>1, <1>4, <1>6, <1>7, <2>1, AdvanceFree
<1>9. m1 \in Memories
  BY <1>8 DEF StateInv, MemoryInv
<1>10. m2 \in Memories /\ m2.obj = m1.obj /\ m2.hash = m1.hash
         /\ m2.list = m1.list
  <2> HIDE DEF m1, i
  <2> QED BY <1>9 DEF Memories
<1> HIDE DEF f1, m1
<1>11. StateInv(m2, f1)
  <2>1. Private(m1, c1)
    BY <1>4 DEF Private
  <2> HIDE DEF m2
  <2>2. StateInv(m2, [f1 EXCEPT ![t] = c1])
    BY ONLY <1>4, <1>5, <1>7, <1>8, <1>10, <2>1, t \in Threads, AdvanceOnly
  <2> QED BY <1>5, <2>2
<1> HIDE DEF m2
<1>12. \/ /\ conn[t].after = "miss" /\ SetMemory(Free(m2, conn[t].ret))
          /\ conn' = [conn EXCEPT ![t] = [next EXCEPT !.ret = NULL]]
       \/ /\ conn[t].after = "failed" /\ SetMemory(m2)
          /\ conn' = [conn EXCEPT ![t] = next]
       \/ /\ conn[t].after = "idle" /\ SetMemory(Free(m2, conn[t].session))
          /\ conn' = [conn EXCEPT ![t] = Idle]
  BY DEF RemoveCallback, m2, m1
<1>13. next \in Connections /\ next.pc = conn[t].after /\ next.after = "idle"
         /\ next.session = conn[t].session /\ next.ret = conn[t].ret
         /\ next.removed = {}
  BY <1>1 DEF Connections
<1> HIDE DEF next
<1>14. ASSUME NEW o \in Objects, NEW c \in Connections, Place(c),
              c.pc \notin {"store", "handshake"}, SetMemory(Free(m2, o)),
              conn' = [conn EXCEPT ![t] = c],
              \A x \in Objects : /\ Holds(c1, x) = IF x = o THEN 1 ELSE 0
                                 /\ Holds(c, x) = 0
       PROVE  CacheInv'
  <2>1. Free(m2, o) = FreeAll(m2, {o})
    BY <1>10, <1>14, FreeOne
  <2>2. \A x \in Objects :
          Holds(f1[t], x) = Holds(c, x) + (IF x \in {o} THEN 1 ELSE 0)
    BY <1>5, <1>14
  <2>3. StateInv(FreeAll(m2, {o}), [f1 EXCEPT ![t] = c])
    BY ONLY <1>11, <1>14, <2>2, t \in Threads, AdvanceFree
  <2>4. StateInv(Free(m2, o), conn')
    BY <1>5, <1>14, <2>1, <2>3
  <2>5. Free(m2, o) \in Memories
    BY <2>4 DEF StateInv, MemoryInv
  <2>6. Memory' = Free(m2, o)
    BY <1>14, <2>5, MemoryIs DEF SetMemory, Memory
  <2> QED BY <1>2, <2>4, <2>6 DEF CacheInv, StateInv, Within
<1>15. CASE conn[t].after = "miss"
  <2> DEFINE c == [next EXCEPT !.ret = NULL]
  <2>1. c \in Connections /\ c.pc = "miss" /\ c.after = "idle"
          /\ c.session = NULL /\ c.ret = NULL /\ c.removed = {}
    BY <1>3, <1>13, <1>15 DEF Connections
  <2>2. SetMemory(Free(m2, conn[t].ret)) /\ conn' = [conn EXCEPT ![t] = c]
    BY <1>12, <1>15
  <2> HIDE DEF c
  <2>3. Place(c)
    BY <2>1 DEF Place, HasRet, HasNone
  <2>4. conn[t].ret \in Objects
    BY <1>3, <1>15
  <2>5. \A x \in Objects : /\ Holds(c1, x) = IF x = conn[t].ret THEN 1 ELSE 0
                           /\ Holds(c, x) = 0
    BY <1>1, <1>3, <1>4, <1>15, <2>1 DEF Holds
  <2> QED BY <1>14, <2>1, <2>2, <2>3, <2>4, <2>5
<1>16. CASE conn[t].after = "idle"
  <2>1. conn[t].session \in Objects
    BY <1>3, <1>16
  <2>2. \A x \in Objects : Holds(c1, x) = IF x = conn[t].session THEN 1 ELSE 0
    BY <1>1, <1>3, <1>4, <1>16 DEF Holds
  <2>3. SetMemory(Free(m2, conn[t].session)) /\ conn' = [conn EXCEPT ![t] = Idle]
    BY <1>12, <1>16
  <2> QED BY <1>14, <2>1, <2>2, <2>3, IdleFacts
<1>17. CASE conn[t].after = "failed"
  <2>1. Place(next) /\ Private(m2, next)
    BY <1>1, <1>3, <1>13, <1>17 DEF Place, HasRet, HasNone, Private
  <2>2. StateInv(m2, [f1 EXCEPT ![t] = next])
    BY ONLY <1>4, <1>5, <1>10, <1>11, <1>13, <2>1, t \in Threads, AdvanceOnly
  <2>3. conn' = [f1 EXCEPT ![t] = next] /\ SetMemory(m2)
    BY <1>5, <1>12, <1>17
  <2>4. Memory' = m2
    BY <1>10, <2>3, MemoryIs DEF SetMemory, Memory
  <2> QED BY <1>2, <2>2, <2>3, <2>4 DEF CacheInv, StateInv, Within
<1> QED BY <1>12, <1>15, <1>16, <1>17

(* A set of numbers up to n has a greatest one, or is empty.               *)
LEMMA Greatest ==
  ASSUME NEW n \in Nat, NEW S \in SUBSET (1 .. n)
  PROVE  \E k \in {0} \cup S : \A j \in S : j <= k
<1> DEFINE T == {k \in Nat : \A j \in S : j <= k}
<1>1. n \in T
  OBVIOUS
<1>2. PICK x \in T : \A y \in T : x <= y
  <2> HIDE DEF T
  <2>1. T \subseteq Nat /\ T # {}
    BY <1>1 DEF T
  <2> QED BY <2>1, Least
<1>3. x \in {0} \cup S
  <2> SUFFICES ASSUME x # 0, x \notin S
               PROVE  FALSE
    OBVIOUS
  <2>1. x - 1 \in Nat /\ \A j \in S : j <= x - 1
    BY <1>2
  <2>2. x - 1 \in T
    BY <2>1
  <2> QED BY <1>2, <2>2
<1> QED BY <1>2, <1>3

(* SSL_CTX_flush_sessions keeps a head of the list, and with it every      *)
(* session that has not timed out.                                         *)
LEMMA StayingFacts ==
  ASSUME list \in Seq(Objects), NEW when
  PROVE  /\ Staying(when) \in 0 .. Len(list)
         /\ Staying(when) > 0 =>
              /\ when # 0
              /\ ~SessTimedout(when, obj[list[Staying(when)]])
<1> DEFINE S == {k \in DOMAIN list : ~SessTimedout(when, obj[list[k]])}
<1>1. Len(list) \in Nat /\ DOMAIN list = 1 .. Len(list)
  BY LenProperties
<1>2. \A k \in S : k \in 1 .. Len(list) /\ ~SessTimedout(when, obj[list[k]])
  BY <1>1
<1>3. CASE when = 0
  BY <1>1, <1>3 DEF Staying
<1>4. CASE when # 0
  <2> HIDE DEF S
  <2>1. \E k \in {0} \cup S : \A j \in S : j <= k
    BY <1>1, <1>2, Greatest
  <2>2. Staying(when) = CHOOSE k \in {0} \cup S : \A j \in S : j <= k
    BY <1>4 DEF Staying, S
  <2>3. Staying(when) \in {0} \cup S
    BY <2>1, <2>2
  <2>4. CASE Staying(when) = 0
    BY <1>1, <2>4
  <2>5. CASE Staying(when) \in S
    BY <1>1, <1>2, <1>4, <2>5
  <2> QED BY <2>3, <2>4, <2>5
<1> QED BY <1>3, <1>4

(* SSL_CTX_flush_sessions, under the lock.                                 *)
LEMMA FlushInv ==
  ASSUME CacheInv, NEW t \in Threads, NEW when, Flush(t, when), size' = size
  PROVE  CacheInv'
<1> DEFINE keep == Staying(when)
           g == Behind(Memory, keep)
           r == Discard(Memory, keep)
           c == [conn[t] EXCEPT !.removed = g, !.pc = "flushed"]
           h == [o \in Objects |-> Held(conn)[o] + (IF o \in g THEN 1 ELSE 0)]
<1>1. /\ StateInv(Memory, conn) /\ MemoryInv(Memory, NULL, Held(conn))
      /\ Memory \in Memories /\ Within(Memory, size)
      /\ conn \in [Threads -> Connections] /\ conn[t] \in Connections
      /\ Place(conn[t]) /\ Memory.list = list /\ list \in Seq(Objects)
      /\ Held(conn) \in [Objects -> Nat] /\ size \in Nat
      /\ \A x \in Objects : Holds(conn[t], x) \in Nat /\ x # NULL
      /\ Len(Memory.list) \in Nat
  BY Before, MemoryTypes
<1>2. conn[t].pc = "connected" /\ conn' = [conn EXCEPT ![t] = c]
        /\ SetMemory(r) /\ now' = now
  BY <1>1 DEF Flush
<1>3. keep \in 0 .. Len(Memory.list)
  BY <1>1, StayingFacts
<1> HIDE DEF keep
<1>4. /\ MemoryInv(r, NULL, h) /\ Len(r.list) = keep
      /\ g \in SUBSET Objects /\ \A o \in g : Memory.obj[o].owner
      /\ \A o \in Objects : o \notin g => r.obj[o] = Memory.obj[o]
  <2>1. h = [o \in Objects |->
              Held(conn)[o] + (IF o \in Behind(Memory, keep) THEN 1 ELSE 0)]
    OBVIOUS
  <2> HIDE DEF h, g, r
  <2>2. /\ MemoryInv(Memory, NULL, Held(conn))
        /\ Held(conn) \in [Objects -> Nat]
        /\ keep \in 0 .. Len(Memory.list)
    BY <1>1, <1>3
  <2>3. /\ MemoryInv(Discard(Memory, keep), NULL, h)
        /\ Len(Discard(Memory, keep).list) = keep
        /\ Behind(Memory, keep) \in SUBSET Objects
        /\ \A o \in Behind(Memory, keep) : Memory.obj[o].owner
        /\ \A o \in Objects : o \notin Behind(Memory, keep) =>
             Discard(Memory, keep).obj[o] = Memory.obj[o]
    BY ONLY <2>1, <2>2, DiscardInv
  <2> QED BY <2>3 DEF g, r
<1>5. r \in Memories
  BY <1>4 DEF MemoryInv
<1> HIDE DEF r, g
<1>6. h \in [Objects -> Nat]
        /\ \A o \in Objects :
             h[o] = Held(conn)[o] + (IF o \in g THEN 1 ELSE 0)
  BY <1>1
<1> HIDE DEF h
<1>7. c \in Connections /\ c.pc = "flushed" /\ c.after = conn[t].after
        /\ c.session = conn[t].session /\ c.ret = conn[t].ret
        /\ c.removed = g
  BY <1>1, <1>4 DEF Connections
<1> HIDE DEF c
<1>8. conn[t].removed = {}
  BY <1>1, <1>2 DEF Place
<1>9. Place(c) /\ Private(r, c)
  BY <1>1, <1>2, <1>7 DEF Place, HasRet, HasNone, Private
<1>10. \A o \in Objects :
         Holds(c, o) = Holds(conn[t], o) + (IF o \in g THEN 1 ELSE 0)
  BY <1>7, <1>8 DEF Holds
<1>11. \A o \in Objects :
         h[o] = Held(conn)[o] - Holds(conn[t], o) + Holds(c, o)
  <2> SUFFICES ASSUME NEW o \in Objects
               PROVE  h[o] = Held(conn)[o] - Holds(conn[t], o) + Holds(c, o)
    OBVIOUS
  <2>1. Held(conn)[o] \in Nat /\ Holds(conn[t], o) \in Nat
    BY <1>1
  <2>2. CASE o \in g
    BY <1>6, <1>10, <2>1, <2>2
  <2>3. CASE o \notin g
    BY <1>6, <1>10, <2>1, <2>3
  <2> QED BY <2>2, <2>3
<1>12. Within(r, size)
  BY <1>1, <1>3, <1>4 DEF Within
<1>13. \A o \in Objects : r.obj[o] = Memory.obj[o] \/ Memory.obj[o].owner
  BY <1>4
<1>14. StateInv(r, [conn EXCEPT ![t] = c])
  BY ONLY <1>1, <1>4, <1>6, <1>7, <1>9, <1>11, <1>12, <1>13, t \in Threads,
          Advance
<1>15. Memory' = r
  BY <1>2, <1>5, MemoryIs DEF SetMemory, Memory
<1> QED BY <1>2, <1>14, <1>15 DEF CacheInv, StateInv, Within

(* SSL_SESSION_set_timeout, up to the lock or without one.                 *)
LEMMA SetTimeoutInv ==
  ASSUME CacheInv, NEW t \in Threads, NEW v \in Timeouts, SetTimeout(t, v),
         size' = size
  PROVE  CacheInv'
<1> DEFINE s == conn[t].session
<1>1. /\ StateInv(Memory, conn) /\ MemoryInv(Memory, NULL, Held(conn))
      /\ Memory \in Memories /\ Within(Memory, size)
      /\ conn \in [Threads -> Connections] /\ conn[t] \in Connections
      /\ Place(conn[t]) /\ Counted(Memory, NULL, Held(conn))
      /\ Memory.obj = obj /\ Memory.hash = hash /\ Memory.list = list
      /\ Memory.store = store
      /\ Held(conn) \in [Objects -> Nat]
      /\ \A x \in Objects : /\ Held(conn)[x] >= Holds(conn[t], x)
                            /\ Holds(conn[t], x) \in Nat /\ x # NULL
      /\ obj \in [Objects -> Sessions]
  BY Before, MemoryTypes
<1>2. conn[t].pc = "connected" /\ hash' = hash /\ list' = list
        /\ store' = store /\ now' = now
  BY DEF SetTimeout
<1>3. s \in Objects /\ v \in Times /\ obj[s] \in Sessions
  <2>1. v \in Times
    BY SessCacheAssumption DEF Times
  <2> QED BY <1>1, <1>2, <2>1 DEF Connections, Place, HasRet, HasNone
<1>4. CASE obj[s].owner
  <2> DEFINE c == [conn[t] EXCEPT !.timeout = v, !.pc = "setTimeout"]
  <2>1. conn' = [conn EXCEPT ![t] = c] /\ Memory' = Memory
    BY <1>1, <1>2, <1>4 DEF SetTimeout, Memory
  <2>2. c \in Connections /\ c.pc = "setTimeout" /\ c.after = conn[t].after
          /\ c.session = conn[t].session /\ c.ret = conn[t].ret
          /\ c.removed = conn[t].removed
    BY <1>1, <1>3 DEF Connections
  <2> HIDE DEF c
  <2>3. Place(c) /\ Private(Memory, c)
    BY <1>1, <1>2, <2>2 DEF Place, HasRet, HasNone, Private
  <2>4. StateInv(Memory, [conn EXCEPT ![t] = c])
    BY <1>1, <2>2, <2>3, AdvanceOnly
  <2> QED BY <1>2, <2>1, <2>4 DEF CacheInv, StateInv, Within
<1>5. CASE ~obj[s].owner
  <2> DEFINE q == [obj[s] EXCEPT !.timeout = v]
             r == [Memory EXCEPT !.obj = [@ EXCEPT ![s] = q]]
  <2>1. obj' = [obj EXCEPT ![s] = q] /\ conn' = conn
    BY <1>1, <1>3, <1>5 DEF SetTimeout
  <2>2. q \in Sessions /\ q.id = obj[s].id /\ ~q.owner
          /\ q.references = obj[s].references
    BY <1>3, <1>5 DEF Sessions
  <2>3. obj[s].references > 0
    <3>1. Holds(conn[t], s) > 0
      BY DEF Holds
    <3>2. Held(conn)[s] > 0 /\ Held(conn)[s] \in Nat
      BY <1>1, <1>3, <3>1
    <3> QED BY <1>1, <1>3, <1>5, <3>2 DEF Counted
  <2> HIDE DEF q
  <2>4. r = Memory'
    <3>1. Memory = [obj |-> obj, hash |-> hash, list |-> list,
                    store |-> store]
      BY DEF Memory
    <3>2. Memory' = [obj |-> [obj EXCEPT ![s] = q], hash |-> hash,
                     list |-> list, store |-> store]
      BY <1>2, <2>1 DEF Memory
    <3> QED BY <3>1, <3>2
  <2>5. MemoryInv(r, NULL, Held(conn))
    <3> HIDE DEF s
    <3> QED BY <1>1, <1>3, <1>5, <2>2, <2>3, AlterInv
  <2>6. r.list = Memory.list /\ r.obj = [obj EXCEPT ![s] = q]
    BY <1>2, <2>1, <2>4 DEF Memory
  <2> HIDE DEF r
  <2>7. \A o \in Objects : r.obj[o] = Memory.obj[o] \/ Holds(conn[t], o) > 0
    <3>1. \A o \in Objects : o # s => r.obj[o] = Memory.obj[o]
      BY <1>1, <1>3, <2>6
    <3>2. Holds(conn[t], s) > 0
      BY DEF Holds
    <3> QED BY <3>1, <3>2
  <2>8. Private(r, conn[t]) /\ Within(r, size)
    BY <1>1, <1>2, <2>6 DEF Private, Within
  <2>9. StateInv(r, [conn EXCEPT ![t] = conn[t]])
    <3>1. \A o \in Objects :
            Held(conn)[o] = Held(conn)[o] - Holds(conn[t], o) + Holds(conn[t], o)
      BY <1>1
    <3> QED BY ONLY <1>1, <2>5, <2>7, <2>8, <3>1, t \in Threads, Advance
  <2>10. [conn EXCEPT ![t] = conn[t]] = conn
    BY <1>1
  <2> QED BY <1>2, <2>1, <2>4, <2>9, <2>10 DEF CacheInv, StateInv, Within
<1> QED BY <1>4, <1>5

(* SSL_SESSION_set_timeout, under the lock.                                *)
LEMMA SetTimeoutLockedInv ==
  ASSUME CacheInv, NEW t \in Threads, SetTimeoutLocked(t), size' = size
  PROVE  CacheInv'
<1> DEFINE s == conn[t].session
           v == conn[t].timeout
           c == [conn[t] EXCEPT
                   !.pc = IF obj[s].owner THEN "connected" ELSE "crashed",
                   !.timeout = 0]
<1>1. /\ StateInv(Memory, conn) /\ MemoryInv(Memory, NULL, Held(conn))
      /\ Memory \in Memories /\ Within(Memory, size)
      /\ conn \in [Threads -> Connections] /\ conn[t] \in Connections
      /\ Place(conn[t]) /\ Memory.obj = obj
      /\ Held(conn) \in [Objects -> Nat]
      /\ \A x \in Objects : Holds(conn[t], x) \in Nat
  BY Before
<1>2. conn[t].pc = "setTimeout" /\ conn' = [conn EXCEPT ![t] = c]
        /\ now' = now
  BY <1>1 DEF SetTimeoutLocked
<1>3. s \in Objects /\ v \in Times
  BY <1>1, <1>2 DEF Connections, Place, HasRet, HasNone
<1>4. c \in Connections /\ c.pc \in {"connected", "crashed"}
        /\ c.after = conn[t].after
        /\ c.session = conn[t].session /\ c.ret = conn[t].ret
        /\ c.removed = conn[t].removed
  <2>1. 0 \in Times
    BY SessCacheAssumption DEF Times
  <2>2. CASE obj[s].owner
    <3>1. c = [conn[t] EXCEPT !.pc = "connected", !.timeout = 0]
      BY <2>2
    <3> HIDE DEF c
    <3> QED BY <1>1, <2>1, <3>1 DEF Connections
  <2>3. CASE ~obj[s].owner
    <3>1. c = [conn[t] EXCEPT !.pc = "crashed", !.timeout = 0]
      BY <2>3
    <3> HIDE DEF c
    <3> QED BY <1>1, <2>1, <3>1 DEF Connections
  <2> QED BY <2>2, <2>3
<1> HIDE DEF c
<1>5. Place(c) /\ Private(Memory, c)
  BY <1>1, <1>2, <1>4 DEF Place, HasRet, HasNone, Private
<1>6. CASE ~obj[s].owner
  <2>1. SetMemory(Memory)
    BY <1>6 DEF SetTimeoutLocked
  <2>2. StateInv(Memory, [conn EXCEPT ![t] = c])
    BY <1>1, <1>4, <1>5, AdvanceOnly
  <2>3. Memory' = Memory
    BY <1>1, <2>1, MemoryIs DEF SetMemory, Memory
  <2> QED BY <1>2, <2>2, <2>3 DEF CacheInv, StateInv, Within
<1>7. CASE obj[s].owner
  <2> DEFINE r == ListAdd([Memory EXCEPT !.obj[s].timeout = v], s)
  <2>1. SetMemory(r)
    BY <1>7 DEF SetTimeoutLocked
  <2>2. /\ MemoryInv(r, NULL, Held(conn)) /\ Len(r.list) = Len(Memory.list)
        /\ \A o \in Objects : o # s => r.obj[o] = Memory.obj[o]
    <3> HIDE DEF s, v
    <3> QED BY <1>1, <1>3, <1>7, RelistInv
  <2> HIDE DEF r
  <2>3. Private(r, c) /\ Within(r, size)
    BY <1>1, <1>4, <2>2 DEF Private, Within
  <2>4. \A o \in Objects :
          Held(conn)[o] = Held(conn)[o] - Holds(conn[t], o) + Holds(c, o)
    <3>1. \A o \in Objects : Holds(c, o) = Holds(conn[t], o)
      BY <1>4 DEF Holds
    <3> QED BY <1>1, <3>1
  <2>5. \A o \in Objects : r.obj[o] = Memory.obj[o] \/ Memory.obj[o].owner
    BY <1>1, <1>7, <2>2
  <2>6. StateInv(r, [conn EXCEPT ![t] = c])
    BY ONLY <1>1, <1>4, <1>5, <2>2, <2>3, <2>4, <2>5, t \in Threads, Advance
  <2>7. r \in Memories
    BY <2>2 DEF MemoryInv
  <2>8. Memory' = r
    BY <2>1, <2>7, MemoryIs DEF SetMemory, Memory
  <2> QED BY <1>2, <2>6, <2>8 DEF CacheInv, StateInv, Within
<1> QED BY <1>6, <1>7

(* The clock goes on.                                                      *)
LEMMA TickInv ==
  ASSUME CacheInv, Tick, size' = size
  PROVE  CacheInv'
<1>1. now' \in 1 .. MaxTime
  BY SessCacheAssumption DEF CacheInv, Tick
<1>2. Memory' = Memory /\ conn' = conn
  BY DEF Tick, cache, Memory
<1> QED BY <1>1, <1>2 DEF CacheInv, StateInv, Within

(* Every step of a thread keeps the invariant.                             *)
LEMMA ThreadStepInv ==
  ASSUME CacheInv, NEW t \in Threads, ThreadStep(t), size' = size
  PROVE  CacheInv'
<1>1. CASE \E i \in Ids : Lookup(t, i)
  BY <1>1, LookupInv
<1>2. CASE CallbackMiss(t)
  BY <1>2, CallbackMissInv
<1>3. CASE CallbackHit(t)
  BY <1>3, CallbackHitInv
<1>4. CASE StoreFound(t)
  BY <1>4, StoreFoundInv
<1>5. CASE CheckMismatch(t)
  BY <1>5, CheckMismatchInv
<1>6. CASE CheckFatal(t)
  BY <1>6, CheckFatalInv
<1>7. CASE CheckTimedout(t)
  BY <1>7, CheckTimedoutInv
<1>8. CASE CheckResumes(t)
  BY <1>8, CheckResumesInv
<1>9. CASE NewSession(t)
  BY <1>9, NewSessionInv
<1>10. CASE NewSessionFails(t)
  BY <1>10, NewSessionFailsInv
<1>11. CASE RemoveLocked(t)
  BY <1>11, RemoveLockedInv
<1>12. CASE RemoveCallback(t)
  BY <1>12, RemoveCallbackInv
<1>13. CASE Finish(t)
  BY <1>13, FinishInv
<1>14. CASE NewCallback(t)
  BY <1>14, NewCallbackInv
<1>15. CASE \E when \in {0, now} : Flush(t, when)
  BY <1>15, FlushInv
<1>16. CASE FlushFree(t)
  BY <1>16, FlushFreeInv
<1>17. CASE \E v \in Timeouts : SetTimeout(t, v)
  BY <1>17, SetTimeoutInv
<1>18. CASE SetTimeoutLocked(t)
  BY <1>18, SetTimeoutLockedInv
<1>19. CASE FatalAlert(t)
  BY <1>19, FatalAlertInv
<1>20. CASE CloseCleanly(t)
  BY <1>20, CloseCleanlyInv
<1>21. CASE CloseAbruptly(t)
  BY <1>21, CloseAbruptlyInv
<1> QED BY <1>1, <1>2, <1>3, <1>4, <1>5, <1>6, <1>7, <1>8, <1>9, <1>10,
           <1>11, <1>12, <1>13, <1>14, <1>15, <1>16, <1>17, <1>18, <1>19,
           <1>20, <1>21 DEF ThreadStep

(* An empty cache, and connections that have nothing.                      *)
LEMMA InitInv ==
  ASSUME Init
  PROVE  CacheInv
<1>1. /\ obj = [o \in Objects |-> Unused] /\ hash = [i \in Ids |-> NULL]
      /\ list = << >> /\ store = [i \in Ids |-> NULL]
      /\ conn = [t \in Threads |-> Idle]
  BY DEF Init
<1>2. size \in CacheSizes /\ now \in 1 .. MaxTime /\ size \in Nat
  BY SessCacheAssumption DEF Init
<1>3. /\ Memory.obj = obj /\ Memory.hash = hash /\ Memory.list = list
      /\ Memory.store = store
  BY DEF Memory
<1>4. Memory \in Memories
  <2>1. obj \in [Objects -> Sessions]
    BY <1>1, UnusedIsSession
  <2> QED BY <1>1, <2>1 DEF Memory, Memories
<1>5. conn \in [Threads -> Connections] /\ \A t \in Threads : conn[t] = Idle
  BY <1>1, IdleFacts
<1>6. \A t \in Threads : Place(conn[t]) /\ Private(Memory, conn[t])
  BY <1>5, IdleFacts DEF Private
<1>7. \A o \in Objects : Held(conn)[o] = 0
  <2> SUFFICES ASSUME NEW o \in Objects
               PROVE  Held(conn)[o] = 0
    OBVIOUS
  <2>1. o # NULL
    BY SessCacheAssumption
  <2>2. /\ {t \in Threads : conn[t].session = o} = {}
        /\ {t \in Threads : conn[t].ret = o} = {}
        /\ {t \in Threads : o \in conn[t].removed} = {}
    BY <1>5, <2>1 DEF Idle
  <2>3. Held(conn)[o] = Cardinality({t \in Threads : conn[t].session = o})
                          + Cardinality({t \in Threads : conn[t].ret = o})
                          + Cardinality({t \in Threads : o \in conn[t].removed})
    BY DEF Held
  <2>4. Held(conn)[o] = Cardinality({}) + Cardinality({}) + Cardinality({})
    BY <2>2, <2>3
  <2> QED BY <2>4, FS_EmptySet
<1>8. \A o \in Objects : obj[o] = Unused
  BY <1>1
<1>9. DOMAIN Memory.list = {} /\ Len(Memory.list) = 0
  BY <1>1, <1>3
<1>10. Linked(Memory, NULL) /\ Ordered(Memory)
  <2>1. \A o \in Objects : ~Memory.obj[o].owner
    BY <1>3, <1>8 DEF Unused
  <2> QED BY <1>1, <1>3, <1>9, <2>1 DEF Linked, Ordered
<1>11. Counted(Memory, NULL, Held(conn))
  <2>1. \A o \in Objects : /\ ~Memory.obj[o].owner /\ o # NULL
                           /\ Memory.obj[o].references = 0
    BY <1>3, <1>8, SessCacheAssumption DEF Unused
  <2> QED BY <1>3, <1>7, <1>8, <2>1 DEF Counted
<1>12. Within(Memory, size)
  BY <1>2, <1>9 DEF Within
<1>13. StateInv(Memory, conn)
  BY <1>4, <1>5, <1>6, <1>10, <1>11, <1>12 DEF StateInv, MemoryInv
<1> QED BY <1>2, <1>13 DEF CacheInv

(* The invariant holds in every state.                                     *)
LEMMA NextInv == CacheInv /\ [Next]_vars => CacheInv'
<1> SUFFICES ASSUME CacheInv, [Next]_vars
             PROVE  CacheInv'
  OBVIOUS
<1>1. CASE UNCHANGED vars
  <2>1. Memory' = Memory /\ conn' = conn /\ size' = size /\ now' = now
    BY <1>1 DEF vars, Memory
  <2> QED BY <2>1 DEF CacheInv, StateInv, Within
<1>2. CASE Tick /\ size' = size
  BY <1>2, TickInv
<1>3. CASE (\E t \in Threads : ThreadStep(t)) /\ size' = size
  BY <1>3, ThreadStepInv
<1> QED BY <1>1, <1>2, <1>3 DEF Next

(* Whatever the threads do, in any order: CacheInv holds.                  *)
THEOREM CacheInvariant == Spec => []CacheInv
<1>1. Init => CacheInv
  BY InitInv
<1> QED BY <1>1, NextInv, PTL DEF Spec

-----------------------------------------------------------------------------
(* What the invariant says in the terms of the properties.                 *)

(* Each cached session is under one id, its own.                           *)
LEMMA OneId ==
  ASSUME CacheInv, NEW o \in Objects
  PROVE  Cardinality({i \in Ids : hash[i] = o}) = IF obj[o].owner THEN 1 ELSE 0
<1>1. Linked(Memory, NULL) /\ o # NULL /\ Memory.obj = obj /\ Memory.hash = hash
  BY SessCacheAssumption DEF CacheInv, StateInv, MemoryInv, Memory
<1>2. CASE obj[o].owner
  <2>1. {i \in Ids : hash[i] = o} = {obj[o].id}
    BY <1>1, <1>2 DEF Linked
  <2> QED BY <1>2, <2>1, FS_Singleton
<1>3. CASE ~obj[o].owner
  <2>1. {i \in Ids : hash[i] = o} = {}
    BY <1>1, <1>3 DEF Linked
  <2> QED BY <1>3, <2>1, FS_EmptySet
<1> QED BY <1>2, <1>3

(* SSL_SESSION_up_ref and SSL_SESSION_free: the reference count of every   *)
(* session object is the number of references that the hash table and the  *)
(* threads have to it, for any number of threads, ids and objects; so no   *)
(* object is freed while it is in use, and none is leaked.                 *)
THEOREM CacheReferencesExact == Spec => []ReferencesExact
<1>1. CacheInv => ReferencesExact
  <2> SUFFICES ASSUME CacheInv, NEW o \in Objects
               PROVE  obj[o].references =
                          Cardinality({i \in Ids : hash[i] = o})
                        + Cardinality({t \in Threads : conn[t].session = o})
                        + Cardinality({t \in Threads : conn[t].ret = o})
                        + Cardinality({t \in Threads : o \in conn[t].removed})
    BY DEF ReferencesExact
  <2> DEFINE S == {t \in Threads : conn[t].session = o}
             R == {t \in Threads : conn[t].ret = o}
             D == {t \in Threads : o \in conn[t].removed}
  <2>1. /\ Counted(Memory, NULL, Held(conn)) /\ Memory.obj = obj /\ o # NULL
    BY SessCacheAssumption DEF CacheInv, StateInv, MemoryInv, Memory
  <2>2. obj[o].references = Held(conn)[o] + (IF obj[o].owner THEN 1 ELSE 0)
    BY <2>1 DEF Counted
  <2>3. Held(conn)[o] = Cardinality(S) + Cardinality(R) + Cardinality(D)
    BY DEF Held
  <2>4. /\ Cardinality(S) \in Nat /\ Cardinality(R) \in Nat
        /\ Cardinality(D) \in Nat
    <3>1. IsFiniteSet(S) /\ IsFiniteSet(R) /\ IsFiniteSet(D)
      BY SessCacheAssumption, FS_Subset
    <3> QED BY <3>1, FS_CardinalityType
  <2>5. Cardinality({i \in Ids : hash[i] = o}) = IF obj[o].owner THEN 1 ELSE 0
    BY OneId
  <2> HIDE DEF S, R, D
  <2>6. obj[o].references = Cardinality({i \in Ids : hash[i] = o})
          + Cardinality(S) + Cardinality(R) + Cardinality(D)
    BY ONLY <2>2, <2>3, <2>4, <2>5
  <2> QED BY <2>6 DEF S, R, D
<1> QED BY <1>1, CacheInvariant, PTL

(* SSL_SESSION_list_add, SSL_SESSION_list_remove and remove_session_lock:  *)
(* list, hash table and owner agree at every unlock, and the list is       *)
(* ordered by the true expiry, for every width of time_t.                  *)
THEOREM CacheStaysConsistent == Spec => []CacheConsistent
<1>1. CacheInv => CacheConsistent
  <2> SUFFICES ASSUME CacheInv
               PROVE  CacheConsistent
    OBVIOUS
  <2> DEFINE cached == {hash[i] : i \in Ids} \ {NULL}
  <2>1. /\ Memory \in Memories /\ Linked(Memory, NULL) /\ Ordered(Memory)
        /\ Memory.obj = obj /\ Memory.hash = hash /\ Memory.list = list
    BY DEF CacheInv, StateInv, MemoryInv, Memory
  <2>2. /\ hash \in [Ids -> Objects \cup {NULL}]
        /\ Len(list) \in Nat /\ DOMAIN list = 1 .. Len(list)
        /\ \A k \in DOMAIN list : list[k] \in Objects
        /\ \A o \in Objects : o # NULL
    BY <2>1, MemoryTypes, SessCacheAssumption
  <2>3. \A o : o \in cached <=> o \in Objects /\ obj[o].owner
    BY <2>1, <2>2 DEF Linked
  <2>4. \A o : o \in Range(list) <=> o \in Objects /\ obj[o].owner
    <3>1. Range(list) = {list[k] : k \in DOMAIN list}
      BY DEF Range
    <3> QED BY <2>1, <2>2, <3>1 DEF Linked
  <2>5. Range(list) = cached
    <3> HIDE DEF cached
    <3> QED BY <2>3, <2>4
  <2>6. \A j, k \in DOMAIN list : list[j] = list[k] => j = k
    <3>1. \A j, k \in DOMAIN list : j < k => list[j] # list[k]
      BY <2>1 DEF Ordered
    <3> QED BY <2>2, <3>1
  <2>7. \A i \in Ids : hash[i] # NULL => obj[hash[i]].id = i
    BY <2>1 DEF Linked
  <2>8. \A o \in Objects : obj[o].owner <=> o \in cached
    BY <2>3
  <2>9. \A o \in cached : ~obj[o].not_resumable
    <3> HIDE DEF cached
    <3> QED BY <2>1, <2>3 DEF Linked
  <2>10. \A j, k \in DOMAIN list :
           j < k => obj[list[j]].time + obj[list[j]].timeout
                      >= obj[list[k]].time + obj[list[k]].timeout
    BY <2>1 DEF Ordered, Expiry
  <2> QED BY <2>5, <2>6, <2>7, <2>8, <2>9, <2>10 DEF CacheConsistent
<1> QED BY <1>1, CacheInvariant, PTL

(* SSL_CTX_add_session: a limited cache stays below its limit, for every   *)
(* limit, however many threads add sessions to it.                         *)
THEOREM CacheStaysBounded == Spec => []CacheBounded
<1>1. CacheInv => CacheBounded
  BY DEF CacheInv, StateInv, Within, CacheBounded, Memory
<1> QED BY <1>1, CacheInvariant, PTL

(* Only SSL_CTX_flush_sessions gets a connection to "flushed".             *)
LEMMA FlushedByFlush ==
  ASSUME conn \in [Threads -> Connections], NEW t \in Threads,
         NEW u \in Threads, ThreadStep(u),
         conn[t].pc = "connected", conn'[t].pc = "flushed"
  PROVE  \E when \in {0, now} : Flush(t, when)
<1>1. CASE u # t
  <2>1. ASSUME NEW c, conn' = [conn EXCEPT ![u] = c]
        PROVE  FALSE
    BY <1>1, <2>1
  <2>2. \/ conn' = conn
        \/ \E c : conn' = [conn EXCEPT ![u] = c]
    BY Zenon DEF ThreadStep, Lookup, CallbackMiss, CallbackHit, StoreFound,
           CheckMismatch, CheckFatal, CheckTimedout, CheckResumes,
           NewSession, NewSessionFails, RemoveLocked, RemoveCallback,
           Finish, Completed, NewCallback, Goto, Flush, FlushFree,
           SetTimeout, SetTimeoutLocked, FatalAlert, CloseCleanly,
           CloseAbruptly
  <2> QED BY <2>1, <2>2
<1>2. CASE u = t
  <2>1. ASSUME NEW c, conn' = [conn EXCEPT ![t] = c]
        PROVE  c.pc = "flushed"
    BY <2>1
  <2>2. conn' # conn
    OBVIOUS
  <2>3. \A v \in Timeouts : ~SetTimeout(t, v)
    <3> SUFFICES ASSUME NEW v \in Timeouts, SetTimeout(t, v)
                 PROVE  FALSE
      OBVIOUS
    <3>1. conn' = [conn EXCEPT ![t].timeout = v, ![t].pc = "setTimeout"]
      BY <2>2 DEF SetTimeout
    <3>2. conn'[t].pc = "setTimeout"
      BY <3>1 DEF Connections
    <3> QED BY <3>2
  <2>4. ~FatalAlert(t)
    <3> SUFFICES ASSUME FatalAlert(t)
                 PROVE  FALSE
      OBVIOUS
    <3>1. conn'[t].pc = "remove"
      BY DEF FatalAlert, Connections
    <3> QED BY <3>1
  <2>5. ~CloseAbruptly(t)
    <3> SUFFICES ASSUME CloseAbruptly(t)
                 PROVE  FALSE
      OBVIOUS
    <3>1. conn'[t].pc = "remove"
      BY DEF CloseAbruptly, Connections
    <3> QED BY <3>1
  <2>6. ~CloseCleanly(t)
    <3> SUFFICES ASSUME CloseCleanly(t)
                 PROVE  FALSE
      OBVIOUS
    <3>1. conn'[t] = Idle
      BY DEF CloseCleanly
    <3> QED BY <3>1 DEF Idle
  <2>7. /\ \A i \in Ids : ~Lookup(t, i)
        /\ ~CallbackMiss(t) /\ ~CallbackHit(t) /\ ~StoreFound(t)
        /\ ~CheckMismatch(t) /\ ~CheckFatal(t) /\ ~CheckTimedout(t)
        /\ ~CheckResumes(t) /\ ~NewSession(t) /\ ~NewSessionFails(t)
    BY DEF Lookup, CallbackMiss, CallbackHit, StoreFound, CheckMismatch,
           CheckFatal, CheckTimedout, CheckResumes, NewSession,
           NewSessionFails
  <2>8. /\ ~RemoveLocked(t) /\ ~RemoveCallback(t) /\ ~Finish(t)
        /\ ~NewCallback(t) /\ ~FlushFree(t) /\ ~SetTimeoutLocked(t)
    BY DEF RemoveLocked, RemoveCallback, Finish, NewCallback, FlushFree,
           SetTimeoutLocked
  <2> QED BY <1>2, <2>3, <2>4, <2>5, <2>6, <2>7, <2>8 DEF ThreadStep
<1> QED BY <1>1, <1>2

(* What SSL_CTX_flush_sessions leaves in the cache has not expired.        *)
LEMMA FlushLeaves ==
  ASSUME CacheInv, NEW t \in Threads, NEW when \in {0, now}, Flush(t, when)
  PROVE  \A k \in DOMAIN list' :
           obj'[list'[k]].time + obj'[list'[k]].timeout >= now
<1> DEFINE keep == Staying(when)
           r == Discard(Memory, keep)
           h == [o \in Objects |->
                   Held(conn)[o] + (IF o \in Behind(Memory, keep) THEN 1 ELSE 0)]
<1>1. /\ MemoryInv(Memory, NULL, Held(conn)) /\ Memory \in Memories
      /\ Memory.obj = obj /\ Memory.list = list /\ Ordered(Memory)
      /\ Held(conn) \in [Objects -> Nat] /\ list \in Seq(Objects)
      /\ Len(list) \in Nat /\ DOMAIN list = 1 .. Len(list)
      /\ \A k \in DOMAIN list : list[k] \in Objects
      /\ \A o \in Objects : obj[o] \in Sessions
      /\ now \in Times
  BY Before, MemoryTypes DEF MemoryInv
<1>2. keep \in 0 .. Len(Memory.list)
  BY <1>1, StayingFacts
<1>3. keep > 0 => when = now /\ ~SessTimedout(now, obj[list[keep]])
  BY <1>1, StayingFacts
<1>4. obj' = r.obj /\ list' = r.list
  BY DEF Flush, SetMemory
<1> HIDE DEF keep
<1>5. /\ Len(r.list) = keep /\ \A k \in 1 .. keep : r.list[k] = list[k]
      /\ \A o \in Objects : o \notin Behind(Memory, keep) => r.obj[o] = obj[o]
      /\ r.list \in Seq(Objects)
  <2>1. h = [o \in Objects |->
              Held(conn)[o] + (IF o \in Behind(Memory, keep) THEN 1 ELSE 0)]
    OBVIOUS
  <2> HIDE DEF h
  <2>2. /\ MemoryInv(Memory, NULL, Held(conn))
        /\ Held(conn) \in [Objects -> Nat]
    BY <1>1
  <2>3. /\ MemoryInv(Discard(Memory, keep), NULL, h)
        /\ Len(Discard(Memory, keep).list) = keep
        /\ \A o \in Objects : o \notin Behind(Memory, keep) =>
             Discard(Memory, keep).obj[o] = Memory.obj[o]
        /\ Discard(Memory, keep).list = SubSeq(Memory.list, 1, keep)
    BY ONLY <1>2, <2>1, <2>2, DiscardInv
  <2>4. \A k \in 1 .. keep : Discard(Memory, keep).list[k] = Memory.list[k]
    <3>1. \A k \in 1 .. keep : SubSeq(list, 1, keep)[k] = list[k]
      BY <1>1, <1>2
    <3> QED BY <1>1, <2>3, <3>1
  <2> HIDE DEF r
  <2>5. /\ MemoryInv(r, NULL, h) /\ Len(r.list) = keep
        /\ \A k \in 1 .. keep : r.list[k] = Memory.list[k]
        /\ \A o \in Objects : o \notin Behind(Memory, keep) =>
                                r.obj[o] = Memory.obj[o]
    BY <2>3, <2>4 DEF r
  <2>6. r.list \in Seq(Objects)
    BY <2>5, MemoryTypes DEF MemoryInv
  <2> QED BY <1>1, <2>5, <2>6
<1> HIDE DEF r
<1>6. DOMAIN list' = 1 .. keep
  BY <1>4, <1>5, LenProperties
<1> SUFFICES ASSUME NEW k \in 1 .. keep
             PROVE  obj'[list'[k]].time + obj'[list'[k]].timeout >= now
  BY <1>6
<1>7. keep > 0 /\ k \in 1 .. Len(list) /\ keep \in 1 .. Len(list) /\ k <= keep
  BY <1>1, <1>2
<1>8. list[k] \in Objects /\ list[k] \notin Behind(Memory, keep)
  <2>1. list[k] \in Objects
    BY <1>1, <1>7
  <2>2. \A j \in keep + 1 .. Len(list) : list[j] # list[k]
    BY <1>1, <1>7 DEF Ordered
  <2> QED BY <1>1, <2>1, <2>2 DEF Behind
<1>9. obj'[list'[k]] = obj[list[k]]
  BY <1>4, <1>5, <1>8
<1>10. Expiry(obj[list[keep]]) >= now
  <2>1. obj[list[keep]] \in Sessions
    BY <1>1, <1>7
  <2>2. obj[list[keep]].time \in Times /\ obj[list[keep]].timeout \in Times
    BY <2>1 DEF Sessions
  <2> QED BY <1>1, <1>3, <1>7, <2>2, NotTimedoutExpiry
<1>11. Expiry(obj[list[k]]) \in Int /\ Expiry(obj[list[keep]]) \in Int
         /\ now \in Int
  BY <1>1, <1>7, MemoryTypes, SessCacheAssumption DEF Expiry, Times
<1>12. Expiry(obj[list[k]]) >= Expiry(obj[list[keep]])
  <2>1. CASE k = keep
    BY <1>11, <2>1
  <2>2. CASE k < keep
    BY <1>1, <1>7, <2>2 DEF Ordered
  <2> QED BY <1>7, <2>1, <2>2
<1>13. Expiry(obj[list[k]]) >= now
  BY ONLY <1>10, <1>11, <1>12
<1> QED BY <1>9, <1>13 DEF Expiry

(* SSL_CTX_flush_sessions: it stops at the first session from the tail     *)
(* that has not expired, and leaves no expired one in front of it.         *)
THEOREM FlushDropsExpired == Spec => FlushLeavesNoneExpired
<1> DEFINE A == \A t \in Threads :
                  conn[t].pc = "connected" /\ conn'[t].pc = "flushed" =>
                    \A k \in DOMAIN list' :
                      obj'[list'[k]].time + obj'[list'[k]].timeout >= now
<1>1. CacheInv /\ [Next]_vars => [A]_vars
  <2> SUFFICES ASSUME CacheInv, Next, NEW t \in Threads,
                      conn[t].pc = "connected", conn'[t].pc = "flushed"
               PROVE  \A k \in DOMAIN list' :
                        obj'[list'[k]].time + obj'[list'[k]].timeout >= now
    BY DEF A
  <2>1. conn' # conn
    OBVIOUS
  <2>2. PICK u \in Threads : ThreadStep(u)
    BY <2>1 DEF Next, Tick, vars
  <2>3. conn \in [Threads -> Connections]
    BY DEF CacheInv, StateInv
  <2>4. PICK when \in {0, now} : Flush(t, when)
    BY <2>2, <2>3, FlushedByFlush
  <2> QED BY <2>4, FlushLeaves
<1> QED BY <1>1, CacheInvariant, PTL DEF Spec, FlushLeavesNoneExpired, A

=============================================================================
