------------------------------- MODULE Cache -------------------------------
(* The cache package as clients see it: concurrent calls about one key of     *)
(* cache.Instance, which is an in-memory cache, Redis or memcached.  A step   *)
(* is one operation of go-cache, or one command a server executes: both are   *)
(* atomic, the methods of this package that use several are not.              *)
(*                                                                           *)
(* InMemoryCache is passed by value: each call locks its own copy of mu, so   *)
(* the lock excludes nobody and is left out.  A key stored with an expiry may *)
(* be gone at any moment.  Numbers have Width bits for the 64 of the code.    *)
EXTENDS Integers, FiniteSets

CONSTANTS Client,
          Backends,   \* the backends to consider
          Width,      \* bits of an integer
          Values,     \* values the clients store
          Amounts     \* amounts they increment and decrement by

Modulus   == 2 ^ Width
Signed    == -(Modulus \div 2) .. (Modulus \div 2) - 1
Unsigned  == 0 .. Modulus - 1
Kind      == {"int", "uint", "text", "nil"}      \* types of Go values
Value     == [kind : Kind, n : Int]
Expiry    == {"default", "forever", "subsecond"}

ASSUME WidthAssumption == Width \in Nat \ {0} /\ Modulus \in Nat \ {0} /\ Modulus % 2 = 0
ASSUME InputAssumption == /\ Values \subseteq {v \in Value : v.n \in IF v.kind = "int" THEN Signed ELSE Unsigned}
                          /\ Amounts \subseteq Unsigned
ASSUME BackendAssumption == Backends \subseteq {"memory", "redis", "memcached"}

Operation ==
  [name : {"Get", "GetMulti"}, into : {"int", "uint", "text"}]
    \cup [name : {"Set", "Add", "Replace"}, value : Values, expires : Expiry]
    \cup [name : {"Increment", "Decrement"}, n : Amounts]
    \cup [name : {"Delete", "Flush"}]

VARIABLES
  backend,   \* what cache.Instance is
  entry,     \* what is stored under the key
  pc, call,  \* where a client is in the operation it called
  held,      \* what the operation has read and not used yet
  before,    \* the entry when the operation was called, until someone else changes it
  met,       \* whether the key was present or absent at the moments of the operation
  reply      \* if the last step ended an operation: which, with what result, what it
             \* met, and the entry it started from unless someone else changed it

vars == <<backend, entry, pc, call, held, before, met, reply>>

Absent   == [kind |-> "absent", n |-> 0, expires |-> FALSE]
Empty    == [kind |-> "none"]        \* of held, reply and before
Present(e) == e # Absent
Standing(e) == IF Present(e) THEN "present" ELSE "absent"

(* What init chooses from cache.memcached and cache.redis; with both set it   *)
(* panics and there is no Instance.                                           *)
Instance(memcached, redis) ==
  IF memcached THEN "memcached" ELSE IF redis THEN "redis" ELSE "memory"

Init ==
  /\ \E memcached, redis \in BOOLEAN :
        ~(memcached /\ redis) /\ backend = Instance(memcached, redis)
  /\ backend \in Backends
  /\ entry = Absent
  /\ pc = [c \in Client |-> "idle"]
  /\ call = [c \in Client |-> Empty] /\ held = [c \in Client |-> Empty]
  /\ before = [c \in Client |-> Empty] /\ met = [c \in Client |-> {}]
  /\ reply = Empty

-----------------------------------------------------------------------------
(* Numbers.                                                                   *)

AsUint(n)  == n % Modulus
AsInt(n)   == IF AsUint(n) \in Signed THEN AsUint(n) ELSE AsUint(n) - Modulus
Within(kind) == IF kind = "int" THEN Signed ELSE Unsigned

(* x + n in the type of x: go-cache's Increment, and Decrement with -n.       *)
Plus(e, n) == [e EXCEPT !.n = IF e.kind = "int" THEN AsInt(@ + n) ELSE AsUint(@ + n)]
IsNumber(e) == e.kind \in {"int", "uint", "digits"}

(* Serialize: the digits of an integer, gob for the rest, which refuses nil.  *)
Serializable(v) == v.kind # "nil"
Serialize(v) == [kind |-> IF v.kind = "text" THEN "gob" ELSE "digits", n |-> v.n]

(* Deserialize into a variable of a type: whether ParseInt, ParseUint or gob  *)
(* accept the bytes.                                                          *)
Deserializes(e, into) ==
  \/ e.kind = "gob" /\ into = "text"
  \/ e.kind = "digits" /\ into \in {"int", "uint"} /\ e.n \in Within(into)

Keep(v, lasts) == [kind |-> v.kind, n |-> v.n, expires |-> lasts]

-----------------------------------------------------------------------------
(* Calls and returns.                                                         *)

Active(c) == pc[c] # "idle"

(* What a client in the middle of an operation meets when someone else, by a  *)
(* step that leaves the entry e, gets in between.                             *)
Disturbed(d, e) == IF Active(d) /\ e # entry THEN Empty ELSE before[d]
Meets(d, e)     == IF Active(d) THEN met[d] \cup {Standing(e)} ELSE met[d]

(* Until its first step an operation has read nothing: that one operation at  *)
(* a time is there, and no other is called meanwhile, loses no behaviour.     *)
Call(c, o) ==
  /\ ~Active(c) /\ \A d \in Client : pc[d] # "called"
  /\ pc' = [pc EXCEPT ![c] = "called"] /\ call' = [call EXCEPT ![c] = o]
  /\ before' = [before EXCEPT ![c] = entry]
  /\ met' = [met EXCEPT ![c] = {Standing(entry)}]
  /\ reply' = Empty
  /\ UNCHANGED <<backend, entry, held>>

Expire ==
  /\ entry.expires
  /\ entry' = Absent
  /\ before' = [d \in Client |-> Disturbed(d, Absent)]
  /\ met' = [d \in Client |-> Meets(d, Absent)]
  /\ reply' = Empty
  /\ UNCHANGED <<backend, pc, call, held>>

(* A step of an operation leaves the entry e, and goes on with what it has    *)
(* read, or ends with a value, a number, nothing or an error.                 *)
Goes(c, e, place, x) ==
  /\ entry' = e
  /\ pc' = [pc EXCEPT ![c] = place] /\ held' = [held EXCEPT ![c] = x]
  /\ before' = [d \in Client |-> IF d = c THEN before[d] ELSE Disturbed(d, e)]
  /\ met' = [d \in Client |-> IF d = c THEN met[d] ELSE Meets(d, e)]
  /\ reply' = Empty
  /\ UNCHANGED <<backend, call>>

Answer(c, e, r) ==
  /\ entry' = e
  /\ pc' = [pc EXCEPT ![c] = "idle"]
  /\ call' = [call EXCEPT ![c] = Empty] /\ held' = [held EXCEPT ![c] = Empty]
  /\ before' = [d \in Client |-> IF d = c THEN Empty ELSE Disturbed(d, e)]
  /\ met' = [d \in Client |-> IF d = c THEN {} ELSE Meets(d, e)]
  /\ reply' = [of |-> call[c], error |-> r.kind, n |-> r.n, before |-> before[c], met |-> met[c]]
  /\ UNCHANGED backend

Nil        == [kind |-> "nil", n |-> 0]
Number(n)  == [kind |-> "nil", n |-> AsUint(n)]
Read(e)    == [kind |-> "nil", n |-> e.n]
CacheMiss  == [kind |-> "miss", n |-> 0]
NotStored  == [kind |-> "notstored", n |-> 0]
OtherError == [kind |-> "other", n |-> 0]
Panics     == [kind |-> "panic", n |-> 0]

At(c, name, place) == pc[c] = place /\ call[c].name = name

-----------------------------------------------------------------------------
(* InMemoryCache: each action is one operation of go-cache.                   *)

Memory(c, name, place) == backend = "memory" /\ At(c, name, place)

(* Reflection panics when the variable is of another type, or for a nil.      *)
Fetched(e, into) ==
  IF ~Present(e) THEN CacheMiss ELSE IF e.kind = into THEN Read(e) ELSE Panics

MemoryGet(c) ==
  /\ Memory(c, "Get", "called")
  /\ Answer(c, entry, Fetched(entry, call[c].into))

\* GetMulti returns the cache itself: the Getter reads later.
MemoryGetMulti(c) ==
  /\ Memory(c, "GetMulti", "called")
  /\ Goes(c, entry, "getter", Empty)

MemoryGetter(c) ==
  /\ Memory(c, "GetMulti", "getter")
  /\ Answer(c, entry, Fetched(entry, call[c].into))

Kept(c) == Keep(call[c].value, call[c].expires # "forever")

MemorySet(c) ==
  /\ Memory(c, "Set", "called")
  /\ Answer(c, Kept(c), Nil)

MemoryAdd(c) ==
  /\ Memory(c, "Add", "called")
  /\ IF Present(entry) THEN Answer(c, entry, NotStored)
                       ELSE Answer(c, Kept(c), Nil)

MemoryReplace(c) ==
  /\ Memory(c, "Replace", "called")
  /\ IF Present(entry) THEN Answer(c, Kept(c), Nil)
                       ELSE Answer(c, entry, NotStored)

MemoryDeleteLooks(c) ==
  /\ Memory(c, "Delete", "called")
  /\ IF Present(entry) THEN Goes(c, entry, "found", Empty) ELSE Answer(c, entry, CacheMiss)

MemoryDelete(c) ==
  /\ Memory(c, "Delete", "found")
  /\ Answer(c, Absent, Nil)

MemoryIncrementLooks(c) ==
  /\ Memory(c, "Increment", "called")
  /\ IF Present(entry) THEN Goes(c, entry, "found", Empty) ELSE Answer(c, entry, CacheMiss)

(* Increment and Decrement of go-cache fail on a missing key and on what is   *)
(* no number.                                                                 *)
\* Slip: a key that has gone starts at 0.
MemoryIncrementCreates(c) ==
  /\ Memory(c, "Increment", "found")
  /\ Goes(c, IF IsNumber(entry) THEN Plus(entry, call[c].n)
                                ELSE [kind |-> "uint", n |-> call[c].n, expires |-> FALSE],
          "convert", Empty)

MemoryIncrement(c) ==
  /\ Memory(c, "Increment", "found")
  /\ IF IsNumber(entry)
     THEN Goes(c, Plus(entry, call[c].n), "convert", Empty)
     ELSE Answer(c, entry, OtherError)

(* convertTypeToUint64.                                                       *)
\* Slip: what is no number counts as missing.
ConvertedOrMiss(e) == IF IsNumber(e) THEN Number(e.n) ELSE CacheMiss
Converted(e) ==
  IF ~Present(e) THEN CacheMiss ELSE IF IsNumber(e) THEN Number(e.n) ELSE OtherError

MemoryConvert(c) ==
  /\ \E name \in {"Increment", "Decrement"} : Memory(c, name, "convert")
  /\ Answer(c, entry, Converted(entry))

(* What Decrement may take is settled before it takes it.                     *)
\* Slip: it may take all it was asked to.
CappedNever(n, nv) == n
Capped(n, nv) == IF n > nv THEN nv ELSE n

MemoryDecrementLooks(c) ==
  /\ Memory(c, "Decrement", "called")
  /\ IF IsNumber(entry)
     THEN Goes(c, entry, "capped", Number(Capped(call[c].n, AsUint(entry.n))))
     ELSE Answer(c, entry, Converted(entry))

MemoryDecrement(c) ==
  /\ Memory(c, "Decrement", "capped")
  /\ IF IsNumber(entry)
     THEN Goes(c, Plus(entry, -held[c].n), "convert", Empty)
     ELSE Answer(c, entry, OtherError)

MemoryFlush(c) ==
  /\ Memory(c, "Flush", "called")
  /\ Answer(c, Absent, Nil)

MemoryStep(c) ==
  \/ MemoryGet(c) \/ MemoryGetMulti(c) \/ MemoryGetter(c)
  \/ MemorySet(c) \/ MemoryAdd(c) \/ MemoryReplace(c)
  \/ MemoryDeleteLooks(c) \/ MemoryDelete(c)
  \/ MemoryIncrementLooks(c) \/ MemoryIncrement(c) \/ MemoryConvert(c)
  \/ MemoryDecrementLooks(c) \/ MemoryDecrement(c) \/ MemoryFlush(c)

-----------------------------------------------------------------------------
(* A command to a server: the connection may fail, before the server executes *)
(* it or with the answer still to come.                                       *)

Fails(c, result) == \E e \in {entry, result} : Answer(c, e, OtherError)

Queries(c, r)          == Answer(c, entry, r) \/ Fails(c, entry)
Continues(c, place, x) == Goes(c, entry, place, x) \/ Fails(c, entry)
Commands(c, result, r) == Answer(c, result, r) \/ Fails(c, result)

(* RedisCache.                                                                *)

Redis(c, name, place) == backend = "redis" /\ At(c, name, place)

Decoded(e, into) == IF Deserializes(e, into) THEN Read(e) ELSE OtherError

RedisGet(c) ==
  /\ Redis(c, "Get", "called")
  /\ Queries(c, IF Present(entry) THEN Decoded(entry, call[c].into) ELSE CacheMiss)

\* MGET: the Getter holds what there was, no bytes for a missing key.
RedisGetMulti(c) ==
  /\ Redis(c, "GetMulti", "called")
  /\ Continues(c, "getter", entry)

RedisGetter(c) ==
  /\ Redis(c, "GetMulti", "getter")
  /\ Answer(c, entry, Decoded(held[c], call[c].into))

(* invoke: SETEX, which refuses an expiry of less than a second, or SET.      *)
RedisInvoke(c) ==
  IF Serializable(call[c].value) /\ call[c].expires # "subsecond"
  THEN Commands(c, Keep(Serialize(call[c].value), call[c].expires # "forever"), Nil)
  ELSE Answer(c, entry, OtherError)

RedisSet(c) == Redis(c, "Set", "called") /\ RedisInvoke(c)

RedisAddLooks(c) ==
  /\ Redis(c, "Add", "called")
  /\ IF Present(entry) THEN Queries(c, NotStored) ELSE Continues(c, "store", Empty)

RedisAdd(c) == Redis(c, "Add", "store") /\ RedisInvoke(c)

RedisReplaceLooks(c) ==
  /\ Redis(c, "Replace", "called")
  /\ IF Present(entry) THEN Continues(c, "store", Empty) ELSE Queries(c, NotStored)

\* For nil the error of Serialize gives way to ErrNotStored.
RedisReplace(c) ==
  /\ Redis(c, "Replace", "store")
  /\ IF Serializable(call[c].value) THEN RedisInvoke(c)
     ELSE Answer(c, entry, NotStored)

RedisDelete(c) ==
  /\ Redis(c, "Delete", "called")
  /\ Commands(c, Absent, IF Present(entry) THEN Nil ELSE CacheMiss)

Digits(n, lasts) == Keep([kind |-> "digits", n |-> n], lasts)
IsInt64(e)       == e.kind = "digits" /\ e.n \in Signed

RedisIncrementReads(c) ==
  /\ Redis(c, "Increment", "called")
  /\ IF IsInt64(entry) THEN Continues(c, "store", entry)
     ELSE Queries(c, IF Present(entry) THEN OtherError ELSE CacheMiss)

\* SET stores the sum for good, whatever the expiry was.
RedisIncrement(c) ==
  /\ Redis(c, "Increment", "store")
  /\ LET sum == AsInt(held[c].n + call[c].n)
     IN Commands(c, Digits(sum, FALSE), Number(sum))

RedisDecrementLooks(c) ==
  /\ Redis(c, "Decrement", "called")
  /\ IF Present(entry) THEN Continues(c, "found", Empty) ELSE Queries(c, CacheMiss)

RedisDecrementReads(c) ==
  /\ Redis(c, "Decrement", "found")
  /\ IF IsInt64(entry) THEN Continues(c, "decrby", entry) ELSE Queries(c, OtherError)

(* DECRBY: the key starts at 0 if it is missing; no overflow, no argument out *)
(* of range.                                                                  *)
Decrby(e, n) == Digits(e.n - n, e.expires)
Accepts(e, n) == /\ e.kind \in {"digits", "absent"} /\ {e.n, n, e.n - n} \subseteq Signed
                 /\ n # -(Modulus \div 2)

RedisDecrement(c) ==
  /\ Redis(c, "Decrement", "decrby")
  /\ LET current == held[c].n
         n == IF call[c].n > AsUint(current) THEN current ELSE call[c].n
     IN IF Accepts(entry, n)
        THEN Commands(c, Decrby(entry, n), Number(entry.n - n))
        ELSE Queries(c, OtherError)

RedisFlush(c) == Redis(c, "Flush", "called") /\ Commands(c, Absent, Nil)

RedisStep(c) ==
  \/ RedisGet(c) \/ RedisGetMulti(c) \/ RedisGetter(c) \/ RedisSet(c)
  \/ RedisAddLooks(c) \/ RedisAdd(c) \/ RedisReplaceLooks(c) \/ RedisReplace(c)
  \/ RedisDelete(c) \/ RedisIncrementReads(c) \/ RedisIncrement(c)
  \/ RedisDecrementLooks(c) \/ RedisDecrementReads(c) \/ RedisDecrement(c)
  \/ RedisFlush(c)

-----------------------------------------------------------------------------
(* MemcachedCache: each method is one command of the client.                  *)

Memcached(c, name, place) == backend = "memcached" /\ At(c, name, place)

MemcachedGet(c) ==
  /\ Memcached(c, "Get", "called")
  /\ Queries(c, IF Present(entry) THEN Decoded(entry, call[c].into) ELSE CacheMiss)

MemcachedGetMulti(c) ==
  /\ Memcached(c, "GetMulti", "called")
  /\ Continues(c, "getter", entry)

\* The map has no item for a key that was missing.
MemcachedGetter(c) ==
  /\ Memcached(c, "GetMulti", "getter")
  /\ Answer(c, entry, IF Present(held[c]) THEN Decoded(held[c], call[c].into) ELSE CacheMiss)

(* invoke: less than a second counts as 0 seconds, which is for ever.         *)
MemcachedInvoke(c, stores) ==
  IF ~Serializable(call[c].value) THEN Answer(c, entry, OtherError)
  ELSE IF stores THEN Commands(c, Keep(Serialize(call[c].value), call[c].expires = "default"), Nil)
       ELSE Queries(c, NotStored)

MemcachedSet(c) == Memcached(c, "Set", "called") /\ MemcachedInvoke(c, TRUE)
MemcachedAdd(c) == Memcached(c, "Add", "called") /\ MemcachedInvoke(c, ~Present(entry))
MemcachedReplace(c) == Memcached(c, "Replace", "called") /\ MemcachedInvoke(c, Present(entry))

MemcachedDelete(c) ==
  /\ Memcached(c, "Delete", "called")
  /\ Commands(c, Absent, IF Present(entry) THEN Nil ELSE CacheMiss)

(* incr wraps around, decr stops at 0; both want the digits of a uint64.      *)
MemcachedCounts(c, name, result) ==
  /\ Memcached(c, name, "called")
  /\ IF entry.kind = "digits" /\ entry.n \in Unsigned
     THEN Commands(c, [entry EXCEPT !.n = result], Number(result))
     ELSE Queries(c, IF Present(entry) THEN OtherError ELSE CacheMiss)

MemcachedIncrement(c) ==
  MemcachedCounts(c, "Increment", AsUint(entry.n + call[c].n))
MemcachedDecrement(c) ==
  MemcachedCounts(c, "Decrement", entry.n - Capped(call[c].n, entry.n))

MemcachedFlush(c) ==
  /\ Memcached(c, "Flush", "called")
  /\ Answer(c, entry, OtherError)

MemcachedStep(c) ==
  \/ MemcachedGet(c) \/ MemcachedGetMulti(c) \/ MemcachedGetter(c)
  \/ MemcachedSet(c) \/ MemcachedAdd(c) \/ MemcachedReplace(c) \/ MemcachedDelete(c)
  \/ MemcachedIncrement(c) \/ MemcachedDecrement(c) \/ MemcachedFlush(c)

Next ==
  \/ \E c \in Client : \/ \E o \in Operation : Call(c, o)
                       \/ MemoryStep(c) \/ RedisStep(c) \/ MemcachedStep(c)
  \/ Expire

Spec == Init /\ [][Next]_vars

-----------------------------------------------------------------------------
(* Properties.                                                                *)

Stored  == [kind : Kind \cup {"digits", "gob"}, n : Signed \cup Unsigned, expires : BOOLEAN]
Entries == Stored \cup {Absent}
Place   == {"idle", "called", "getter", "found", "convert", "capped", "store", "decrby"}

\* Each variable is in its type.
TypeOK ==
  /\ backend \in {"memory", "redis", "memcached"}
  /\ entry \in Entries
  /\ pc \in [Client -> Place]
  /\ call \in [Client -> Operation \cup {Empty}]
  /\ before \in [Client -> Entries \cup {Empty}]
  /\ held \in [Client -> Entries \cup [kind : {"nil"}, n : Unsigned] \cup {Empty}]
  /\ met \in [Client -> SUBSET {"present", "absent"}]
  /\ reply # Empty =>
       /\ reply.of \in Operation /\ reply.n \in Signed \cup Unsigned
       /\ reply.error \in {"nil", "miss", "notstored", "other", "panic"}

\* What an operation that met the key so may report.
Honest(o, seen, error) ==
  LET present == "present" \in seen
      absent  == "absent" \in seen
  IN CASE error = "miss" -> absent
       [] error = "notstored" ->
            IF o.name = "Add" THEN present ELSE absent \/ o.value.kind = "nil"
       [] error = "nil" ->
            CASE o.name = "Add" -> absent
              [] o.name \in {"Get", "GetMulti", "Replace", "Delete", "Increment", "Decrement"} -> present
              [] OTHER -> TRUE
       [] OTHER -> TRUE

\* What an operation reports was so.  Whatever other clients do, a miss means
\* the key was missing at some moment of the operation, and so does the success
\* of Add; ErrNotStored means the opposite for Add, and the same as a miss for
\* Replace; and what succeeds on a key only has met one.  (Replace of nil in
\* Redis returns ErrNotStored for another reason.)
RepliesAreHonest == reply # Empty => Honest(reply.of, reply.met, reply.error)

\* What the operation o, which found the one entry and left the other, does by
\* the comments of the Cache interface.
MeetsContract(o, found, left, error, n) ==
  LET count  == AsUint(found.n)
      Ends(e) == error = e
      Unchanged == left = found
      Holds     == /\ Present(left) /\ (IsNumber(left) <=> o.value.kind \in {"int", "uint"})
                   /\ AsUint(left.n) = AsUint(o.value.n)
                   /\ \/ left.expires <=> o.expires # "forever"
                      \/ backend = "memcached" /\ o.expires = "subsecond"
      Counts(m) == /\ Ends("nil") /\ n = m
                   /\ IsNumber(left) /\ AsUint(left.n) = m
                   /\ \/ left.expires = found.expires
                      \/ backend = "redis" /\ o.name = "Increment"
      OnKey     == CASE o.name = "Add" -> Ends("notstored") /\ Unchanged
                     [] o.name \in {"Get", "GetMulti"} -> Ends("nil") /\ Unchanged /\ n = found.n
                     [] o.name = "Replace" -> \/ Ends("nil") /\ Holds
                                              \/ backend = "redis" /\ o.value.kind = "nil"
                     [] o.name = "Delete" -> Ends("nil") /\ ~Present(left)
                     [] o.name = "Increment" -> Counts((count + o.n) % Modulus)
                     [] o.name = "Decrement" -> Counts(IF o.n > count THEN 0 ELSE count - o.n)
      Missing   == CASE o.name = "Add" -> Ends("nil") /\ Holds
                     [] o.name = "Replace" -> Ends("notstored") /\ Unchanged
                     [] OTHER -> Ends("miss") /\ Unchanged
  IN CASE o.name = "Set"   -> Ends("nil") /\ Holds
       [] o.name = "Flush" -> Ends("nil") /\ ~Present(left)
       [] OTHER -> IF Present(found) THEN OnKey ELSE Missing

\* An operation during which nobody else changed the entry does what the Cache
\* interface says of it, on every backend, unless it reports an error of its own:
\* from the value it found it computes the stored one and its result, with
\* wrap-around and cap, and leaves the expiry it was given or found.  Left out:
\* memcached does not count less than a second, Increment in Redis drops the
\* expiry, and Replace of nil in Redis.
UndisturbedMeetsContract ==
  reply # Empty /\ reply.before # Empty /\ reply.error \in {"nil", "miss", "notstored"} =>
    MeetsContract(reply.of, reply.before, entry, reply.error, reply.n)

Steps(c, name) == pc'[c] # pc[c] /\ call[c].name = name

\* Neither in memory nor in memcached is an increment lost or added to a key that
\* is gone, whoever else changes the key between the steps of Increment.  (Redis
\* stores the sum it computed from what it read before.)
IncrementAdds ==
  [][backend # "redis" =>
       \A c \in Client : Active(c) /\ Steps(c, "Increment") /\ entry' # entry =>
         Present(entry) /\ AsUint(entry'.n) = AsUint(entry.n + call[c].n)]_vars

=============================================================================
