---------------------------- MODULE CacheProofs ----------------------------
(* Theorems about the cache, for every number of clients, every set of values *)
(* and amounts, and integers of any width.                                    *)
EXTENDS Cache, TLAPS

(* What c has met in the operation it is in: how the key is now, and what it  *)
(* had to be for c to get where it is.                                        *)
MetRight(c) ==
  /\ Standing(entry) \in met[c]
  /\ pc[c] = "getter" =>
       /\ call[c].name = "GetMulti"
       /\ backend # "memory" => held[c] \in Entries /\ Standing(held[c]) \in met[c]
  /\ pc[c] = "found" =>
       call[c].name \in {"Delete", "Increment", "Decrement"} /\ "present" \in met[c]
  /\ pc[c] = "capped" =>
       /\ call[c].name = "Decrement" /\ "present" \in met[c]
       /\ held[c] \in [kind : {"nil"}, n : Unsigned]
  /\ pc[c] = "convert" =>
       call[c].name \in {"Increment", "Decrement"} /\ "present" \in met[c]
  /\ pc[c] = "store" =>
       \/ call[c].name = "Add" /\ "absent" \in met[c]
       \/ call[c].name = "Replace" /\ "present" \in met[c]
       \/ call[c].name = "Increment" /\ "present" \in met[c] /\ held[c] \in Stored
  /\ pc[c] = "decrby" =>
       call[c].name = "Decrement" /\ "present" \in met[c] /\ held[c] \in Stored

(* As long as nobody else has changed the entry: it is what c found, or what  *)
(* c has made of it, and c holds what it found.                               *)
SinceRight(c) ==
  LET o == call[c]
      b == before[c]
  IN
  /\ pc[c] # "convert" => entry = b
  /\ pc[c] = "getter" /\ backend # "memory" => held[c] = b
  /\ pc[c] = "found" => Present(b)
  /\ pc[c] = "capped" => IsNumber(b) /\ held[c].n = Capped(o.n, AsUint(b.n))
  /\ pc[c] = "convert" =>
       /\ IsNumber(b)
       /\ entry = Plus(b, IF o.name = "Increment" THEN o.n ELSE -Capped(o.n, AsUint(b.n)))
  /\ pc[c] = "store" =>
       /\ o.name = "Add" => ~Present(b)
       /\ o.name = "Replace" => Present(b)
       /\ o.name = "Increment" => IsInt64(b) /\ held[c] = b
  /\ pc[c] = "decrby" => IsInt64(b) /\ held[c] = b

ClientRight(c) ==
  Active(c) => /\ call[c] \in Operation
               /\ MetRight(c)
               /\ before[c] # Empty => SinceRight(c)

IInv == TypeOK /\ \A c \in Client : ClientRight(c)

-----------------------------------------------------------------------------
(* Arithmetic modulo the size of an integer. *)

LEMMA SmallMultiple ==
  ASSUME NEW M \in Nat \ {0}, NEW d \in Int, -M < d * M, d * M < M PROVE d = 0
<1>1. ASSUME d >= 1 PROVE d * M >= M
  BY <1>1, SMT
<1>2. ASSUME d <= -1 PROVE d * M <= -M
  BY <1>2, SMT
<1> QED
  BY <1>1, <1>2

LEMMA Congruent ==
  ASSUME NEW M \in Nat \ {0}, NEW x \in Int, NEW y \in Int, NEW q \in Int, x = y + q * M
  PROVE  x % M = y % M
<1> DEFINE a == x \div M
           r == x % M
           b == y \div M
           s == y % M
<1>1. /\ a \in Int /\ r \in 0..M-1 /\ x = a * M + r
      /\ b \in Int /\ s \in 0..M-1 /\ y = b * M + s
  OBVIOUS
<1> HIDE DEF a, b, r, s
<1>2. a * M + r = b * M + s + q * M
  BY <1>1
<1>3. (a - b - q) * M = s - r
  BY <1>1, <1>2
<1>4. a - b - q = 0
  <2> DEFINE d == a - b - q
  <2>1. d \in Int /\ d * M = s - r
    BY <1>1, <1>3
  <2> HIDE DEF d
  <2>2. -M < d * M /\ d * M < M
    BY <1>1, <2>1
  <2>3. d = 0
    BY <2>1, <2>2, SmallMultiple
  <2> QED
    BY <2>3 DEF d
<1> QED
  BY <1>1, <1>3, <1>4 DEF r, s

LEMMA ModulusFacts ==
  /\ Modulus \in Nat \ {0}
  /\ \E h \in Nat \ {0} : Modulus = 2 * h /\ Signed = -h .. h - 1
  /\ Unsigned = 0 .. Modulus - 1
<1>1. Modulus \in Nat \ {0} /\ Modulus % 2 = 0
  BY WidthAssumption
<1> HIDE DEF Modulus
<1>2. Modulus = 2 * (Modulus \div 2) /\ Modulus \div 2 \in Nat \ {0}
  BY <1>1
<1> QED
  BY <1>1, <1>2 DEF Signed, Unsigned

(* A number keeps its bits when it is made unsigned or signed. *)
LEMMA UintFacts ==
  ASSUME NEW x \in Int
  PROVE  /\ AsUint(x) \in Unsigned /\ AsUint(x) \in Int
         /\ x \in Unsigned => AsUint(x) = x
         /\ AsUint(AsUint(x)) = AsUint(x)
<1> HIDE DEF Modulus
<1>1. /\ x % Modulus \in 0 .. Modulus - 1 /\ Unsigned = 0 .. Modulus - 1
      /\ Modulus \in Nat \ {0}
  BY ModulusFacts
<1>2. ASSUME NEW y \in 0 .. Modulus - 1 PROVE y % Modulus = y
  BY <1>1
<1> QED
  BY <1>1, <1>2 DEF AsUint

LEMMA UintOfSum ==
  ASSUME NEW x \in Int, NEW y \in Int PROVE AsUint(AsUint(x) + y) = AsUint(x + y)
<1> HIDE DEF Modulus
<1> DEFINE q == x \div Modulus
           r == x % Modulus
<1>1. Modulus \in Nat \ {0}
  BY ModulusFacts
<1>2. q \in Int /\ r \in Int /\ x = q * Modulus + r
  BY <1>1
<1> HIDE DEF q, r
<1>3. x + y \in Int /\ r + y \in Int /\ x + y = (r + y) + q * Modulus
  BY <1>1, <1>2
<1>4. (x + y) % Modulus = (r + y) % Modulus
  BY <1>1, <1>2, <1>3, Congruent
<1> QED
  BY <1>4 DEF r, AsUint

LEMMA IntFacts ==
  ASSUME NEW x \in Int
  PROVE  AsInt(x) \in Signed /\ AsUint(AsInt(x)) = AsUint(x)
<1> HIDE DEF Modulus
<1>1. PICK h \in Nat \ {0} : Modulus = 2 * h /\ Signed = -h .. h - 1
  BY ModulusFacts
<1>2. Modulus \in Nat \ {0} /\ Unsigned = 0 .. Modulus - 1
  BY ModulusFacts
<1>3. AsUint(x) \in 0 .. Modulus - 1 /\ AsUint(AsUint(x)) = AsUint(x)
  BY <1>2, UintFacts
<1>4. CASE AsUint(x) \in Signed
  BY <1>3, <1>4 DEF AsInt
<1>5. CASE AsUint(x) \notin Signed
  <2>1. AsInt(x) = AsUint(x) - Modulus
    BY <1>5 DEF AsInt
  <2>2. AsUint(x) >= h
    BY <1>1, <1>3, <1>5
  <2>3. AsUint(x) - Modulus \in Signed
    BY <1>1, <1>3, <2>2
  <2>4. (AsUint(x) - Modulus) % Modulus = AsUint(x) % Modulus
    <3>1. /\ AsUint(x) - Modulus \in Int /\ AsUint(x) \in Int /\ -1 \in Int
          /\ AsUint(x) - Modulus = AsUint(x) + (-1) * Modulus
      BY <1>2, <1>3
    <3> QED
      BY <1>2, <3>1, Congruent
  <2>5. AsUint(AsUint(x) - Modulus) = AsUint(AsUint(x))
    BY <2>4 DEF AsUint
  <2> QED
    BY <1>3, <2>1, <2>3, <2>5
<1> QED
  BY <1>4, <1>5

LEMMA NumberSets == Signed \subseteq Int /\ Unsigned \subseteq Int /\ 0 \in Unsigned /\ 0 \in Signed
<1> HIDE DEF Modulus
<1> QED
  BY ModulusFacts

(* What Decrement may take of a number. *)
LEMMA CappedFacts ==
  ASSUME NEW n \in Unsigned, NEW x \in Int
  PROVE  /\ Capped(n, AsUint(x)) \in Unsigned
         /\ AsUint(x + (-Capped(n, AsUint(x)))) = IF n > AsUint(x) THEN 0 ELSE AsUint(x) - n
<1> HIDE DEF Modulus
<1> DEFINE u == AsUint(x)
           k == Capped(n, u)
<1>1. u \in Unsigned /\ Unsigned = 0 .. Modulus - 1 /\ Modulus \in Nat \ {0}
  BY ModulusFacts, UintFacts
<1>2. k \in Unsigned /\ u + (-k) = (IF n > u THEN 0 ELSE u - n) /\ u + (-k) \in Unsigned /\ -k \in Int
  BY <1>1 DEF Capped
<1>3. AsUint(x + (-k)) = AsUint(u + (-k))
  BY <1>2, UintOfSum
<1>4. AsUint(u + (-k)) = u + (-k)
  BY <1>2, NumberSets, UintFacts
<1> QED
  BY <1>2, <1>3, <1>4

-----------------------------------------------------------------------------
(* Entries and operations. *)

Numbers == Signed \cup Unsigned
Results == [kind : {"nil", "miss", "notstored", "other", "panic"}, n : Numbers]
Held    == Entries \cup [kind : {"nil"}, n : Unsigned] \cup {Empty}

LEMMA StoredFacts ==
  ASSUME NEW e \in Stored
  PROVE  /\ e.kind \in Kind \cup {"digits", "gob"} /\ e.n \in Numbers /\ e.n \in Int
         /\ e.expires \in BOOLEAN /\ e \in Entries /\ e # Empty
         /\ Present(e) /\ Standing(e) = "present"
<1>1. e.kind \in Kind \cup {"digits", "gob"} /\ e.n \in Numbers /\ e.expires \in BOOLEAN
      /\ e \in Entries
  BY DEF Stored, Numbers, Entries
<1>2. e.n \in Int
  BY <1>1, NumberSets DEF Numbers
<1>3. e # Absent /\ e # Empty
  <2>1. e.kind # "absent" /\ e.kind # "none"
    BY <1>1 DEF Kind
  <2>2. Absent.kind = "absent" /\ Empty.kind = "none"
    BY DEF Absent, Empty
  <2> QED
    BY <2>1, <2>2
<1> QED
  BY <1>1, <1>2, <1>3 DEF Present, Standing

LEMMA AbsentFacts ==
  /\ Absent \in Entries /\ ~Present(Absent) /\ Standing(Absent) = "absent" /\ ~IsNumber(Absent)
  /\ Absent.kind = "absent" /\ Absent.n = 0 /\ ~IsInt64(Absent) /\ Absent # Empty
<1>1. Absent.kind = "absent" /\ Absent.n = 0
  BY DEF Absent
<1>2. Absent # Empty
  <2>1. Empty.kind = "none"
    BY DEF Empty
  <2> QED
    BY <1>1, <2>1
<1> QED
  BY <1>1, <1>2 DEF Entries, Present, Standing, IsNumber, IsInt64

LEMMA EntryFacts ==
  ASSUME NEW e \in Entries
  PROVE  /\ Present(e) <=> e \in Stored
         /\ ~Present(e) => e = Absent
         /\ IsNumber(e) => e \in Stored
         /\ IsInt64(e) => e \in Stored /\ IsNumber(e)
         /\ Standing(e) \in {"present", "absent"}
         /\ Present(e) <=> Standing(e) = "present"
         /\ e.n \in Int /\ e # Empty
<1>1. CASE e \in Stored
  BY <1>1, StoredFacts DEF IsInt64, IsNumber
<1>2. CASE e = Absent
  <2>1. e \notin Stored
    BY <1>2, AbsentFacts, StoredFacts
  <2> QED
    BY <1>2, <2>1, AbsentFacts
<1> QED
  BY <1>1, <1>2 DEF Entries

LEMMA PlusFacts ==
  ASSUME NEW e \in Stored, IsNumber(e), NEW n \in Int
  PROVE  /\ Plus(e, n) \in Stored /\ IsNumber(Plus(e, n)) /\ Plus(e, n).expires = e.expires
         /\ Plus(e, n).n \in Int /\ AsUint(Plus(e, n).n) = AsUint(e.n + n)
<1>1. e.n \in Int /\ e.n + n \in Int
  BY StoredFacts
<1> DEFINE m == IF e.kind = "int" THEN AsInt(e.n + n) ELSE AsUint(e.n + n)
<1>2. m \in Numbers /\ AsUint(m) = AsUint(e.n + n)
  BY <1>1, IntFacts, UintFacts DEF Numbers
<1>3. Plus(e, n) = [e EXCEPT !.n = m]
  BY DEF Plus
<1> HIDE DEF m
<1>4. Plus(e, n) \in Stored /\ Plus(e, n).kind = e.kind /\ Plus(e, n).n = m
      /\ Plus(e, n).expires = e.expires
  BY <1>2, <1>3 DEF Stored, Numbers
<1>5. m \in Int
  BY <1>2, NumberSets DEF Numbers
<1> QED
  BY <1>2, <1>4, <1>5 DEF IsNumber

(* A value, as it is or serialized, is a number where it was one. *)
LEMMA KeepFacts ==
  ASSUME NEW v \in Values, NEW lasts \in BOOLEAN
  PROVE  /\ v.kind \in Kind /\ v.n \in Int
         /\ Keep(v, lasts) \in Stored /\ Keep(v, lasts).n = v.n /\ Keep(v, lasts).expires = lasts
         /\ IsNumber(Keep(v, lasts)) <=> v.kind \in {"int", "uint"}
         /\ Serializable(v) =>
              LET e == Keep(Serialize(v), lasts)
              IN  /\ e \in Stored /\ e.n = v.n /\ e.expires = lasts
                  /\ IsNumber(e) <=> v.kind \in {"int", "uint"}
<1>1. v.kind \in Kind /\ v.n \in Int /\ v.n \in Numbers
  BY InputAssumption DEF Value, Numbers
<1>2. Keep(v, lasts) = [kind |-> v.kind, n |-> v.n, expires |-> lasts]
  BY DEF Keep
<1>3. Keep(v, lasts) \in Stored
  BY <1>1, <1>2 DEF Stored, Numbers
<1>4. IsNumber(Keep(v, lasts)) <=> v.kind \in {"int", "uint"}
  BY <1>1, <1>2 DEF IsNumber, Kind
<1>5. ASSUME Serializable(v), NEW e, e = Keep(Serialize(v), lasts)
      PROVE  /\ e \in Stored /\ e.n = v.n /\ e.expires = lasts
             /\ IsNumber(e) <=> v.kind \in {"int", "uint"}
  <2>1. e = [kind |-> IF v.kind = "text" THEN "gob" ELSE "digits", n |-> v.n, expires |-> lasts]
    BY <1>5 DEF Keep, Serialize
  <2>2. e \in Stored
    BY <1>1, <2>1 DEF Stored, Numbers
  <2>3. v.kind \in {"int", "uint", "text"}
    BY <1>1, <1>5 DEF Serializable, Kind
  <2>4. IsNumber(e) <=> v.kind \in {"int", "uint"}
    BY <2>1, <2>3 DEF IsNumber
  <2> QED
    BY <2>1, <2>2, <2>4
<1> QED
  BY <1>1, <1>2, <1>3, <1>4, <1>5

LEMMA DigitsFacts ==
  ASSUME NEW n \in Numbers, NEW lasts \in BOOLEAN
  PROVE  /\ Digits(n, lasts) \in Stored /\ IsNumber(Digits(n, lasts))
         /\ Digits(n, lasts).n = n /\ Digits(n, lasts).expires = lasts
  BY DEF Digits, Keep, Stored, Numbers, IsNumber

LEMMA OperationFacts ==
  ASSUME NEW o \in Operation
  PROVE  /\ o.name \in {"Get", "GetMulti", "Set", "Add", "Replace", "Increment", "Decrement",
                        "Delete", "Flush"}
         /\ o.name \in {"Set", "Add", "Replace"} =>
              o.value \in Values /\ o.expires \in Expiry
         /\ o.name \in {"Increment", "Decrement"} => o.n \in Unsigned /\ o.n \in Int
<1>1. Amounts \subseteq Unsigned /\ Amounts \subseteq Int
  BY InputAssumption, NumberSets
<1> QED
  BY <1>1 DEF Operation

LEMMA ResultFacts ==
  /\ \A r \in {Nil, CacheMiss, NotStored, OtherError, Panics} : r \in Results
  /\ Nil.kind = "nil" /\ CacheMiss.kind = "miss" /\ NotStored.kind = "notstored"
  /\ OtherError.kind = "other" /\ Panics.kind = "panic"
  /\ \A n \in Int : /\ Number(n) \in Results /\ Number(n) \in [kind : {"nil"}, n : Unsigned]
                   /\ Number(n).kind = "nil" /\ Number(n).n = AsUint(n)
  /\ \A e \in Stored : Read(e) \in Results /\ Read(e).kind = "nil" /\ Read(e).n = e.n
<1>1. 0 \in Numbers /\ \A n \in Int : AsUint(n) \in Numbers /\ AsUint(n) \in Unsigned
  BY NumberSets, UintFacts DEF Numbers
<1>2. \A e \in Stored : e.n \in Numbers
  BY StoredFacts
<1>3. \A r \in {Nil, CacheMiss, NotStored, OtherError, Panics} : r \in Results
  BY <1>1 DEF Results, Nil, CacheMiss, NotStored, OtherError, Panics
<1>4. /\ Nil.kind = "nil" /\ CacheMiss.kind = "miss" /\ NotStored.kind = "notstored"
      /\ OtherError.kind = "other" /\ Panics.kind = "panic"
  BY DEF Nil, CacheMiss, NotStored, OtherError, Panics
<1>5. ASSUME NEW n \in Int
      PROVE  /\ Number(n) \in Results /\ Number(n) \in [kind : {"nil"}, n : Unsigned]
             /\ Number(n).kind = "nil" /\ Number(n).n = AsUint(n)
  BY <1>1 DEF Results, Number
<1>6. ASSUME NEW e \in Stored
      PROVE  Read(e) \in Results /\ Read(e).kind = "nil" /\ Read(e).n = e.n
  BY <1>2 DEF Results, Read
<1> QED
  BY <1>3, <1>4, <1>5, <1>6

-----------------------------------------------------------------------------
(* What may be reported, and what meets the contract, case by case. *)

LEMMA HonestFacts ==
  ASSUME NEW o, NEW seen
  PROVE  /\ Honest(o, seen, "other") /\ Honest(o, seen, "panic")
         /\ "absent" \in seen => Honest(o, seen, "miss")
         /\ o.name = "Add" /\ "present" \in seen => Honest(o, seen, "notstored")
         /\ o.name = "Replace" /\ "absent" \in seen => Honest(o, seen, "notstored")
         /\ o.name = "Replace" /\ o.value.kind = "nil" => Honest(o, seen, "notstored")
         /\ o.name = "Add" /\ "absent" \in seen => Honest(o, seen, "nil")
         /\ o.name \in {"Set", "Flush"} => Honest(o, seen, "nil")
         /\ o.name \in {"Get", "GetMulti", "Replace", "Delete", "Increment", "Decrement"}
              /\ "present" \in seen => Honest(o, seen, "nil")
  BY DEF Honest

LEMMA StoreContract ==
  ASSUME NEW o, NEW found, NEW left, NEW n,
         \/ o.name = "Set"
         \/ o.name = "Add" /\ ~Present(found)
         \/ o.name = "Replace" /\ Present(found),
         Present(left), IsNumber(left) <=> o.value.kind \in {"int", "uint"}, left.n = o.value.n,
         \/ left.expires <=> o.expires # "forever"
         \/ backend = "memcached" /\ o.expires = "subsecond"
  PROVE  MeetsContract(o, found, left, "nil", n)
  BY DEF MeetsContract

LEMMA CountContract ==
  ASSUME NEW o, NEW found, NEW left, NEW n, Present(found), IsNumber(left),
         \/ o.name = "Increment" /\ n = (AsUint(found.n) + o.n) % Modulus
         \/ o.name = "Decrement" /\ n = IF o.n > AsUint(found.n) THEN 0 ELSE AsUint(found.n) - o.n,
         AsUint(left.n) = n,
         left.expires = found.expires \/ (backend = "redis" /\ o.name = "Increment")
  PROVE  MeetsContract(o, found, left, "nil", n)
<1> HIDE DEF Modulus
<1>1. CASE o.name = "Increment"
  BY <1>1 DEF MeetsContract
<1>2. CASE o.name = "Decrement"
  BY <1>2 DEF MeetsContract
<1> QED
  BY <1>1, <1>2

LEMMA KeepsContract ==
  ASSUME NEW o, NEW found, NEW n
  PROVE  /\ o.name \in {"Get", "GetMulti"} /\ Present(found) =>
              MeetsContract(o, found, found, "nil", found.n)
         /\ o.name \in {"Get", "GetMulti", "Delete", "Increment", "Decrement"} /\ ~Present(found) =>
              MeetsContract(o, found, found, "miss", n)
         /\ o.name = "Add" /\ Present(found) => MeetsContract(o, found, found, "notstored", n)
         /\ o.name = "Replace" /\ ~Present(found) => MeetsContract(o, found, found, "notstored", n)
         /\ o.name = "Replace" /\ Present(found) /\ backend = "redis" /\ o.value.kind = "nil" =>
              MeetsContract(o, found, found, "notstored", n)
         /\ o.name = "Flush" => MeetsContract(o, found, Absent, "nil", n)
         /\ o.name = "Delete" /\ Present(found) => MeetsContract(o, found, Absent, "nil", n)
<1> HIDE DEF Modulus
<1>1. ~Present(Absent)
  BY AbsentFacts
<1>2. CASE Present(found)
  BY <1>1, <1>2 DEF MeetsContract
<1>3. CASE ~Present(found)
  BY <1>1, <1>3 DEF MeetsContract
<1> QED
  BY <1>2, <1>3

-----------------------------------------------------------------------------
(* A step of an operation either goes on, and what its client has met and     *)
(* holds stays right, or ends it with a reply that is.                        *)

ReplyRight(c, e, r) ==
  /\ Honest(call[c], met[c], r.kind)
  /\ before[c] # Empty /\ r.kind \in {"nil", "miss", "notstored"} =>
       MeetsContract(call[c], before[c], e, r.kind, r.n)

GoesOn(c)   == \E e \in Entries, place \in Place, x \in Held :
                 Goes(c, e, place, x) /\ ClientRight(c)'
Replies(c)  == \E e \in Entries, r \in Results : Answer(c, e, r) /\ ReplyRight(c, e, r)
StepRight(c) == GoesOn(c) \/ Replies(c)

(* What is known of a client in the middle of an operation. *)
LEMMA Here ==
  ASSUME IInv, NEW c \in Client, Active(c)
  PROVE  /\ call[c] \in Operation /\ entry \in Entries
         /\ before[c] \in Entries \cup {Empty} /\ held[c] \in Held
         /\ MetRight(c) /\ (before[c] # Empty => SinceRight(c))
         /\ Present(entry) => "present" \in met[c]
         /\ ~Present(entry) => "absent" \in met[c] /\ entry = Absent
         /\ before[c] # Empty /\ pc[c] # "convert" => before[c] = entry
<1>1. TypeOK /\ ClientRight(c)
  BY DEF IInv
<1>2. call[c] \in Operation /\ MetRight(c) /\ (before[c] # Empty => SinceRight(c))
  BY <1>1, Zenon DEF ClientRight
<1>3. /\ entry \in Entries /\ before[c] \in Entries \cup {Empty} /\ held[c] \in Held
  BY <1>1 DEF TypeOK, Held
<1>4. /\ Present(entry) => "present" \in met[c]
      /\ ~Present(entry) => "absent" \in met[c] /\ entry = Absent
  <2>1. Standing(entry) \in met[c]
    BY <1>2, Zenon DEF MetRight
  <2>2. Standing(entry) = IF Present(entry) THEN "present" ELSE "absent"
    BY DEF Standing
  <2>3. ~Present(entry) => entry = Absent
    BY <1>3, EntryFacts
  <2> QED
    BY <2>1, <2>2, <2>3
<1>5. ASSUME before[c] # Empty, pc[c] # "convert" PROVE before[c] = entry
  BY <1>2, <1>5, Zenon DEF SinceRight
<1> QED
  BY <1>2, <1>3, <1>4, <1>5

LEMMA AnswersStep ==
  ASSUME NEW c, NEW e \in Entries, NEW r \in Results, Answer(c, e, r), ReplyRight(c, e, r)
  PROVE  StepRight(c)
  BY Zenon DEF StepRight, Replies

(* An error of its own says nothing of the key. *)
LEMMA ErrorStep ==
  ASSUME NEW c, NEW e \in Entries, NEW r \in {OtherError, Panics}, Answer(c, e, r)
  PROVE  StepRight(c)
<1>1. r \in Results /\ r.kind \in {"other", "panic"}
  BY ResultFacts
<1>2. ReplyRight(c, e, r)
  BY <1>1, HonestFacts DEF ReplyRight
<1> QED
  BY <1>1, <1>2, AnswersStep

LEMMA FailsStep ==
  ASSUME NEW c, NEW result \in Entries, entry \in Entries, Fails(c, result)
  PROVE  StepRight(c)
<1>1. PICK e \in {entry, result} : Answer(c, e, OtherError)
  BY DEF Fails
<1> QED
  BY <1>1, ErrorStep

(* Replies that find the key and leave it as it is. *)
LEMMA KeepsStep ==
  ASSUME IInv, NEW c \in Client, Active(c), pc[c] # "convert", NEW r \in Results,
         Answer(c, entry, r),
         \/ /\ r.kind = "nil" /\ r.n = entry.n /\ Present(entry)
            /\ call[c].name \in {"Get", "GetMulti"}
         \/ /\ r.kind = "miss" /\ ~Present(entry)
            /\ call[c].name \in {"Get", "GetMulti", "Delete", "Increment", "Decrement"}
         \/ r.kind = "notstored" /\ Present(entry) /\ call[c].name = "Add"
         \/ r.kind = "notstored" /\ ~Present(entry) /\ call[c].name = "Replace"
         \/ /\ r.kind = "notstored" /\ Present(entry) /\ call[c].name = "Replace"
            /\ backend = "redis" /\ call[c].value.kind = "nil"
  PROVE  StepRight(c)
<1> DEFINE o == call[c]
           met_ == met[c]
<1>1. /\ entry \in Entries
      /\ Present(entry) => "present" \in met_
      /\ ~Present(entry) => "absent" \in met_
      /\ before[c] # Empty => before[c] = entry
  BY Here
<1>2. Honest(o, met_, r.kind)
  BY <1>1, HonestFacts
<1>3. before[c] # Empty => MeetsContract(o, entry, entry, r.kind, r.n)
  BY <1>1, KeepsContract
<1>4. ReplyRight(c, entry, r)
  BY <1>1, <1>2, <1>3 DEF ReplyRight
<1> QED
  BY <1>1, <1>4, AnswersStep

(* Replies that store the value of the operation, or remove the key. *)
LEMMA StoresStep ==
  ASSUME IInv, NEW c \in Client, Active(c), pc[c] # "convert", NEW e \in Stored,
         Answer(c, e, Nil),
         \/ call[c].name = "Set"
         \/ call[c].name = "Add" /\ "absent" \in met[c]
            /\ (before[c] # Empty => ~Present(entry))
         \/ call[c].name = "Replace" /\ "present" \in met[c]
            /\ (before[c] # Empty => Present(entry)),
         IsNumber(e) <=> call[c].value.kind \in {"int", "uint"}, e.n = call[c].value.n,
         \/ e.expires <=> call[c].expires # "forever"
         \/ backend = "memcached" /\ call[c].expires = "subsecond"
  PROVE  StepRight(c)
<1>1. before[c] # Empty => before[c] = entry
  BY Here
<1>2. Nil \in Results /\ Nil.kind = "nil" /\ e \in Entries /\ Present(e)
  BY ResultFacts, StoredFacts
<1>3. Honest(call[c], met[c], "nil")
  BY HonestFacts
<1>4. ASSUME before[c] # Empty PROVE MeetsContract(call[c], before[c], e, "nil", Nil.n)
  BY <1>1, <1>2, <1>4, StoreContract
<1>5. ReplyRight(c, e, Nil)
  BY <1>2, <1>3, <1>4, Zenon DEF ReplyRight
<1> QED
  BY <1>2, <1>5, AnswersStep

LEMMA RemovesStep ==
  ASSUME IInv, NEW c \in Client, Active(c), pc[c] # "convert", Answer(c, Absent, Nil),
         \/ call[c].name = "Flush"
         \/ call[c].name = "Delete" /\ "present" \in met[c]
            /\ (before[c] # Empty => Present(entry))
  PROVE  StepRight(c)
<1>1. before[c] # Empty => before[c] = entry
  BY Here
<1>2. Nil \in Results /\ Nil.kind = "nil" /\ Absent \in Entries
  BY ResultFacts, AbsentFacts
<1>3. Honest(call[c], met[c], "nil")
  BY HonestFacts
<1>4. ASSUME before[c] # Empty PROVE MeetsContract(call[c], before[c], Absent, "nil", Nil.n)
  BY <1>1, <1>4, KeepsContract
<1>5. ReplyRight(c, Absent, Nil)
  BY <1>2, <1>3, <1>4, Zenon DEF ReplyRight
<1> QED
  BY <1>2, <1>5, AnswersStep

(* Replies that count. *)
LEMMA CountsStep ==
  ASSUME IInv, NEW c \in Client, Active(c), NEW e \in Entries, NEW n \in Int,
         call[c].name \in {"Increment", "Decrement"},
         "present" \in met[c], Answer(c, e, Number(n)),
         before[c] # Empty =>
           /\ before[c] \in Stored /\ e \in Stored /\ IsNumber(e) /\ AsUint(e.n) = AsUint(n)
           /\ \/ call[c].name = "Increment" /\ AsUint(n) = AsUint(before[c].n + call[c].n)
              \/ call[c].name = "Decrement"
                 /\ AsUint(n) = IF call[c].n > AsUint(before[c].n) THEN 0
                                ELSE AsUint(before[c].n) - call[c].n
           /\ e.expires = before[c].expires \/ (backend = "redis" /\ call[c].name = "Increment")
  PROVE  StepRight(c)
<1>1. /\ Number(n) \in Results /\ Number(n).kind = "nil" /\ Number(n).n = AsUint(n)
  BY ResultFacts
<1>2. Honest(call[c], met[c], "nil")
  BY HonestFacts
<1>3. ASSUME before[c] # Empty PROVE MeetsContract(call[c], before[c], e, "nil", AsUint(n))
  <2> DEFINE b == before[c]
             o == call[c]
             m == AsUint(n)
  <2>1. /\ b \in Stored /\ Present(b) /\ b.n \in Int /\ IsNumber(e) /\ AsUint(e.n) = m
        /\ e.expires = b.expires \/ (backend = "redis" /\ o.name = "Increment")
    BY <1>3, StoredFacts
  <2>2. o.n \in Int
    BY Here, OperationFacts
  <2>3. CASE o.name = "Increment" /\ m = AsUint(b.n + o.n)
    <3>1. AsUint(AsUint(b.n) + o.n) = AsUint(b.n + o.n)
      BY <2>1, <2>2, UintOfSum
    <3>2. m = (AsUint(b.n) + o.n) % Modulus
      <4> HIDE DEF Modulus, m
      <4>1. AsUint(AsUint(b.n) + o.n) = (AsUint(b.n) + o.n) % Modulus
        BY Zenon DEF AsUint
      <4> QED
        BY <2>3, <3>1, <4>1
    <3> HIDE DEF Modulus, m, b, o
    <3>3. MeetsContract(o, b, e, "nil", m)
      BY <2>1, <2>3, <3>2, CountContract
    <3> QED
      BY <3>3 DEF m, b, o
  <2>4. CASE o.name = "Decrement" /\ m = IF o.n > AsUint(b.n) THEN 0 ELSE AsUint(b.n) - o.n
    <3> HIDE DEF m, b, o
    <3>1. MeetsContract(o, b, e, "nil", m)
      BY <2>1, <2>4, CountContract
    <3> QED
      BY <3>1 DEF m, b, o
  <2> QED
    BY <1>3, <2>3, <2>4
<1>4. ReplyRight(c, e, Number(n))
  BY <1>1, <1>2, <1>3, Zenon DEF ReplyRight
<1> QED
  BY <1>1, <1>4, AnswersStep

(* Where a client is after a step that does not end its operation. *)
LEMMA GoesFacts ==
  ASSUME TypeOK, NEW c \in Client, NEW e, NEW place, NEW x, Goes(c, e, place, x)
  PROVE  /\ pc'[c] = place /\ held'[c] = x /\ call'[c] = call[c] /\ before'[c] = before[c]
         /\ met'[c] = met[c] /\ entry' = e /\ backend' = backend
  BY DEF Goes, TypeOK

LEMMA GoesStep ==
  ASSUME IInv, NEW c \in Client, Active(c), pc[c] # "convert",
         NEW e \in Entries, NEW place \in Place, NEW x \in Held, Goes(c, e, place, x),
         \/ /\ place = "getter" /\ e = entry /\ call[c].name = "GetMulti"
            /\ backend # "memory" => x = entry
         \/ /\ place = "found" /\ e = entry /\ Present(entry)
            /\ call[c].name \in {"Delete", "Increment", "Decrement"}
         \/ /\ place = "capped" /\ e = entry /\ Present(entry) /\ IsNumber(entry)
            /\ call[c].name = "Decrement" /\ x \in [kind : {"nil"}, n : Unsigned]
            /\ x.n = Capped(call[c].n, AsUint(entry.n))
         \/ /\ place = "convert" /\ Present(e) /\ "present" \in met[c]
            /\ call[c].name \in {"Increment", "Decrement"}
            /\ before[c] # Empty =>
                 /\ IsNumber(before[c])
                 /\ e = Plus(before[c], IF call[c].name = "Increment" THEN call[c].n
                                        ELSE -Capped(call[c].n, AsUint(before[c].n)))
         \/ /\ place = "store" /\ e = entry
            /\ \/ call[c].name = "Add" /\ ~Present(entry)
               \/ call[c].name = "Replace" /\ Present(entry)
               \/ call[c].name = "Increment" /\ IsInt64(entry) /\ x = entry
         \/ /\ place = "decrby" /\ e = entry /\ call[c].name = "Decrement"
            /\ IsInt64(entry) /\ x = entry
  PROVE  StepRight(c)
<1> DEFINE o == call[c]
           b == before[c]
           seen == met[c]
<1>1. /\ o \in Operation /\ entry \in Entries
      /\ Present(entry) => "present" \in seen
      /\ ~Present(entry) => "absent" \in seen
      /\ b # Empty => b = entry
  BY Here
<1>2. /\ pc'[c] = place /\ held'[c] = x /\ call'[c] = o /\ before'[c] = b
      /\ met'[c] = seen /\ entry' = e /\ backend' = backend
  BY GoesFacts DEF IInv
<1>3. /\ Standing(e) = IF Present(e) THEN "present" ELSE "absent"
      /\ Standing(entry) = IF Present(entry) THEN "present" ELSE "absent"
      /\ Present(entry) => entry \in Stored
      /\ IsInt64(entry) => entry \in Stored /\ Present(entry)
  BY <1>1, EntryFacts DEF Standing
<1> HIDE DEF o, b, seen
<1>g. (o = call[c] /\ b = before[c] /\ seen = met[c])
  BY DEF o, b, seen
<1>4. MetRight(c)'
  BY <1>1, <1>2, <1>3, <1>g DEF MetRight
<1>5. ASSUME b # Empty PROVE SinceRight(c)'
  <2>1. b = entry
    BY <1>1, <1>5
  <2>2. CASE place = "convert"
    BY <1>2, <1>5, <1>g, <2>2 DEF SinceRight
  <2>3. CASE place # "convert"
    <3>1. e = entry
      BY <2>3
    <3> QED
      BY <1>2, <1>g, <2>1, <2>3, <3>1 DEF SinceRight
  <2> QED
    BY <2>2, <2>3
<1>6. ClientRight(c)'
  BY <1>1, <1>2, <1>4, <1>5 DEF ClientRight
<1> QED
  BY <1>6, Zenon DEF StepRight, GoesOn

(* The bounds of the model of a place and what a client holds there. *)
LEMMA HeldFacts ==
  /\ Empty \in Held /\ Entries \subseteq Held /\ [kind : {"nil"}, n : Unsigned] \subseteq Held
  /\ \A place \in {"getter", "found", "convert", "capped", "store", "decrby"} : place \in Place
  BY DEF Held, Place

-----------------------------------------------------------------------------
(* InMemoryCache. *)

(* The Getter of memory finds what is there now. *)
LEMMA FetchedStep ==
  ASSUME IInv, NEW c \in Client, Active(c), pc[c] # "convert",
         call[c].name \in {"Get", "GetMulti"}, NEW into, Answer(c, entry, Fetched(entry, into))
  PROVE  StepRight(c)
<1>1. entry \in Entries
  BY Here
<1>2. CASE ~Present(entry)
  <2>1. Fetched(entry, into) = CacheMiss
    BY <1>2 DEF Fetched
  <2> QED
    BY <1>2, <2>1, ResultFacts, KeepsStep
<1>3. CASE Present(entry) /\ entry.kind = into
  <2>1. Fetched(entry, into) = Read(entry) /\ entry \in Stored
    BY <1>1, <1>3, EntryFacts DEF Fetched
  <2>2. Read(entry) \in Results /\ Read(entry).kind = "nil" /\ Read(entry).n = entry.n
    BY <2>1, ResultFacts
  <2> QED
    BY <1>3, <2>1, <2>2, KeepsStep
<1>4. CASE Present(entry) /\ entry.kind # into
  <2>1. Fetched(entry, into) = Panics
    BY <1>4 DEF Fetched
  <2> QED
    BY <1>1, <2>1, ErrorStep
<1> QED
  BY <1>2, <1>3, <1>4

(* The value the client stores in memory. *)
LEMMA KeptFacts ==
  ASSUME NEW c, call[c] \in Operation, call[c].name \in {"Set", "Add", "Replace"}
  PROVE  /\ Kept(c) \in Stored /\ Kept(c).n = call[c].value.n
         /\ Kept(c).expires <=> call[c].expires # "forever"
         /\ IsNumber(Kept(c)) <=> call[c].value.kind \in {"int", "uint"}
<1>1. call[c].value \in Values /\ (call[c].expires # "forever") \in BOOLEAN
  BY OperationFacts
<1> QED
  BY <1>1, KeepFacts DEF Kept

LEMMA MemoryRight ==
  ASSUME IInv, NEW c \in Client, MemoryStep(c)
  PROVE  StepRight(c)
<1> DEFINE o == call[c]
<1>1. ASSUME NEW name, NEW place, place # "idle", Memory(c, name, place)
      PROVE  /\ Active(c) /\ pc[c] = place /\ o.name = name /\ backend = "memory"
             /\ o \in Operation /\ entry \in Entries /\ MetRight(c)
             /\ Present(entry) => "present" \in met[c]
             /\ ~Present(entry) => "absent" \in met[c] /\ entry = Absent
             /\ before[c] # Empty => before[c] \in Entries /\ SinceRight(c)
             /\ before[c] # Empty /\ place # "convert" => before[c] = entry
  <2>1. pc[c] = place /\ o.name = name /\ backend = "memory"
    BY <1>1 DEF Memory, At
  <2>2. Active(c)
    BY <1>1, <2>1 DEF Active
  <2> HIDE DEF o
  <2> QED
    BY <2>1, <2>2, Here DEF o
<1>2. CASE MemoryGet(c) \/ MemoryGetter(c)
  <2>1. PICK place \in {"called", "getter"}, name \in {"Get", "GetMulti"} :
          Memory(c, name, place) /\ Answer(c, entry, Fetched(entry, o.into))
    BY <1>2 DEF MemoryGet, MemoryGetter
  <2>2. Active(c) /\ pc[c] # "convert" /\ call[c].name \in {"Get", "GetMulti"}
    BY <1>1, <2>1
  <2> QED
    BY <2>1, <2>2, FetchedStep
<1>3. CASE MemoryGetMulti(c)
  <2>1. Memory(c, "GetMulti", "called") /\ Goes(c, entry, "getter", Empty)
    BY <1>3 DEF MemoryGetMulti
  <2> QED
    BY <1>1, <2>1, HeldFacts, GoesStep
<1>4. CASE MemorySet(c)
  <2>1. Memory(c, "Set", "called") /\ Answer(c, Kept(c), Nil)
    BY <1>4 DEF MemorySet
  <2> QED
    BY <1>1, <2>1, KeptFacts, StoresStep
<1>5. CASE MemoryAdd(c)
  <2>1. Memory(c, "Add", "called")
    BY <1>5 DEF MemoryAdd
  <2>2. CASE Present(entry) /\ Answer(c, entry, NotStored)
    BY <1>1, <2>1, <2>2, ResultFacts, KeepsStep
  <2>3. CASE ~Present(entry) /\ Answer(c, Kept(c), Nil)
    BY <1>1, <2>1, <2>3, KeptFacts, StoresStep
  <2> QED
    BY <1>5, <2>2, <2>3 DEF MemoryAdd
<1>6. CASE MemoryReplace(c)
  <2>1. Memory(c, "Replace", "called")
    BY <1>6 DEF MemoryReplace
  <2>2. CASE ~Present(entry) /\ Answer(c, entry, NotStored)
    BY <1>1, <2>1, <2>2, ResultFacts, KeepsStep
  <2>3. CASE Present(entry) /\ Answer(c, Kept(c), Nil)
    BY <1>1, <2>1, <2>3, KeptFacts, StoresStep
  <2> QED
    BY <1>6, <2>2, <2>3 DEF MemoryReplace
<1>7. CASE MemoryDeleteLooks(c) \/ MemoryIncrementLooks(c)
  <2>1. PICK name \in {"Delete", "Increment"} :
          /\ Memory(c, name, "called")
          /\ IF Present(entry) THEN Goes(c, entry, "found", Empty) ELSE Answer(c, entry, CacheMiss)
    BY <1>7 DEF MemoryDeleteLooks, MemoryIncrementLooks
  <2>2. CASE Present(entry) /\ Goes(c, entry, "found", Empty)
    BY <1>1, <2>1, <2>2, HeldFacts, GoesStep
  <2>3. CASE ~Present(entry) /\ Answer(c, entry, CacheMiss)
    BY <1>1, <2>1, <2>3, ResultFacts, KeepsStep
  <2> QED
    BY <2>1, <2>2, <2>3
<1>8. CASE MemoryDelete(c)
  <2>1. Memory(c, "Delete", "found") /\ Answer(c, Absent, Nil)
    BY <1>8 DEF MemoryDelete
  <2>2. /\ Active(c) /\ pc[c] = "found" /\ call[c].name = "Delete" /\ MetRight(c)
        /\ before[c] # Empty => before[c] = entry /\ SinceRight(c)
    BY <1>1, <2>1
  <2>3. "present" \in met[c] /\ (before[c] # Empty => Present(entry))
    BY <2>2 DEF MetRight, SinceRight
  <2>4. pc[c] # "convert"
    BY <2>2
  <2> QED
    BY <2>1, <2>2, <2>3, <2>4, RemovesStep
<1>9. CASE MemoryIncrement(c)
  <2>1. Memory(c, "Increment", "found")
    BY <1>9 DEF MemoryIncrement
  <2>2. /\ Active(c) /\ pc[c] = "found" /\ call[c].name = "Increment"
        /\ call[c] \in Operation /\ entry \in Entries
        /\ Present(entry) => "present" \in met[c]
        /\ before[c] # Empty => before[c] = entry
    BY <1>1, <2>1
  <2>3. CASE IsNumber(entry) /\ Goes(c, Plus(entry, call[c].n), "convert", Empty)
    <3>1. entry \in Stored /\ Present(entry) /\ call[c].n \in Int
      BY <2>2, <2>3, EntryFacts, OperationFacts
    <3>2. Plus(entry, call[c].n) \in Entries /\ Present(Plus(entry, call[c].n))
      BY <2>3, <3>1, PlusFacts, StoredFacts
    <3> QED
      BY <2>2, <2>3, <3>1, <3>2, HeldFacts, GoesStep
  <2>4. CASE Answer(c, entry, OtherError)
    BY <2>2, <2>4, ErrorStep
  <2> QED
    BY <1>9, <2>3, <2>4 DEF MemoryIncrement
<1>10. CASE MemoryDecrementLooks(c)
  <2>1. Memory(c, "Decrement", "called")
    BY <1>10 DEF MemoryDecrementLooks
  <2>2. /\ Active(c) /\ pc[c] = "called" /\ call[c].name = "Decrement"
        /\ call[c] \in Operation /\ entry \in Entries
    BY <1>1, <2>1
  <2>3. CASE IsNumber(entry) /\ Goes(c, entry, "capped", Number(Capped(call[c].n, AsUint(entry.n))))
    <3> DEFINE k == Capped(call[c].n, AsUint(entry.n))
    <3>1. Present(entry) /\ entry.n \in Int /\ call[c].n \in Unsigned
      BY <2>2, <2>3, EntryFacts, OperationFacts
    <3>2. k \in Unsigned /\ k \in Int
      BY <3>1, CappedFacts, NumberSets
    <3> HIDE DEF k
    <3>3. AsUint(k) = k
      BY <3>2, UintFacts
    <3>4. Number(k) \in [kind : {"nil"}, n : Unsigned] /\ Number(k).n = k
      BY <3>2, <3>3, ResultFacts
    <3>5. Number(k) \in Held
      BY <3>4, HeldFacts
    <3>6. Goes(c, entry, "capped", Number(k)) /\ IsNumber(entry)
      BY <2>3 DEF k
    <3>7. Number(k).n = Capped(call[c].n, AsUint(entry.n))
      BY <3>4 DEF k
    <3> QED
      BY <2>2, <3>1, <3>4, <3>5, <3>6, <3>7, HeldFacts, GoesStep
  <2>4. CASE ~IsNumber(entry) /\ Answer(c, entry, Converted(entry))
    <3>1. CASE ~Present(entry)
      <4>1. Converted(entry) = CacheMiss
        BY <3>1 DEF Converted
      <4> QED
        BY <2>2, <2>4, <3>1, <4>1, ResultFacts, KeepsStep
    <3>2. CASE Present(entry)
      <4>1. Converted(entry) = OtherError
        BY <2>4, <3>2 DEF Converted
      <4> QED
        BY <2>2, <2>4, <4>1, ErrorStep
    <3> QED
      BY <3>1, <3>2
  <2> QED
    BY <1>10, <2>3, <2>4 DEF MemoryDecrementLooks
<1>11. CASE MemoryDecrement(c)
  <2>1. Memory(c, "Decrement", "capped")
    BY <1>11 DEF MemoryDecrement
  <2>2. /\ Active(c) /\ pc[c] = "capped" /\ call[c].name = "Decrement"
        /\ call[c] \in Operation /\ entry \in Entries /\ MetRight(c)
        /\ before[c] # Empty => before[c] = entry /\ SinceRight(c)
    BY <1>1, <2>1
  <2>3. /\ "present" \in met[c] /\ held[c].n \in Unsigned
        /\ before[c] # Empty => held[c].n = Capped(call[c].n, AsUint(before[c].n))
    BY <2>2 DEF MetRight, SinceRight
  <2>4. CASE IsNumber(entry) /\ Goes(c, Plus(entry, -held[c].n), "convert", Empty)
    <3>1. entry \in Stored /\ Present(entry) /\ -held[c].n \in Int
      <4>1. held[c].n \in Int
        BY <2>3, NumberSets
      <4> QED
        BY <2>2, <2>4, <4>1, EntryFacts
    <3>2. Plus(entry, -held[c].n) \in Entries /\ Present(Plus(entry, -held[c].n))
      BY <2>4, <3>1, PlusFacts, StoredFacts
    <3>3. before[c] # Empty =>
            /\ IsNumber(before[c])
            /\ Plus(entry, -held[c].n) = Plus(before[c], -Capped(call[c].n, AsUint(before[c].n)))
      BY <2>2, <2>3, <2>4
    <3> QED
      BY <2>2, <2>3, <2>4, <3>2, <3>3, HeldFacts, GoesStep
  <2>5. CASE Answer(c, entry, OtherError)
    BY <2>2, <2>5, ErrorStep
  <2> QED
    BY <1>11, <2>4, <2>5 DEF MemoryDecrement
<1>12. CASE MemoryConvert(c)
  <2>1. PICK name \in {"Increment", "Decrement"} : Memory(c, name, "convert")
    BY <1>12 DEF MemoryConvert
  <2>2. Answer(c, entry, Converted(entry))
    BY <1>12 DEF MemoryConvert
  <2>3. /\ Active(c) /\ pc[c] = "convert" /\ call[c].name \in {"Increment", "Decrement"}
        /\ call[c] \in Operation /\ entry \in Entries /\ MetRight(c)
        /\ ~Present(entry) => "absent" \in met[c] /\ entry = Absent
        /\ before[c] # Empty => before[c] \in Entries /\ SinceRight(c)
    BY <1>1, <2>1
  <2>4. "present" \in met[c]
    BY <2>3 DEF MetRight
  <2>n. call[c].n \in Int /\ call[c].n \in Unsigned
    BY <2>3, OperationFacts
  <2>5. ASSUME before[c] # Empty
        PROVE  /\ before[c] \in Stored /\ IsNumber(entry) /\ entry \in Stored
               /\ entry.expires = before[c].expires
               /\ call[c].name = "Increment" => AsUint(entry.n) = AsUint(before[c].n + call[c].n)
               /\ call[c].name = "Decrement" =>
                    AsUint(entry.n) = IF call[c].n > AsUint(before[c].n) THEN 0
                                      ELSE AsUint(before[c].n) - call[c].n
    <3> DEFINE b == before[c]
               k == Capped(call[c].n, AsUint(b.n))
               m == IF call[c].name = "Increment" THEN call[c].n ELSE -k
    <3>1. IsNumber(b) /\ entry = Plus(b, m) /\ b \in Entries
      BY <2>3, <2>5 DEF SinceRight
    <3>2. b \in Stored /\ b.n \in Int
      BY <3>1, EntryFacts
    <3>3. k \in Unsigned /\ k \in Int /\ -k \in Int
          /\ AsUint(b.n + (-k)) = IF call[c].n > AsUint(b.n) THEN 0 ELSE AsUint(b.n) - call[c].n
      <4>1. k \in Unsigned
            /\ AsUint(b.n + (-k)) = IF call[c].n > AsUint(b.n) THEN 0 ELSE AsUint(b.n) - call[c].n
        BY <2>n, <3>2, CappedFacts
      <4>2. k \in Int
        BY <4>1, NumberSets
      <4> QED
        BY <4>1, <4>2
    <3> HIDE DEF k
    <3>4. m \in Int
      BY <2>n, <3>3
    <3>5. /\ Plus(b, m) \in Stored /\ IsNumber(Plus(b, m)) /\ Plus(b, m).expires = b.expires
          /\ AsUint(Plus(b, m).n) = AsUint(b.n + m)
      <4> HIDE DEF m, b
      <4> QED
        BY <3>1, <3>2, <3>4, PlusFacts
    <3>6. CASE call[c].name = "Increment"
      BY <3>1, <3>2, <3>5, <3>6
    <3>7. CASE call[c].name = "Decrement"
      <4>1. m = -k
        BY <3>7
      <4> QED
        BY <3>1, <3>2, <3>3, <3>5, <3>7, <4>1
    <3> QED
      BY <2>3, <3>6, <3>7
  <2>6. CASE ~Present(entry)
    <3>1. Converted(entry) = CacheMiss
      BY <2>6 DEF Converted
    <3>2. before[c] = Empty
      <4>1. ~IsNumber(entry)
        BY <2>3, <2>6, AbsentFacts
      <4> QED
        BY <2>5, <4>1
    <3>3. CacheMiss \in Results /\ CacheMiss.kind = "miss"
      BY ResultFacts
    <3>4. ReplyRight(c, entry, CacheMiss)
      BY <2>3, <2>6, <3>2, <3>3, HonestFacts DEF ReplyRight
    <3> QED
      BY <2>2, <2>3, <3>1, <3>3, <3>4, AnswersStep
  <2>7. CASE Present(entry) /\ IsNumber(entry)
    <3>1. Converted(entry) = Number(entry.n)
      BY <2>7 DEF Converted
    <3>2. entry.n \in Int
      BY <2>3, EntryFacts
    <3> QED
      BY <2>2, <2>3, <2>4, <2>5, <3>1, <3>2, CountsStep
  <2>8. CASE Present(entry) /\ ~IsNumber(entry)
    <3>1. Converted(entry) = OtherError
      BY <2>8 DEF Converted
    <3> QED
      BY <2>2, <2>3, <3>1, ErrorStep
  <2> QED
    BY <2>6, <2>7, <2>8
<1>13. CASE MemoryFlush(c)
  <2>1. Memory(c, "Flush", "called") /\ Answer(c, Absent, Nil)
    BY <1>13 DEF MemoryFlush
  <2> QED
    BY <1>1, <2>1, RemovesStep
<1> QED
  BY <1>2, <1>3, <1>4, <1>5, <1>6, <1>7, <1>8, <1>9, <1>10, <1>11, <1>12, <1>13 DEF MemoryStep

-----------------------------------------------------------------------------
(* The commands of a server. *)

(* A Get or Getter decodes what there is, or what MGET has read. *)
LEMMA ReadsStep ==
  ASSUME IInv, NEW c \in Client, Active(c), pc[c] # "convert",
         call[c].name \in {"Get", "GetMulti"},
         NEW x \in Entries, Standing(x) \in met[c], before[c] # Empty => x = before[c],
         NEW r, r = Decoded(x, call[c].into) \/ (r = CacheMiss /\ ~Present(x)),
         Answer(c, entry, r)
  PROVE  StepRight(c)
<1>1. entry \in Entries /\ (before[c] # Empty => before[c] = entry)
  BY Here
<1>2. CASE r = CacheMiss /\ ~Present(x)
  <2>1. "absent" \in met[c] /\ r \in Results /\ r.kind = "miss"
    BY <1>2, ResultFacts DEF Standing
  <2>2. Honest(call[c], met[c], r.kind)
    BY <2>1, HonestFacts
  <2>3. ASSUME before[c] # Empty PROVE MeetsContract(call[c], before[c], entry, r.kind, r.n)
    BY <1>1, <1>2, <2>1, <2>3, KeepsContract
  <2> QED
    BY <1>1, <2>1, <2>2, <2>3, AnswersStep DEF ReplyRight
<1>3. CASE r = Decoded(x, call[c].into) /\ Deserializes(x, call[c].into)
  <2>1. x \in Stored
    <3>1. x.kind # "absent"
      BY <1>3 DEF Deserializes
    <3> QED
      BY <3>1, AbsentFacts DEF Entries
  <2>2. r = Read(x) /\ Present(x) /\ "present" \in met[c]
    BY <1>3, <2>1, StoredFacts DEF Decoded
  <2>3. r \in Results /\ r.kind = "nil" /\ r.n = x.n
    BY <2>1, <2>2, ResultFacts
  <2>4. Honest(call[c], met[c], r.kind)
    BY <2>2, <2>3, HonestFacts
  <2>5. ASSUME before[c] # Empty PROVE MeetsContract(call[c], before[c], entry, r.kind, r.n)
    BY <1>1, <2>2, <2>3, <2>5, KeepsContract
  <2> QED
    BY <1>1, <2>3, <2>4, <2>5, AnswersStep DEF ReplyRight
<1>4. CASE r = Decoded(x, call[c].into) /\ ~Deserializes(x, call[c].into)
  <2>1. r = OtherError
    BY <1>4 DEF Decoded
  <2> QED
    BY <1>1, <2>1, ErrorStep
<1> QED
  BY <1>2, <1>3, <1>4

(* The digits or the gob of the client's value. *)
LEMMA SerializedFacts ==
  ASSUME NEW c, call[c] \in Operation, call[c].name \in {"Set", "Add", "Replace"},
         Serializable(call[c].value), NEW lasts \in BOOLEAN,
         NEW e, e = Keep(Serialize(call[c].value), lasts)
  PROVE  /\ e \in Stored /\ e.n = call[c].value.n /\ e.expires = lasts
         /\ IsNumber(e) <=> call[c].value.kind \in {"int", "uint"}
<1>1. call[c].value \in Values
  BY OperationFacts
<1> QED
  BY <1>1, KeepFacts

-----------------------------------------------------------------------------
(* RedisCache. *)

LEMMA RedisInvokeStep ==
  ASSUME IInv, NEW c \in Client, Active(c), pc[c] # "convert",
         \/ call[c].name = "Set"
         \/ call[c].name = "Add" /\ "absent" \in met[c]
            /\ (before[c] # Empty => ~Present(entry))
         \/ call[c].name = "Replace" /\ "present" \in met[c]
            /\ (before[c] # Empty => Present(entry)),
         RedisInvoke(c)
  PROVE  StepRight(c)
<1>1. call[c] \in Operation /\ entry \in Entries
  BY Here
<1>2. CASE Serializable(call[c].value) /\ call[c].expires # "subsecond"
  <2> DEFINE lasts == call[c].expires # "forever"
             e == Keep(Serialize(call[c].value), lasts)
  <2>1. Answer(c, e, Nil) \/ Fails(c, e)
    BY <1>2 DEF RedisInvoke, Commands
  <2>2. /\ e \in Stored /\ e.n = call[c].value.n /\ e.expires = lasts
        /\ IsNumber(e) <=> call[c].value.kind \in {"int", "uint"}
    BY <1>1, <1>2, SerializedFacts
  <2>3. e \in Entries
    BY <2>2 DEF Entries
  <2> HIDE DEF e
  <2>4. CASE Answer(c, e, Nil)
    BY <2>2, <2>4, StoresStep
  <2>5. CASE Fails(c, e)
    BY <1>1, <2>3, <2>5, FailsStep
  <2> QED
    BY <2>1, <2>4, <2>5
<1>3. CASE Answer(c, entry, OtherError)
  BY <1>1, <1>3, ErrorStep
<1> QED
  BY <1>2, <1>3 DEF RedisInvoke

LEMMA RedisRight ==
  ASSUME IInv, NEW c \in Client, RedisStep(c)
  PROVE  StepRight(c)
<1> DEFINE o == call[c]
<1>1. ASSUME NEW name, NEW place, place # "idle", Redis(c, name, place)
      PROVE  /\ Active(c) /\ pc[c] = place /\ o.name = name /\ backend = "redis"
             /\ o \in Operation /\ entry \in Entries /\ MetRight(c)
             /\ Present(entry) => "present" \in met[c]
             /\ ~Present(entry) => "absent" \in met[c] /\ entry = Absent
             /\ Standing(entry) \in met[c]
             /\ before[c] # Empty => before[c] \in Entries /\ SinceRight(c)
             /\ before[c] # Empty /\ place # "convert" => before[c] = entry
  <2>1. pc[c] = place /\ o.name = name /\ backend = "redis"
    BY <1>1 DEF Redis, At
  <2>2. Active(c)
    BY <1>1, <2>1 DEF Active
  <2>3. MetRight(c)
    BY <2>2, Here
  <2>4. Standing(entry) \in met[c]
    BY <2>3, Zenon DEF MetRight
  <2> HIDE DEF o
  <2> QED
    BY <2>1, <2>2, <2>4, Here DEF o
<1>2. CASE RedisGet(c)
  <2>1. /\ Redis(c, "Get", "called")
        /\ Queries(c, IF Present(entry) THEN Decoded(entry, call[c].into) ELSE CacheMiss)
    BY <1>2 DEF RedisGet
  <2>2. CASE Fails(c, entry)
    BY <1>1, <2>1, <2>2, FailsStep
  <2>3. CASE Answer(c, entry, IF Present(entry) THEN Decoded(entry, call[c].into) ELSE CacheMiss)
    BY <1>1, <2>1, <2>3, ReadsStep
  <2> QED
    BY <2>1, <2>2, <2>3 DEF Queries
<1>3. CASE RedisGetMulti(c)
  <2>1. Redis(c, "GetMulti", "called") /\ Continues(c, "getter", entry)
    BY <1>3 DEF RedisGetMulti
  <2>2. CASE Fails(c, entry)
    BY <1>1, <2>1, <2>2, FailsStep
  <2>3. CASE Goes(c, entry, "getter", entry)
    BY <1>1, <2>1, <2>3, HeldFacts, GoesStep
  <2> QED
    BY <2>1, <2>2, <2>3 DEF Continues
<1>4. CASE RedisGetter(c)
  <2>1. Redis(c, "GetMulti", "getter") /\ Answer(c, entry, Decoded(held[c], call[c].into))
    BY <1>4 DEF RedisGetter
  <2>2. /\ Active(c) /\ pc[c] = "getter" /\ backend # "memory" /\ call[c].name = "GetMulti"
        /\ MetRight(c) /\ (before[c] # Empty => SinceRight(c))
    BY <1>1, <2>1
  <2>3. held[c] \in Entries /\ Standing(held[c]) \in met[c]
    BY <2>2 DEF MetRight
  <2>4. before[c] # Empty => held[c] = before[c]
    BY <2>2 DEF SinceRight
  <2>5. pc[c] # "convert" /\ call[c].name \in {"Get", "GetMulti"}
    BY <2>2
  <2> QED
    BY <2>1, <2>2, <2>3, <2>4, <2>5, ReadsStep
<1>5. CASE RedisSet(c)
  <2>1. Redis(c, "Set", "called") /\ RedisInvoke(c)
    BY <1>5 DEF RedisSet
  <2> QED
    BY <1>1, <2>1, RedisInvokeStep
<1>6. CASE RedisAddLooks(c) \/ RedisReplaceLooks(c)
  <2>1. PICK name \in {"Add", "Replace"} :
          /\ Redis(c, name, "called")
          /\ \/ (name = "Add" <=> ~Present(entry)) /\ Continues(c, "store", Empty)
             \/ (name = "Add" <=> Present(entry)) /\ Queries(c, NotStored)
    BY <1>6 DEF RedisAddLooks, RedisReplaceLooks
  <2>2. CASE Fails(c, entry)
    BY <1>1, <2>1, <2>2, FailsStep
  <2>3. CASE (name = "Add" <=> ~Present(entry)) /\ Goes(c, entry, "store", Empty)
    BY <1>1, <2>1, <2>3, HeldFacts, GoesStep
  <2>4. CASE (name = "Add" <=> Present(entry)) /\ Answer(c, entry, NotStored)
    BY <1>1, <2>1, <2>4, ResultFacts, KeepsStep
  <2> QED
    BY <2>1, <2>2, <2>3, <2>4 DEF Queries, Continues
<1>7. CASE RedisAdd(c) \/ RedisReplace(c)
  <2>1. PICK name \in {"Add", "Replace"} :
          /\ Redis(c, name, "store")
          /\ \/ RedisInvoke(c)
             \/ /\ name = "Replace" /\ ~Serializable(call[c].value)
                /\ Answer(c, entry, NotStored)
    BY <1>7 DEF RedisAdd, RedisReplace
  <2>2. /\ Active(c) /\ pc[c] = "store" /\ call[c].name = name /\ MetRight(c)
        /\ backend = "redis" /\ entry \in Entries
        /\ before[c] # Empty => before[c] = entry /\ SinceRight(c)
    BY <1>1, <2>1
  <2>3. /\ name = "Add" => "absent" \in met[c]
        /\ name = "Replace" => "present" \in met[c]
    BY <2>2 DEF MetRight
  <2>4. before[c] # Empty => (name = "Add" => ~Present(entry)) /\ (name = "Replace" => Present(entry))
    BY <2>2 DEF SinceRight
  <2>5. pc[c] # "convert"
    BY <2>2
  <2>6. CASE RedisInvoke(c)
    BY <2>2, <2>3, <2>4, <2>5, <2>6, RedisInvokeStep
  <2>7. CASE name = "Replace" /\ ~Serializable(call[c].value) /\ Answer(c, entry, NotStored)
    <3>1. call[c].value.kind = "nil"
      BY <2>7 DEF Serializable
    <3>2. NotStored \in Results /\ NotStored.kind = "notstored"
      BY ResultFacts
    <3>3. Honest(call[c], met[c], "notstored")
      BY <2>2, <2>7, <3>1, HonestFacts
    <3>4. ASSUME before[c] # Empty
          PROVE  MeetsContract(call[c], before[c], entry, "notstored", NotStored.n)
      BY <2>2, <2>4, <2>7, <3>1, <3>4, KeepsContract
    <3>5. ReplyRight(c, entry, NotStored)
      BY <3>2, <3>3, <3>4 DEF ReplyRight
    <3> QED
      BY <2>2, <2>7, <3>2, <3>5, AnswersStep
  <2> QED
    BY <2>1, <2>6, <2>7
<1>8. CASE RedisDelete(c)
  <2>1. /\ Redis(c, "Delete", "called")
        /\ Commands(c, Absent, IF Present(entry) THEN Nil ELSE CacheMiss)
    BY <1>8 DEF RedisDelete
  <2>2. CASE Fails(c, Absent)
    BY <1>1, <2>1, <2>2, AbsentFacts, FailsStep
  <2>3. CASE Present(entry) /\ Answer(c, Absent, Nil)
    BY <1>1, <2>1, <2>3, RemovesStep
  <2>4. CASE ~Present(entry) /\ Answer(c, entry, CacheMiss)
    BY <1>1, <2>1, <2>4, ResultFacts, KeepsStep
  <2>5. ~Present(entry) => entry = Absent
    BY <1>1, <2>1
  <2> QED
    BY <2>1, <2>2, <2>3, <2>4, <2>5 DEF Commands
<1>9. CASE RedisIncrementReads(c)
  <2>1. /\ Redis(c, "Increment", "called")
        /\ \/ IsInt64(entry) /\ Goes(c, entry, "store", entry)
           \/ ~IsInt64(entry) /\ Answer(c, entry, IF Present(entry) THEN OtherError ELSE CacheMiss)
           \/ Fails(c, entry)
    BY <1>9 DEF RedisIncrementReads, Queries, Continues
  <2>2. CASE Fails(c, entry)
    BY <1>1, <2>1, <2>2, FailsStep
  <2>3. CASE IsInt64(entry) /\ Goes(c, entry, "store", entry)
    BY <1>1, <2>1, <2>3, HeldFacts, GoesStep
  <2>4. CASE Present(entry) /\ Answer(c, entry, OtherError)
    BY <1>1, <2>1, <2>4, ErrorStep
  <2>5. CASE ~Present(entry) /\ Answer(c, entry, CacheMiss)
    BY <1>1, <2>1, <2>5, ResultFacts, KeepsStep
  <2> QED
    BY <2>1, <2>2, <2>3, <2>4, <2>5
<1>10. CASE RedisIncrement(c)
  <2> DEFINE sum == AsInt(held[c].n + call[c].n)
             e == Digits(sum, FALSE)
  <2>1. Redis(c, "Increment", "store") /\ Commands(c, e, Number(sum))
    BY <1>10 DEF RedisIncrement
  <2>2. /\ Active(c) /\ pc[c] = "store" /\ call[c].name = "Increment" /\ MetRight(c)
        /\ call[c] \in Operation /\ entry \in Entries /\ backend = "redis"
        /\ before[c] # Empty => before[c] \in Entries /\ SinceRight(c)
    BY <1>1, <2>1
  <2>3. "present" \in met[c] /\ held[c] \in Stored
    BY <2>2 DEF MetRight
  <2>4. before[c] # Empty => IsInt64(before[c]) /\ held[c] = before[c]
    BY <2>2 DEF SinceRight
  <2>5. held[c].n + call[c].n \in Int
    BY <2>2, <2>3, StoredFacts, OperationFacts
  <2>6. sum \in Signed /\ sum \in Int /\ AsUint(sum) = AsUint(held[c].n + call[c].n)
    BY <2>5, IntFacts, NumberSets
  <2> HIDE DEF sum
  <2>7. e \in Stored /\ e \in Entries /\ IsNumber(e) /\ e.n = sum
    BY <2>6, DigitsFacts DEF Numbers, Entries
  <2>8. CASE Fails(c, e)
    BY <2>2, <2>7, <2>8, FailsStep
  <2>9. CASE Answer(c, e, Number(sum))
    BY <2>2, <2>3, <2>4, <2>6, <2>7, <2>9, CountsStep
  <2> QED
    BY <2>1, <2>8, <2>9 DEF Commands
<1>11. CASE RedisDecrementLooks(c)
  <2>1. /\ Redis(c, "Decrement", "called")
        /\ \/ Present(entry) /\ Goes(c, entry, "found", Empty)
           \/ ~Present(entry) /\ Answer(c, entry, CacheMiss)
           \/ Fails(c, entry)
    BY <1>11 DEF RedisDecrementLooks, Queries, Continues
  <2>2. CASE Fails(c, entry)
    BY <1>1, <2>1, <2>2, FailsStep
  <2>3. CASE Present(entry) /\ Goes(c, entry, "found", Empty)
    BY <1>1, <2>1, <2>3, HeldFacts, GoesStep
  <2>4. CASE ~Present(entry) /\ Answer(c, entry, CacheMiss)
    BY <1>1, <2>1, <2>4, ResultFacts, KeepsStep
  <2> QED
    BY <2>1, <2>2, <2>3, <2>4
<1>12. CASE RedisDecrementReads(c)
  <2>1. /\ Redis(c, "Decrement", "found")
        /\ \/ IsInt64(entry) /\ Goes(c, entry, "decrby", entry)
           \/ Answer(c, entry, OtherError)
           \/ Fails(c, entry)
    BY <1>12 DEF RedisDecrementReads, Queries, Continues
  <2>2. CASE Fails(c, entry)
    BY <1>1, <2>1, <2>2, FailsStep
  <2>3. CASE IsInt64(entry) /\ Goes(c, entry, "decrby", entry)
    BY <1>1, <2>1, <2>3, HeldFacts, GoesStep
  <2>4. CASE Answer(c, entry, OtherError)
    BY <1>1, <2>1, <2>4, ErrorStep
  <2> QED
    BY <2>1, <2>2, <2>3, <2>4
<1>13. CASE RedisDecrement(c)
  <2> DEFINE current == held[c].n
             n == IF call[c].n > AsUint(current) THEN current ELSE call[c].n
             e == Decrby(entry, n)
  <2>1. /\ Redis(c, "Decrement", "decrby")
        /\ \/ Accepts(entry, n) /\ Answer(c, e, Number(entry.n - n))
           \/ Accepts(entry, n) /\ Fails(c, e)
           \/ Answer(c, entry, OtherError)
           \/ Fails(c, entry)
    BY <1>13 DEF RedisDecrement, Commands, Queries
  <2>2. /\ Active(c) /\ pc[c] = "decrby" /\ call[c].name = "Decrement" /\ MetRight(c)
        /\ call[c] \in Operation /\ entry \in Entries /\ backend = "redis"
        /\ before[c] # Empty => before[c] = entry /\ SinceRight(c)
    BY <1>1, <2>1
  <2>3. "present" \in met[c] /\ held[c] \in Stored
    BY <2>2 DEF MetRight
  <2>4. before[c] # Empty => IsInt64(before[c]) /\ held[c] = before[c]
    BY <2>2 DEF SinceRight
  <2>5. call[c].n \in Unsigned /\ call[c].n \in Int /\ current \in Int /\ entry.n \in Int /\ n \in Int
    BY <2>2, <2>3, OperationFacts, StoredFacts, EntryFacts
  <2>6. /\ Accepts(entry, n) => e \in Stored /\ e \in Entries /\ IsNumber(e) /\ e.n = entry.n - n
        /\ Accepts(entry, n) => e.expires = entry.expires
    <3>1. ASSUME Accepts(entry, n) PROVE entry.n - n \in Numbers /\ entry.expires \in BOOLEAN
      <4>1. entry.n - n \in Signed
        BY <3>1 DEF Accepts
      <4>2. entry.expires \in BOOLEAN
        <5>1. Absent.expires = FALSE
          BY DEF Absent
        <5> HIDE DEF n, e, current
        <5> QED
          BY <2>2, <5>1, StoredFacts DEF Entries
      <4> QED
        BY <4>1, <4>2 DEF Numbers
    <3> HIDE DEF n
    <3> QED
      BY <3>1, DigitsFacts DEF Decrby, Entries
  <2>7. before[c] # Empty =>
          AsUint(entry.n - n) = IF call[c].n > AsUint(before[c].n) THEN 0
                                ELSE AsUint(before[c].n) - call[c].n
    <3> SUFFICES ASSUME before[c] # Empty
                 PROVE  AsUint(entry.n - n) = IF call[c].n > AsUint(entry.n) THEN 0
                                              ELSE AsUint(entry.n) - call[c].n
      BY <2>2
    <3>1. held[c].n = entry.n
      BY <2>2, <2>4
    <3>2. CASE call[c].n > AsUint(entry.n)
      <4>1. entry.n - n = 0
        BY <2>5, <3>1, <3>2
      <4>2. AsUint(0) = 0
        BY NumberSets, UintFacts
      <4> QED
        BY <3>2, <4>1, <4>2
    <3>3. CASE ~(call[c].n > AsUint(entry.n))
      <4>1. n = call[c].n
        BY <3>1, <3>3
      <4>2. Capped(call[c].n, AsUint(entry.n)) = call[c].n
        BY <3>3 DEF Capped
      <4>3. AsUint(entry.n + (-call[c].n)) = AsUint(entry.n) - call[c].n
        <5> HIDE DEF n, current
        <5> QED
          BY <2>5, <3>3, <4>2, CappedFacts
      <4>4. entry.n - n = entry.n + (-call[c].n)
        BY <2>5, <4>1
      <4> QED
        BY <3>3, <4>3, <4>4
    <3> QED
      BY <3>2, <3>3
  <2>8. entry.n - n \in Int
    BY <2>5
  <2> HIDE DEF n, e
  <2>9. CASE Accepts(entry, n) /\ Answer(c, e, Number(entry.n - n))
    <3>1. ASSUME before[c] # Empty
          PROVE  before[c] \in Stored /\ e.expires = before[c].expires
      BY <2>2, <2>4, <2>6, <2>9, <3>1, EntryFacts
    <3> QED
      BY <2>2, <2>3, <2>6, <2>7, <2>8, <2>9, <3>1, CountsStep
  <2>10. CASE Accepts(entry, n) /\ Fails(c, e)
    BY <2>2, <2>6, <2>10, FailsStep
  <2>11. CASE Answer(c, entry, OtherError)
    BY <2>2, <2>11, ErrorStep
  <2>12. CASE Fails(c, entry)
    BY <2>2, <2>12, FailsStep
  <2> QED
    BY <2>1, <2>9, <2>10, <2>11, <2>12
<1>14. CASE RedisFlush(c)
  <2>1. Redis(c, "Flush", "called") /\ (Answer(c, Absent, Nil) \/ Fails(c, Absent))
    BY <1>14 DEF RedisFlush, Commands
  <2>2. CASE Fails(c, Absent)
    BY <1>1, <2>1, <2>2, AbsentFacts, FailsStep
  <2>3. CASE Answer(c, Absent, Nil)
    BY <1>1, <2>1, <2>3, RemovesStep
  <2> QED
    BY <2>1, <2>2, <2>3
<1> QED
  BY <1>2, <1>3, <1>4, <1>5, <1>6, <1>7, <1>8, <1>9, <1>10, <1>11, <1>12, <1>13, <1>14 DEF RedisStep

-----------------------------------------------------------------------------
(* MemcachedCache. *)

LEMMA MemcachedInvokeStep ==
  ASSUME IInv, NEW c \in Client, Active(c), pc[c] # "convert", backend = "memcached",
         NEW stores \in BOOLEAN,
         \/ call[c].name = "Set" /\ stores
         \/ call[c].name = "Add" /\ (stores <=> ~Present(entry))
         \/ call[c].name = "Replace" /\ (stores <=> Present(entry)),
         MemcachedInvoke(c, stores)
  PROVE  StepRight(c)
<1>1. /\ call[c] \in Operation /\ entry \in Entries
      /\ Present(entry) => "present" \in met[c]
      /\ ~Present(entry) => "absent" \in met[c]
  BY Here
<1>2. CASE Answer(c, entry, OtherError)
  BY <1>1, <1>2, ErrorStep
<1>3. CASE Serializable(call[c].value) /\ stores
  <2> DEFINE lasts == call[c].expires = "default"
             e == Keep(Serialize(call[c].value), lasts)
  <2>1. Answer(c, e, Nil) \/ Fails(c, e)
    BY <1>3 DEF MemcachedInvoke, Commands
  <2>2. /\ e \in Stored /\ e.n = call[c].value.n /\ e.expires = lasts
        /\ IsNumber(e) <=> call[c].value.kind \in {"int", "uint"}
    BY <1>1, <1>3, SerializedFacts
  <2>3. e \in Entries
    BY <2>2 DEF Entries
  <2>4. \/ e.expires <=> call[c].expires # "forever"
        \/ call[c].expires = "subsecond"
    <3>1. call[c].expires \in Expiry
      BY <1>1, OperationFacts
    <3> QED
      BY <2>2, <3>1 DEF Expiry
  <2> HIDE DEF e
  <2>5. CASE Answer(c, e, Nil)
    BY <1>1, <1>3, <2>2, <2>4, <2>5, StoresStep
  <2>6. CASE Fails(c, e)
    BY <1>1, <2>3, <2>6, FailsStep
  <2> QED
    BY <2>1, <2>5, <2>6
<1>4. CASE Fails(c, entry)
  BY <1>1, <1>4, FailsStep
<1>5. CASE ~stores /\ Answer(c, entry, NotStored)
  BY <1>1, <1>5, ResultFacts, KeepsStep
<1> QED
  BY <1>2, <1>3, <1>4, <1>5 DEF MemcachedInvoke, Queries

LEMMA MemcachedCountsStep ==
  ASSUME IInv, NEW c \in Client, NEW name \in {"Increment", "Decrement"}, NEW result \in Unsigned,
         entry.kind = "digits" /\ entry.n \in Unsigned =>
           result = IF name = "Increment" THEN AsUint(entry.n + call[c].n)
                    ELSE IF call[c].n > entry.n THEN 0 ELSE entry.n - call[c].n,
         MemcachedCounts(c, name, result)
  PROVE  StepRight(c)
<1>1. /\ Active(c) /\ pc[c] = "called" /\ call[c].name = name /\ backend = "memcached"
  BY DEF MemcachedCounts, Memcached, At, Active
<1>2. /\ call[c] \in Operation /\ entry \in Entries
      /\ Present(entry) => "present" \in met[c]
      /\ before[c] # Empty => before[c] = entry
  BY <1>1, Here
<1> DEFINE e == [entry EXCEPT !.n = result]
<1>3. \/ entry.kind = "digits" /\ entry.n \in Unsigned /\ Answer(c, e, Number(result))
      \/ entry.kind = "digits" /\ entry.n \in Unsigned /\ Fails(c, e)
      \/ Answer(c, entry, IF Present(entry) THEN OtherError ELSE CacheMiss)
      \/ Fails(c, entry)
  BY DEF MemcachedCounts, Commands, Queries
<1>4. ASSUME entry.kind = "digits", entry.n \in Unsigned
      PROVE  /\ entry \in Stored /\ Present(entry) /\ AsUint(entry.n) = entry.n
             /\ e \in Stored /\ e \in Entries /\ IsNumber(e) /\ e.n = result
             /\ e.expires = entry.expires
  <2>1. entry \in Stored
    BY <1>2, <1>4, AbsentFacts DEF Entries
  <2>2. AsUint(entry.n) = entry.n /\ Present(entry)
    BY <1>4, <2>1, NumberSets, UintFacts, StoredFacts
  <2>3. e \in Stored /\ e.kind = "digits" /\ e.n = result /\ e.expires = entry.expires
    BY <1>4, <2>1 DEF Stored
  <2> QED
    BY <2>1, <2>2, <2>3 DEF IsNumber, Entries
<1>5. result \in Int /\ AsUint(result) = result
  BY NumberSets, UintFacts
<1> HIDE DEF e
<1>6. CASE entry.kind = "digits" /\ entry.n \in Unsigned /\ Answer(c, e, Number(result))
  BY <1>1, <1>2, <1>4, <1>5, <1>6, CountsStep
<1>7. CASE entry.kind = "digits" /\ entry.n \in Unsigned /\ Fails(c, e)
  BY <1>2, <1>4, <1>7, FailsStep
<1>8. CASE Answer(c, entry, IF Present(entry) THEN OtherError ELSE CacheMiss)
  <2>1. CASE Present(entry) /\ Answer(c, entry, OtherError)
    BY <1>2, <2>1, ErrorStep
  <2>2. CASE ~Present(entry) /\ Answer(c, entry, CacheMiss)
    BY <1>1, <2>2, ResultFacts, KeepsStep
  <2> QED
    BY <1>8, <2>1, <2>2
<1>9. CASE Fails(c, entry)
  BY <1>2, <1>9, FailsStep
<1> QED
  BY <1>3, <1>6, <1>7, <1>8, <1>9

LEMMA MemcachedRight ==
  ASSUME IInv, NEW c \in Client, MemcachedStep(c)
  PROVE  StepRight(c)
<1> DEFINE o == call[c]
<1>1. ASSUME NEW name, NEW place, place # "idle", Memcached(c, name, place)
      PROVE  /\ Active(c) /\ pc[c] = place /\ o.name = name /\ backend = "memcached"
             /\ o \in Operation /\ entry \in Entries /\ MetRight(c)
             /\ ~Present(entry) => entry = Absent
             /\ Present(entry) => "present" \in met[c]
             /\ Standing(entry) \in met[c]
             /\ before[c] # Empty => before[c] \in Entries /\ SinceRight(c)
             /\ before[c] # Empty /\ place # "convert" => before[c] = entry
  <2>1. pc[c] = place /\ o.name = name /\ backend = "memcached"
    BY <1>1 DEF Memcached, At
  <2>2. Active(c)
    BY <1>1, <2>1 DEF Active
  <2>3. MetRight(c)
    BY <2>2, Here
  <2>4. Standing(entry) \in met[c]
    BY <2>3, Zenon DEF MetRight
  <2> HIDE DEF o
  <2> QED
    BY <2>1, <2>2, <2>4, Here DEF o
<1>2. CASE MemcachedGet(c)
  <2>1. /\ Memcached(c, "Get", "called")
        /\ Queries(c, IF Present(entry) THEN Decoded(entry, call[c].into) ELSE CacheMiss)
    BY <1>2 DEF MemcachedGet
  <2>2. CASE Fails(c, entry)
    BY <1>1, <2>1, <2>2, FailsStep
  <2>3. CASE Answer(c, entry, IF Present(entry) THEN Decoded(entry, call[c].into) ELSE CacheMiss)
    BY <1>1, <2>1, <2>3, ReadsStep
  <2> QED
    BY <2>1, <2>2, <2>3 DEF Queries
<1>3. CASE MemcachedGetMulti(c)
  <2>1. Memcached(c, "GetMulti", "called") /\ Continues(c, "getter", entry)
    BY <1>3 DEF MemcachedGetMulti
  <2>2. CASE Fails(c, entry)
    BY <1>1, <2>1, <2>2, FailsStep
  <2>3. CASE Goes(c, entry, "getter", entry)
    BY <1>1, <2>1, <2>3, HeldFacts, GoesStep
  <2> QED
    BY <2>1, <2>2, <2>3 DEF Continues
<1>4. CASE MemcachedGetter(c)
  <2> DEFINE r == IF Present(held[c]) THEN Decoded(held[c], call[c].into) ELSE CacheMiss
  <2>1. Memcached(c, "GetMulti", "getter") /\ Answer(c, entry, r)
    BY <1>4 DEF MemcachedGetter
  <2>2. /\ Active(c) /\ pc[c] = "getter" /\ backend # "memory" /\ call[c].name = "GetMulti"
        /\ MetRight(c) /\ (before[c] # Empty => SinceRight(c))
    BY <1>1, <2>1
  <2>3. held[c] \in Entries /\ Standing(held[c]) \in met[c]
    BY <2>2 DEF MetRight
  <2>4. before[c] # Empty => held[c] = before[c]
    BY <2>2 DEF SinceRight
  <2>5. pc[c] # "convert" /\ call[c].name \in {"Get", "GetMulti"}
    BY <2>2
  <2>6. r = Decoded(held[c], call[c].into) \/ (r = CacheMiss /\ ~Present(held[c]))
    OBVIOUS
  <2> HIDE DEF r
  <2> QED
    BY <2>1, <2>2, <2>3, <2>4, <2>5, <2>6, ReadsStep
<1>5. CASE MemcachedSet(c)
  <2>1. Memcached(c, "Set", "called") /\ MemcachedInvoke(c, TRUE)
    BY <1>5 DEF MemcachedSet
  <2>2. /\ Active(c) /\ pc[c] # "convert" /\ backend = "memcached" /\ call[c].name = "Set"
        /\ TRUE \in BOOLEAN
    BY <1>1, <2>1
  <2> QED
    BY <2>1, <2>2, MemcachedInvokeStep
<1>6. CASE MemcachedAdd(c)
  <2>1. Memcached(c, "Add", "called") /\ MemcachedInvoke(c, ~Present(entry))
    BY <1>6 DEF MemcachedAdd
  <2>2. /\ Active(c) /\ pc[c] # "convert" /\ backend = "memcached" /\ call[c].name = "Add"
        /\ TRUE \in BOOLEAN /\ FALSE \in BOOLEAN
    BY <1>1, <2>1
  <2>3. CASE Present(entry)
    <3>1. MemcachedInvoke(c, FALSE)
      BY <2>1, <2>3 DEF MemcachedInvoke
    <3> QED
      BY <2>2, <2>3, <3>1, MemcachedInvokeStep
  <2>4. CASE ~Present(entry)
    <3>1. MemcachedInvoke(c, TRUE)
      BY <2>1, <2>4 DEF MemcachedInvoke
    <3> QED
      BY <2>2, <2>4, <3>1, MemcachedInvokeStep
  <2> QED
    BY <2>3, <2>4
<1>7. CASE MemcachedReplace(c)
  <2>1. Memcached(c, "Replace", "called") /\ MemcachedInvoke(c, Present(entry))
    BY <1>7 DEF MemcachedReplace
  <2>2. Present(entry) \in BOOLEAN
    BY DEF Present
  <2> QED
    BY <1>1, <2>1, <2>2, MemcachedInvokeStep
<1>8. CASE MemcachedDelete(c)
  <2>1. /\ Memcached(c, "Delete", "called")
        /\ Commands(c, Absent, IF Present(entry) THEN Nil ELSE CacheMiss)
    BY <1>8 DEF MemcachedDelete
  <2>2. CASE Fails(c, Absent)
    BY <1>1, <2>1, <2>2, AbsentFacts, FailsStep
  <2>3. CASE Present(entry) /\ Answer(c, Absent, Nil)
    BY <1>1, <2>1, <2>3, RemovesStep
  <2>4. CASE ~Present(entry) /\ Answer(c, entry, CacheMiss)
    BY <1>1, <2>1, <2>4, ResultFacts, KeepsStep
  <2>5. ~Present(entry) => entry = Absent
    BY <1>1, <2>1
  <2> QED
    BY <2>1, <2>2, <2>3, <2>4, <2>5 DEF Commands
<1>9. CASE MemcachedIncrement(c)
  <2> DEFINE result == AsUint(entry.n + call[c].n)
  <2>1. MemcachedCounts(c, "Increment", result)
    BY <1>9 DEF MemcachedIncrement
  <2>2. call[c].n \in Int /\ entry.n \in Int
    BY <1>1, <2>1, OperationFacts, EntryFacts DEF MemcachedCounts
  <2>3. result \in Unsigned
    BY <2>2, UintFacts
  <2> QED
    BY <2>1, <2>3, MemcachedCountsStep
<1>10. CASE MemcachedDecrement(c)
  <2> DEFINE result == entry.n - Capped(call[c].n, entry.n)
  <2>1. MemcachedCounts(c, "Decrement", result)
    BY <1>10 DEF MemcachedDecrement
  <2>2. CASE entry.kind = "digits" /\ entry.n \in Unsigned
    <3>1. call[c].n \in Unsigned /\ call[c].n \in Int /\ entry.n \in Int
      BY <1>1, <2>1, <2>2, OperationFacts, EntryFacts DEF MemcachedCounts
    <3>2. result = IF call[c].n > entry.n THEN 0 ELSE entry.n - call[c].n
      BY <3>1 DEF Capped
    <3>3. result \in Unsigned
      <4> HIDE DEF Modulus
      <4> QED
        BY <2>2, <3>1, <3>2, ModulusFacts
    <3> QED
      BY <2>1, <3>2, <3>3, MemcachedCountsStep
  <2>3. CASE ~(entry.kind = "digits" /\ entry.n \in Unsigned)
    <3>1. MemcachedCounts(c, "Decrement", 0)
      BY <2>1, <2>3 DEF MemcachedCounts
    <3> QED
      BY <2>3, <3>1, NumberSets, MemcachedCountsStep
  <2> QED
    BY <2>2, <2>3
<1>11. CASE MemcachedFlush(c)
  <2>1. Memcached(c, "Flush", "called") /\ Answer(c, entry, OtherError)
    BY <1>11 DEF MemcachedFlush
  <2> QED
    BY <1>1, <2>1, ErrorStep
<1> QED
  BY <1>2, <1>3, <1>4, <1>5, <1>6, <1>7, <1>8, <1>9, <1>10, <1>11 DEF MemcachedStep

-----------------------------------------------------------------------------
(* What a step of one client leaves right for the others. *)

(* A client that did not move stays right when the entry changes to e.  *)
LEMMA OthersKept ==
  ASSUME TypeOK, NEW d \in Client, ClientRight(d), NEW e \in Entries,
         entry' = e, backend' = backend,
         pc'[d] = pc[d], call'[d] = call[d], held'[d] = held[d],
         before'[d] = Disturbed(d, e), met'[d] = Meets(d, e)
  PROVE  ClientRight(d)'
<1> SUFFICES ASSUME Active(d)'
             PROVE  call'[d] \in Operation /\ MetRight(d)'
                    /\ (before'[d] # Empty => SinceRight(d)')
  BY DEF ClientRight
<1>1. Active(d)
  BY DEF Active
<1>2. call[d] \in Operation /\ MetRight(d) /\ (before[d] # Empty => SinceRight(d))
  BY <1>1, Zenon DEF ClientRight
<1>3. met'[d] = met[d] \cup {Standing(e)}
  BY <1>1 DEF Meets
<1>4. MetRight(d)'
  <2>1. (Standing(entry) \in met[d])'
    BY <1>3
  <2>2. met[d] \subseteq met'[d]
    BY <1>3
  <2> QED
    BY <1>2, <2>1, <2>2 DEF MetRight
<1>5. ASSUME before'[d] # Empty PROVE SinceRight(d)'
  <2>1. e = entry /\ before'[d] = before[d]
    BY <1>1, <1>5 DEF Disturbed
  <2>2. SinceRight(d)
    BY <1>2, <1>5, <2>1
  <2> QED
    BY <2>1, <2>2 DEF SinceRight
<1> QED
  BY <1>2, <1>4, <1>5

LEMMA ValuesKept ==
  ASSUME TypeOK, NEW d \in Client, NEW e \in Entries
  PROVE  /\ Disturbed(d, e) \in Entries \cup {Empty}
         /\ Meets(d, e) \in SUBSET {"present", "absent"}
<1>1. Standing(e) \in {"present", "absent"}
  BY EntryFacts
<1>2. before[d] \in Entries \cup {Empty} /\ met[d] \in SUBSET {"present", "absent"}
  BY DEF TypeOK
<1> QED
  BY <1>1, <1>2 DEF Disturbed, Meets

(* The inductive invariant with the two properties: IInv is what makes the    *)
(* next reply right, whatever the last one was.                               *)
RepliesRight == RepliesAreHonest /\ UndisturbedMeetsContract

Strong == IInv /\ RepliesRight

LEMMA CallKeeps ==
  ASSUME IInv, NEW c \in Client, NEW o \in Operation, Call(c, o)
  PROVE  Strong'
<1>1. TypeOK /\ \A d \in Client : ClientRight(d)
  BY DEF IInv
<1>2. /\ pc' = [pc EXCEPT ![c] = "called"] /\ call' = [call EXCEPT ![c] = o]
      /\ before' = [before EXCEPT ![c] = entry]
      /\ met' = [met EXCEPT ![c] = {Standing(entry)}]
      /\ reply' = Empty
      /\ backend' = backend /\ entry' = entry /\ held' = held
  BY DEF Call
<1>3. entry \in Entries /\ Standing(entry) \in {"present", "absent"}
  BY <1>1, EntryFacts DEF TypeOK
<1>4. TypeOK'
  BY <1>1, <1>2, <1>3 DEF TypeOK, Place
<1>5. ClientRight(c)'
  <2>1. pc'[c] = "called" /\ call'[c] = o /\ before'[c] = entry /\ met'[c] = {Standing(entry)}
    BY <1>1, <1>2 DEF TypeOK
  <2>2. MetRight(c)'
    BY <1>2, <2>1 DEF MetRight
  <2>3. SinceRight(c)'
    BY <1>2, <2>1 DEF SinceRight
  <2> QED
    BY <2>1, <2>2, <2>3 DEF ClientRight
<1>6. ASSUME NEW d \in Client \ {c} PROVE ClientRight(d)'
  <2>1. /\ pc'[d] = pc[d] /\ call'[d] = call[d] /\ before'[d] = before[d] /\ met'[d] = met[d]
        /\ held'[d] = held[d] /\ entry' = entry /\ backend' = backend
    BY <1>1, <1>2 DEF TypeOK
  <2>2. ClientRight(d)
    BY <1>1
  <2> QED
    BY <2>1, <2>2 DEF ClientRight, Active, MetRight, SinceRight
<1>7. RepliesRight'
  BY <1>2 DEF RepliesRight, RepliesAreHonest, UndisturbedMeetsContract
<1> QED
  BY <1>4, <1>5, <1>6, <1>7 DEF Strong, IInv

LEMMA ExpireKeeps ==
  ASSUME IInv, Expire
  PROVE  Strong'
<1>1. TypeOK /\ \A d \in Client : ClientRight(d)
  BY DEF IInv
<1>2. /\ entry' = Absent
      /\ before' = [d \in Client |-> Disturbed(d, Absent)]
      /\ met' = [d \in Client |-> Meets(d, Absent)]
      /\ reply' = Empty
      /\ backend' = backend /\ pc' = pc /\ call' = call /\ held' = held
  BY DEF Expire
<1>3. Absent \in Entries
  BY AbsentFacts
<1>4. TypeOK'
  <2>1. \A d \in Client : /\ Disturbed(d, Absent) \in Entries \cup {Empty}
                         /\ Meets(d, Absent) \in SUBSET {"present", "absent"}
    BY <1>1, <1>3, ValuesKept
  <2> QED
    BY <1>1, <1>2, <1>3, <2>1 DEF TypeOK
<1>5. ASSUME NEW d \in Client PROVE ClientRight(d)'
  BY <1>1, <1>2, <1>3, OthersKept
<1>6. RepliesRight'
  BY <1>2 DEF RepliesRight, RepliesAreHonest, UndisturbedMeetsContract
<1> QED
  BY <1>4, <1>5, <1>6 DEF Strong, IInv

LEMMA GoesKeeps ==
  ASSUME IInv, NEW c \in Client, GoesOn(c)
  PROVE  Strong'
<1>1. TypeOK /\ \A d \in Client : ClientRight(d)
  BY DEF IInv
<1>2. PICK e \in Entries, place \in Place, x \in Held :
        Goes(c, e, place, x) /\ ClientRight(c)'
  BY Zenon DEF GoesOn
<1>3. /\ entry' = e /\ pc' = [pc EXCEPT ![c] = place] /\ held' = [held EXCEPT ![c] = x]
      /\ before' = [d \in Client |-> IF d = c THEN before[d] ELSE Disturbed(d, e)]
      /\ met' = [d \in Client |-> IF d = c THEN met[d] ELSE Meets(d, e)]
      /\ reply' = Empty /\ backend' = backend /\ call' = call
  BY <1>2 DEF Goes
<1>4. TypeOK'
  <2>1. \A d \in Client : /\ Disturbed(d, e) \in Entries \cup {Empty}
                         /\ Meets(d, e) \in SUBSET {"present", "absent"}
    BY <1>1, ValuesKept
  <2>2. /\ before' \in [Client -> Entries \cup {Empty}]
        /\ met' \in [Client -> SUBSET {"present", "absent"}]
    BY <1>1, <1>3, <2>1 DEF TypeOK
  <2>3. pc' \in [Client -> Place] /\ held' \in [Client -> Held]
    BY <1>1, <1>3 DEF TypeOK, Held
  <2> QED
    BY <1>1, <1>3, <2>2, <2>3 DEF TypeOK, Held
<1>5. ASSUME NEW d \in Client \ {c} PROVE ClientRight(d)'
  <2>1. /\ pc'[d] = pc[d] /\ call'[d] = call[d] /\ held'[d] = held[d]
        /\ before'[d] = Disturbed(d, e) /\ met'[d] = Meets(d, e)
    BY <1>1, <1>3 DEF TypeOK
  <2> QED
    BY <1>1, <1>3, <2>1, OthersKept
<1>6. RepliesRight'
  BY <1>3 DEF RepliesRight, RepliesAreHonest, UndisturbedMeetsContract
<1> QED
  BY <1>2, <1>4, <1>5, <1>6 DEF Strong, IInv

LEMMA RepliesKeeps ==
  ASSUME IInv, NEW c \in Client, Active(c), Replies(c)
  PROVE  Strong'
<1>1. TypeOK /\ \A d \in Client : ClientRight(d)
  BY DEF IInv
<1>2. PICK e \in Entries, r \in Results : Answer(c, e, r) /\ ReplyRight(c, e, r)
  BY Zenon DEF Replies
<1>3. /\ entry' = e /\ pc' = [pc EXCEPT ![c] = "idle"]
      /\ call' = [call EXCEPT ![c] = Empty] /\ held' = [held EXCEPT ![c] = Empty]
      /\ before' = [d \in Client |-> IF d = c THEN Empty ELSE Disturbed(d, e)]
      /\ met' = [d \in Client |-> IF d = c THEN {} ELSE Meets(d, e)]
      /\ reply' = [of |-> call[c], error |-> r.kind, n |-> r.n, before |-> before[c], met |-> met[c]]
      /\ backend' = backend
  BY <1>2 DEF Answer
<1>4. /\ reply'.of = call[c] /\ reply'.error = r.kind /\ reply'.n = r.n
      /\ reply'.before = before[c] /\ reply'.met = met[c]
  BY <1>3
<1>5. TypeOK'
  <2>1. \A d \in Client : /\ Disturbed(d, e) \in Entries \cup {Empty}
                         /\ Meets(d, e) \in SUBSET {"present", "absent"}
    BY <1>1, ValuesKept
  <2>2. /\ before' \in [Client -> Entries \cup {Empty}]
        /\ met' \in [Client -> SUBSET {"present", "absent"}]
    BY <1>1, <1>3, <2>1 DEF TypeOK
  <2>3. /\ pc' \in [Client -> Place] /\ call' \in [Client -> Operation \cup {Empty}]
        /\ held' \in [Client -> Held]
    BY <1>1, <1>3 DEF TypeOK, Held, Place
  <2>4. call[c] \in Operation
    BY Here
  <2>5. r.n \in Numbers /\ r.kind \in {"nil", "miss", "notstored", "other", "panic"}
    BY DEF Results
  <2> QED
    BY <1>1, <1>3, <1>4, <2>2, <2>3, <2>4, <2>5 DEF TypeOK, Held, Numbers
<1>6. ASSUME NEW d \in Client \ {c} PROVE ClientRight(d)'
  <2>1. /\ pc'[d] = pc[d] /\ call'[d] = call[d] /\ held'[d] = held[d]
        /\ before'[d] = Disturbed(d, e) /\ met'[d] = Meets(d, e)
    BY <1>1, <1>3 DEF TypeOK
  <2> QED
    BY <1>1, <1>3, <2>1, OthersKept
<1>7. ClientRight(c)'
  <2>1. pc'[c] = "idle"
    BY <1>1, <1>3 DEF TypeOK
  <2> QED
    BY <2>1 DEF ClientRight, Active
<1>8. RepliesAreHonest'
  <2>1. Honest(call[c], met[c], r.kind)
    BY <1>2 DEF ReplyRight
  <2> QED
    BY <1>4, <2>1, Zenon DEF RepliesAreHonest, Honest
<1>9. UndisturbedMeetsContract'
  <2> SUFFICES ASSUME (reply.before # Empty /\ reply.error \in {"nil", "miss", "notstored"})'
               PROVE  MeetsContract(reply.of, reply.before, entry, reply.error, reply.n)'
    BY Zenon DEF UndisturbedMeetsContract
  <2>1. MeetsContract(call[c], before[c], e, r.kind, r.n)
    BY <1>2, <1>4 DEF ReplyRight
  <2> HIDE DEF Modulus
  <2> QED
    BY <1>3, <1>4, <2>1 DEF MeetsContract
<1> QED
  BY <1>5, <1>6, <1>7, <1>8, <1>9 DEF Strong, IInv, RepliesRight

-----------------------------------------------------------------------------
(* The theorems. *)

LEMMA InitStrong == Init => Strong
<1> SUFFICES ASSUME Init PROVE Strong
  OBVIOUS
<1>1. /\ backend \in {"memory", "redis", "memcached"} /\ entry = Absent
      /\ pc = [c \in Client |-> "idle"]
      /\ call = [c \in Client |-> Empty] /\ held = [c \in Client |-> Empty]
      /\ before = [c \in Client |-> Empty] /\ met = [c \in Client |-> {}]
      /\ reply = Empty
  BY BackendAssumption DEF Init
<1>2. TypeOK
  BY <1>1, AbsentFacts DEF TypeOK, Place
<1>3. ASSUME NEW c \in Client PROVE ClientRight(c)
  BY <1>1 DEF ClientRight, Active
<1>4. RepliesRight
  BY <1>1 DEF RepliesRight, RepliesAreHonest, UndisturbedMeetsContract
<1> QED
  BY <1>2, <1>3, <1>4 DEF Strong, IInv

(* What a step of an operation is, on any backend. *)
LEMMA OperationStep ==
  ASSUME IInv, NEW c \in Client, MemoryStep(c) \/ RedisStep(c) \/ MemcachedStep(c)
  PROVE  Active(c) /\ (GoesOn(c) \/ Replies(c))
<1>1. StepRight(c)
  BY MemoryRight, RedisRight, MemcachedRight
<1>2. ASSUME NEW name, NEW place, place # "idle",
             Memory(c, name, place) \/ Redis(c, name, place) \/ Memcached(c, name, place)
      PROVE  Active(c)
  BY <1>2 DEF Memory, Redis, Memcached, At, Active
<1>3. CASE MemoryStep(c)
  <2>1. PICK name, place : place # "idle" /\ Memory(c, name, place)
    <3>1. MemoryConvert(c) => \E name, place : place # "idle" /\ Memory(c, name, place)
      BY DEF MemoryConvert
    <3> QED
      BY <1>3, <3>1 DEF MemoryStep, MemoryGet, MemoryGetMulti, MemoryGetter, MemorySet,
         MemoryAdd, MemoryReplace, MemoryDeleteLooks, MemoryDelete, MemoryIncrementLooks,
         MemoryIncrement, MemoryDecrementLooks, MemoryDecrement, MemoryFlush
  <2> QED
    BY <1>1, <1>2, <2>1 DEF StepRight
<1>4. CASE RedisStep(c)
  <2>1. PICK name, place : place # "idle" /\ Redis(c, name, place)
    BY <1>4 DEF RedisStep, RedisGet, RedisGetMulti, RedisGetter, RedisSet, RedisAddLooks,
       RedisAdd, RedisReplaceLooks, RedisReplace, RedisDelete, RedisIncrementReads,
       RedisIncrement, RedisDecrementLooks, RedisDecrementReads, RedisDecrement, RedisFlush
  <2> QED
    BY <1>1, <1>2, <2>1 DEF StepRight
<1>5. CASE MemcachedStep(c)
  <2>1. PICK name, place : place # "idle" /\ Memcached(c, name, place)
    BY <1>5 DEF MemcachedStep, MemcachedGet, MemcachedGetMulti, MemcachedGetter,
       MemcachedSet, MemcachedAdd, MemcachedReplace, MemcachedDelete, MemcachedIncrement,
       MemcachedDecrement, MemcachedFlush, MemcachedCounts
  <2> QED
    BY <1>1, <1>2, <2>1 DEF StepRight
<1> QED
  BY <1>3, <1>4, <1>5

LEMMA StepStrong == Strong /\ [Next]_vars => Strong'
<1> SUFFICES ASSUME Strong, [Next]_vars PROVE Strong'
  OBVIOUS
<1>1. IInv /\ RepliesRight
  BY DEF Strong
<1>2. ASSUME NEW c \in Client, NEW o \in Operation, Call(c, o) PROVE Strong'
  BY <1>1, <1>2, CallKeeps
<1>3. ASSUME NEW c \in Client, MemoryStep(c) \/ RedisStep(c) \/ MemcachedStep(c)
      PROVE  Strong'
  <2>1. Active(c) /\ (GoesOn(c) \/ Replies(c))
    BY <1>1, <1>3, OperationStep
  <2> QED
    BY <1>1, <2>1, GoesKeeps, RepliesKeeps
<1>4. ASSUME Expire PROVE Strong'
  BY <1>1, <1>4, ExpireKeeps
<1>5. ASSUME UNCHANGED vars PROVE Strong'
  <2>1. /\ backend' = backend /\ entry' = entry /\ pc' = pc /\ call' = call /\ held' = held
        /\ before' = before /\ met' = met /\ reply' = reply
    BY <1>5 DEF vars
  <2>2. TypeOK'
    BY <1>1, <2>1 DEF TypeOK, IInv
  <2>3. ASSUME NEW c \in Client PROVE ClientRight(c)'
    <3>1. ClientRight(c)
      BY <1>1 DEF IInv
    <3> QED
      BY <2>1, <3>1 DEF ClientRight, Active, MetRight, SinceRight
  <2>4. RepliesAreHonest'
    BY <1>1, <2>1 DEF RepliesRight, RepliesAreHonest
  <2>5. UndisturbedMeetsContract'
    <3> HIDE DEF Modulus
    <3> QED
      BY <1>1, <2>1 DEF RepliesRight, UndisturbedMeetsContract, MeetsContract
  <2> QED
    BY <2>2, <2>3, <2>4, <2>5 DEF Strong, IInv, RepliesRight
<1> QED
  BY <1>2, <1>3, <1>4, <1>5 DEF Next

LEMMA StrongInvariant == Spec => []Strong
  BY InitStrong, StepStrong, PTL DEF Spec

(* The variables stay in their types. *)
THEOREM TypeCorrect == Spec => []TypeOK
<1>1. Strong => TypeOK
  BY DEF Strong, IInv
<1> QED
  BY <1>1, StrongInvariant, PTL

(* What an operation of any backend reports of the key was so at a moment of  *)
(* the operation, for any number of clients and whatever they interleave.     *)
THEOREM HonestReplies == Spec => []RepliesAreHonest
<1>1. Strong => RepliesAreHonest
  BY DEF Strong, RepliesRight
<1> QED
  BY <1>1, StrongInvariant, PTL

(* An operation nobody disturbs does on every backend what the comments of    *)
(* the Cache interface say, for integers of any width.                        *)
THEOREM ContractMet == Spec => []UndisturbedMeetsContract
<1>1. Strong => UndisturbedMeetsContract
  BY DEF Strong, RepliesRight
<1> QED
  BY <1>1, StrongInvariant, PTL

(* Only MemoryIncrement and MemcachedIncrement change the entry in a step of  *)
(* an Increment outside Redis, and both add to what is there.                 *)
LEMMA IncrementStep ==
  ASSUME IInv, [Next]_vars, backend # "redis", NEW c \in Client, Active(c),
         Steps(c, "Increment"), entry' # entry
  PROVE  Present(entry) /\ AsUint(entry'.n) = AsUint(entry.n + call[c].n)
<1>1. /\ pc'[c] # pc[c] /\ call[c].name = "Increment" /\ call[c] \in Operation
      /\ entry \in Entries /\ pc \in [Client -> Place]
  <2>1. call[c] \in Operation /\ entry \in Entries
    BY Here
  <2>2. pc \in [Client -> Place]
    BY DEF IInv, TypeOK
  <2> QED
    BY <2>1, <2>2 DEF Steps
<1>2. call[c].n \in Int /\ entry.n \in Int
  BY <1>1, OperationFacts, EntryFacts
<1>3. PICK d \in Client : MemoryStep(d) \/ MemcachedStep(d) \/ RedisStep(d)
  <2>1. ~Expire /\ (vars' # vars)
    BY <1>1 DEF Expire, vars
  <2>2. ASSUME NEW d \in Client, NEW o \in Operation PROVE ~Call(d, o)
    BY DEF Call
  <2> QED
    BY <2>1, <2>2 DEF Next
<1>4. d = c
  <2>1. GoesOn(d) \/ Replies(d)
    BY <1>3, OperationStep
  <2>2. \E place : pc' = [pc EXCEPT ![d] = place]
    BY <2>1 DEF GoesOn, Replies, Goes, Answer
  <2> QED
    BY <1>1, <2>2
<1>5. ~RedisStep(c)
  BY DEF RedisStep, RedisGet, RedisGetMulti, RedisGetter, RedisSet, RedisAddLooks,
     RedisAdd, RedisReplaceLooks, RedisReplace, RedisDelete, RedisIncrementReads,
     RedisIncrement, RedisDecrementLooks, RedisDecrementReads, RedisDecrement, RedisFlush,
     Redis
<1>6. ASSUME NEW r PROVE ~Answer(c, entry, r)
  BY DEF Answer
<1>7. ASSUME NEW place, NEW x PROVE ~Goes(c, entry, place, x)
  BY DEF Goes
<1>8. CASE MemoryStep(c)
  <2>1. MemoryIncrement(c)
    BY <1>1, <1>6, <1>7, <1>8 DEF MemoryStep, MemoryGet, MemoryGetMulti, MemoryGetter,
       MemorySet, MemoryAdd, MemoryReplace, MemoryDeleteLooks, MemoryDelete,
       MemoryIncrementLooks, MemoryConvert, MemoryDecrementLooks, MemoryDecrement,
       MemoryFlush, Memory, At
  <2>2. IsNumber(entry) /\ Goes(c, Plus(entry, call[c].n), "convert", Empty)
    BY <1>6, <2>1 DEF MemoryIncrement
  <2>3. entry' = Plus(entry, call[c].n)
    BY <2>2 DEF Goes
  <2>4. entry \in Stored
    BY <1>1, <2>2, EntryFacts
  <2> QED
    BY <1>2, <2>2, <2>3, <2>4, PlusFacts, StoredFacts
<1>9. CASE MemcachedStep(c)
  <2>1. MemcachedIncrement(c)
    BY <1>1, <1>6, <1>7, <1>9 DEF MemcachedStep, MemcachedGet, MemcachedGetMulti,
       MemcachedGetter, MemcachedSet, MemcachedAdd, MemcachedReplace, MemcachedDelete,
       MemcachedDecrement, MemcachedFlush, MemcachedCounts, Memcached, At
  <2> DEFINE result == AsUint(entry.n + call[c].n)
             e == [entry EXCEPT !.n = result]
  <2>2. MemcachedCounts(c, "Increment", result)
    BY <2>1 DEF MemcachedIncrement
  <2>3. /\ entry.kind = "digits" /\ entry.n \in Unsigned
        /\ (\E r : Answer(c, e, r))
    <3> HIDE DEF e
    <3> QED
      BY <1>6, <2>2 DEF MemcachedCounts, Commands, Queries, Fails, e
  <2>4. entry \in Stored
    BY <1>1, <2>3, AbsentFacts DEF Entries
  <2>5. e.n = result /\ Present(entry)
    BY <2>4, StoredFacts DEF Stored
  <2>6. entry' = e
    BY <2>3 DEF Answer
  <2>7. AsUint(result) = result
    BY <1>2, UintFacts
  <2> QED
    BY <2>5, <2>6, <2>7
<1> QED
  BY <1>3, <1>4, <1>5, <1>8, <1>9

(* Neither in memory nor in memcached does a step of an Increment change the  *)
(* entry but by adding to it, whatever other clients do in between.           *)
THEOREM IncrementsAdd == Spec => IncrementAdds
<1>1. Strong /\ [Next]_vars =>
        [backend # "redis" =>
           \A c \in Client : Active(c) /\ Steps(c, "Increment") /\ entry' # entry =>
             Present(entry) /\ AsUint(entry'.n) = AsUint(entry.n + call[c].n)]_vars
  BY IncrementStep DEF Strong
<1> QED
  BY <1>1, StrongInvariant, PTL DEF Spec, IncrementAdds
=============================================================================
