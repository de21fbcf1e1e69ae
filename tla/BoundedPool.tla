---------------------------- MODULE BoundedPool ----------------------------
(* What a pool of reusable objects promises to the goroutines that share it. *)
(* An object is handed to one client at a time, the most recently returned   *)
(* one first; a pool that is empty makes a new object instead of blocking,   *)
(* and one that is full forgets what is returned to it.  Nothing is said of  *)
(* how the objects are stored: utils.SimpleLockStack is refined to this.     *)
EXTENDS Naturals, Sequences

CONSTANTS Client,    \* the goroutines that take and return objects
          Object,    \* the objects the creator can make
          NoObject   \* "nothing in hand", which is no object

VARIABLES room,      \* how many objects the pool keeps at most
          free,      \* the objects it keeps, the next one to hand out last
          held       \* held[c]: the object client c has in hand

vars == <<room, free, held>>

Stored == {free[i] : i \in DOMAIN free}
InHand == {held[c] : c \in Client} \ {NoObject}

(* The stored objects after one is taken, and after o is returned. *)
Taken(f)       == SubSeq(f, 1, Len(f) - 1)
Returned(f, o) == IF Len(f) < room THEN Append(f, o) ELSE f

Init == /\ room \in Nat \ {0}
        /\ free \in Seq(Object)
        /\ \A i, j \in DOMAIN free : free[i] = free[j] => i = j
        /\ held = [c \in Client |-> NoObject]

TakeStored(c) == /\ held[c] = NoObject
                 /\ free # << >>
                 /\ held' = [held EXCEPT ![c] = free[Len(free)]]
                 /\ free' = Taken(free)

TakeNew(c) == /\ held[c] = NoObject
              /\ free = << >>
              /\ \E o \in Object \ InHand : held' = [held EXCEPT ![c] = o]
              /\ UNCHANGED free

Return(c) == /\ held[c] # NoObject
             /\ held' = [held EXCEPT ![c] = NoObject]
             /\ free' = Returned(free, held[c])

Next == /\ \E c \in Client : TakeStored(c) \/ TakeNew(c) \/ Return(c)
        /\ UNCHANGED room

Spec == Init /\ [][Next]_vars
=============================================================================
