---------------------------- MODULE FilterConfig ----------------------------
(* The filter chains that FilterController and FilterAction configure, as the *)
(* Go slices they are: a chain is a length and an array, append writes into   *)
(* the array when there is room, and two chains may have the same array.      *)
(*                                                                           *)
(* Configuration runs in init functions, before any request: calls come one   *)
(* after the other.  A Filter is compared by its code (FilterEq), here by     *)
(* name.                                                                      *)
(*                                                                           *)
(* What every module has (Init, Next, ...) begins with FC here, so that the   *)
(* theorems about this module can stand beside those about FilterChain.       *)
EXTENDS Naturals, Sequences, FiniteSets, SequencesExt

CONSTANTS Controller,      \* controllers
          Action,          \* actions
          Of,              \* Of[a]: the controller of action a
          Default,         \* revel.Filters after FilterConfiguringFilter
          NewFilter,       \* filters to add and insert
          Calls            \* bound on the calls

AnyFilter == NewFilter \cup ToSet(Default)
Key    == Controller \cup Action

ASSUME KeyAssumption     == IsFiniteSet(Key)
ASSUME OwnerAssumption   == Of \in [Action -> Controller] /\ Controller \cap Action = {}
ASSUME DefaultAssumption == Default \in Seq(AnyFilter) /\ Len(Default) > 0
ASSUME CallsAssumption   == Calls \in Nat

VARIABLES
  memory,     \* memory[i]: array i, up to its capacity
  overrides,  \* filterOverrides, on the keys that are configured
  calls,      \* how many calls there were
  panicked,
  wanted,     \* what the configured chains would be as values
  inherited   \* controllers of which an action was first configured after them

fcVars == <<memory, overrides, calls, panicked, wanted, inherited>>

(* Array 0 is that of revel.Filters, from where the copy starts.              *)
Filters    == 0
Unused     == "none"
Array      == 0 .. Cardinality(Key) + 2
ControllerOf(k) == IF k \in Action THEN Of[k] ELSE k

FCInit ==
  /\ memory = [i \in Array |-> IF i = Filters THEN Default ELSE << >>]
  /\ overrides = << >> /\ wanted = << >>
  /\ calls = 0 /\ panicked = FALSE /\ inherited = {}

-----------------------------------------------------------------------------
(* Slices.                                                                    *)

Slice(i, n)    == [array |-> i, len |-> n]
Content(m, s)  == SubSeq(m[s.array], 1, s.len)
Free(m)        == CHOOSE i \in Array : i # Filters /\ m[i] = << >>
Allocate(m, array) == [memory |-> [m EXCEPT ![Free(m)] = array],
                       slice  |-> Slice(Free(m), Len(array))]

(* Room of the array append allocates: at least twice the old one, up to the  *)
(* next size the allocator has.                                               *)
SizeClass(n) == IF n <= 4 \/ n % 2 = 0 THEN n ELSE n + 1
Grown(n, capacity) == SizeClass(IF n > 2 * capacity THEN n ELSE 2 * capacity)

(* append(s[:k], fs...)                                                       *)
Append_(m, s, k, fs) ==
  LET n   == k + Len(fs)
      old == m[s.array]
      all == SubSeq(old, 1, k) \o fs
  IN IF n <= Len(old)
     THEN [memory |-> [m EXCEPT ![s.array] = all \o SubSeq(old, n + 1, Len(old))],
           slice  |-> Slice(s.array, n)]
     ELSE LET a == Allocate(m, all \o [i \in 1 .. (Grown(n, Len(old)) - n) |-> Unused])
          IN [a EXCEPT !.slice.len = n]

-----------------------------------------------------------------------------
(* The changes a call makes to a chain: [kind, filter] for Add and Remove and *)
(* [kind, filter, target] for Insert BEFORE and AFTER.  Each is a position to *)
(* keep up to and what to append there.                                       *)

Change == [kind : {"Add"}, filter : NewFilter]
            \cup [kind : {"Remove"}, target : AnyFilter]
            \cup [kind : {"Before", "After"}, filter : NewFilter, target : AnyFilter]

Has(fc, f)   == \E i \in DOMAIN fc : fc[i] = f
First(fc, f) == CHOOSE i \in DOMAIN fc : fc[i] = f /\ \A j \in 1 .. (i - 1) : fc[j] # f
From(fc, i)  == SubSeq(fc, i, Len(fc))

Kept(c, fc) ==
  CASE c.kind = "Add" -> Len(fc) - 1
    [] c.kind = "After" -> First(fc, c.target)
    [] OTHER -> First(fc, c.target) - 1

Appended(c, fc) ==
  CASE c.kind = "Add" -> <<c.filter>> \o From(fc, Len(fc))
    [] c.kind = "Remove" -> From(fc, First(fc, c.target) + 1)
    [] c.kind = "Before" -> <<c.filter>> \o From(fc, First(fc, c.target))
    [] c.kind = "After" -> <<c.filter>> \o From(fc, First(fc, c.target) + 1)

Concerns(c, fc) == c.kind = "Add" \/ Has(fc, c.target)

Changed(c, m, s) ==
  LET fc == Content(m, s)
  IN IF Concerns(c, fc) THEN Append_(m, s, Kept(c, fc), Appended(c, fc))
     ELSE [memory |-> m, slice |-> s]

-----------------------------------------------------------------------------
(* getOverrideChain and getChain: the chain of the key, else the one of its   *)
(* controller (that slice itself), else a copy of the default.                *)

Configured(o, k)  == {j \in {k, ControllerOf(k)} : j \in DOMAIN o}
Nearest(o, k)     == IF k \in DOMAIN o THEN o[k] ELSE o[ControllerOf(k)]

\* Slip: the default chain itself.
GetChainUncopied(m, o, k) ==
  [memory |-> m, slice |-> IF Configured(o, k) # {} THEN Nearest(o, k)
                           ELSE Slice(Filters, Len(Default))]
GetChain(m, o, k) ==
  IF Configured(o, k) # {} THEN [memory |-> m, slice |-> Nearest(o, k)]
                           ELSE Allocate(m, Default)

(* Arrays nobody refers to are collected.                                     *)
Collected(m, o) ==
  [i \in Array |-> IF i = Filters \/ \E k \in DOMAIN o : o[k].array = i THEN m[i] ELSE << >>]

(* One round of apply: the chain of a key is replaced by f of it.             *)
Applied(c, st, k) ==
  LET chain == GetChain(st.memory, st.overrides, k)
      new   == Changed(c, chain.memory, chain.slice)
      o     == [j \in DOMAIN st.overrides \cup {k} |-> IF j = k THEN new.slice ELSE st.overrides[j]]
  IN [memory |-> Collected(new.memory, o), overrides |-> o]

(* For a controller, its configured actions come first, in the order in which *)
(* the map happens to give them.                                              *)
\* Slip: a controller's call does not reach the actions.
RoundsOwn(k) == {<<k>>}
Rounds(k) ==
  IF k \in Action THEN {<<k>>}
  ELSE {order \o <<k>> : order \in SetToSeqs({a \in Action : Of[a] = k /\ a \in DOMAIN overrides})}

(* The states after 0, 1, ... rounds.                                         *)
Course(c, order) ==
  LET st[n \in 0 .. Len(order)] ==
        IF n = 0 THEN [memory |-> memory, overrides |-> overrides]
        ELSE Applied(c, st[n - 1], order[n])
  IN st

(* Whose chains a call for k replaces.                                        *)
Reached(k) == {k} \cup {a \in DOMAIN overrides : ControllerOf(a) = k}

Panics(c, k) ==
  c.kind = "Add" /\ \E j \in Reached(k) : GetChain(memory, overrides, j).slice.len = 0

(* The same on values.                                                        *)
Value(c, fc)  == IF fc # << >> /\ Concerns(c, fc) THEN SubSeq(fc, 1, Kept(c, fc)) \o Appended(c, fc) ELSE fc
Wanted(k)     == IF Configured(wanted, k) # {} THEN Nearest(wanted, k) ELSE Default

(* A call of Add, Remove or Insert on FilterController or FilterAction.       *)
Configure(k, c) ==
  /\ calls < Calls /\ ~panicked /\ ~Panics(c, k)
  /\ \E order \in Rounds(k) :
       LET end == Course(c, order)[Len(order)]
       IN overrides' = end.overrides /\ memory' = end.memory
  /\ calls' = calls + 1
  /\ wanted' = [j \in DOMAIN wanted \cup Reached(k) |->
                   IF j \in Reached(k) THEN Value(c, Wanted(j)) ELSE wanted[j]]
  /\ inherited' = IF k \notin DOMAIN overrides /\ Configured(overrides, k) # {}
                  THEN inherited \cup {ControllerOf(k)} ELSE inherited
  /\ UNCHANGED panicked

(* Add to a chain with nothing left in it slices below 0: start-up ends here. *)
ConfigureNothing(k, c) ==
  /\ calls < Calls /\ ~panicked /\ Panics(c, k)
  /\ panicked' = TRUE
  /\ UNCHANGED <<memory, overrides, calls, wanted, inherited>>

FCNext == \E k \in Key, c \in Change : Configure(k, c) \/ ConfigureNothing(k, c)

FCSpec == FCInit /\ [][FCNext]_fcVars

-----------------------------------------------------------------------------
(* Properties.                                                                *)

\* Every chain lies within its array.
FCTypeOK ==
  /\ \A i \in Array : ToSet(memory[i]) \subseteq AnyFilter \cup {Unused}
  /\ DOMAIN overrides \subseteq Key /\ DOMAIN wanted = DOMAIN overrides
  /\ \A k \in DOMAIN overrides :
       /\ overrides[k].array \in Array
       /\ overrides[k].len <= Len(memory[overrides[k].array])
       /\ ToSet(Content(memory, overrides[k])) \subseteq AnyFilter
  /\ calls \in 0 .. Calls /\ panicked \in BOOLEAN /\ inherited \subseteq Controller

\* A call changes the default chain for nobody, and what it appends in place
\* never shows in a chain of another controller: chains of two controllers, and
\* the default, are in arrays of their own.
ControllersApart ==
  /\ memory[Filters] = Default
  /\ \A k, j \in DOMAIN overrides : ControllerOf(k) # ControllerOf(j) =>
       overrides[k].array # overrides[j].array

Holds(k) == Content(memory, overrides[k]) = wanted[k]

\* As long as no action of a controller was first configured when the controller
\* itself already was, all chains of the controller and its actions are what the
\* calls asked for, in whatever order the calls came and the map was walked.
ConfiguredUnlessInherited ==
  \A k \in DOMAIN overrides : ControllerOf(k) \notin inherited => Holds(k)

\* All chains always are what the calls asked for, in particular when a
\* controller's and then an action's are configured, as the comment on
\* FilterConfigurator shows.  The action starts from the controller's slice, and
\* append writes to both.
ChainsAsConfigured == \A k \in DOMAIN overrides : Holds(k)

=============================================================================
