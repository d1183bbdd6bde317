------------------------------ MODULE Filaments ------------------------------
(***************************************************************************)
(* internal/filament/filament.go: the filament profiles of a resources     *)
(* directory, their inheritance, and the search the `ams filament` command *)
(* does in them.                                                           *)
(*                                                                         *)
(* LoadAll resolves the profiles in the random order of a Go map, each one *)
(* in place and with the values its ancestors happen to have by then.  It  *)
(* runs alone, so its outcomes are a set here, one for each order.         *)
(***************************************************************************)
EXTENDS Integers, Sequences, FiniteSets

CONSTANTS
  Profiles,    \* the profile files, by name: see FileType
  NameMatches, \* the names that contain a search term, by term
  Colors,      \* the entries of filaments_color_codes.json: <<id, color>>
  MaxDepth     \* ancestors resolve goes up (10 in the code)

Names == DOMAIN Profiles
None == ""   \* an id or a name that is not set

\* A profile file.  A temperature field is the first integer it holds, 0 when the
\* field is absent or holds none (parseFirstInt).  high: nozzle_temperature_range_high
\* and nozzle_temperature_maximum.  plates: the hot, textured, cool and eng plate.
FileType == [id : STRING, setting : STRING, inherits : STRING, low : Nat,
             high : Seq(Nat), target : Nat, plates : Seq(Nat)]

ASSUME DepthAssumption == MaxDepth \in Nat
\* The files of a directory, but for those without a name, which LoadAll skips.
ASSUME NamesAssumption == IsFiniteSet(Names) /\ None \notin Names
ASSUME ProfileAssumption == \A n \in Names : Profiles[n] \in FileType
ASSUME TermAssumption == \A t \in DOMAIN NameMatches : NameMatches[t] \subseteq Names

Filament == [id : STRING, bed : Nat, rangeMin : Nat, rangeMax : Nat, targetMin : Nat,
             tempMin : Nat, tempMax : Nat]

-----------------------------------------------------------------------------
\* The first value of s that is set, 0 if none is.
FirstSet(s) ==
  IF \E i \in DOMAIN s : s[i] # 0
  THEN s[CHOOSE i \in DOMAIN s : s[i] # 0 /\ \A j \in 1..(i - 1) : s[j] = 0]
  ELSE 0

OrElse(v, w) == IF v # 0 THEN v ELSE w
OrElseId(v, w) == IF v # None THEN v ELSE w

\* What json.Unmarshal leaves in a fresh Filament.
Loaded(n) == [id |-> Profiles[n].id, bed |-> 0, rangeMin |-> 0, rangeMax |-> 0,
              targetMin |-> 0, tempMin |-> 0, tempMax |-> 0]

\* parseValues: the profile's own values, where nothing is known yet.
ParseValues(f, n) ==
  [f EXCEPT !.rangeMin = OrElse(@, Profiles[n].low),
            !.rangeMax = OrElse(@, FirstSet(Profiles[n].high)),
            !.targetMin = OrElse(@, Profiles[n].target),
            !.bed = OrElse(@, FirstSet(Profiles[n].plates))]

\* Everything resolve looks for is known: it goes no further up.
Complete(f) == f.id # None /\ f.bed > 0 /\ f.rangeMin > 0 /\ f.rangeMax > 0

\* What a profile takes from its parent, as the parent is by then.
Inherited(f, parent) ==
  [f EXCEPT !.id = OrElseId(@, parent.id),
            !.bed = OrElse(@, parent.bed),
            !.rangeMin = OrElse(@, parent.rangeMin),
            !.rangeMax = OrElse(@, parent.rangeMax),
            !.targetMin = OrElse(@, parent.targetMin)]

\* The profile that one inherits from, None if there is none.
Parent(n) ==
  IF n = None \/ Profiles[n].inherits \notin Names THEN None ELSE Profiles[n].inherits

\* The profiles one call of resolve visits, by depth; None past the last one.
Visited(all, n) ==
  LET at[d \in 0..(MaxDepth + 1)] ==
        IF d = 0 THEN n
        ELSE LET child == at[d - 1]
             IN IF child = None \/ Complete(ParseValues(all[child], child)) THEN None ELSE Parent(child)
  IN at

\* Mutant: a profile takes from its parent what that has by now, without resolving it.
Resolve_ParentAsItIs(all, n) ==
  LET own == ParseValues(all[n], n)
      parent == Profiles[n].inherits
  IN [all EXCEPT ![n] = IF Complete(own) \/ parent \notin Names THEN own
                        ELSE Inherited(own, all[parent])]

\* resolve(n, all, 0).  Going up, each profile parses its own values; coming back, each
\* takes what it lacks from its parent, which at the limit is left as it was found.
Resolve(all, n) ==
  LET at == Visited(all, n)
      parsed == [m \in Names |-> IF \E d \in 0..MaxDepth : at[d] = m
                                 THEN ParseValues(all[m], m) ELSE all[m]]
      back[d \in 0..(MaxDepth + 1)] ==
        IF d = MaxDepth + 1 \/ at[d] = None THEN parsed
        ELSE IF at[d + 1] = None THEN back[d + 1]
        ELSE [back[d + 1] EXCEPT ![at[d]] = Inherited(@, back[d + 1][at[d + 1]])]
  IN back[0]

\* LoadAll prefers the range to the target temperature.
Finalized(f) ==
  [f EXCEPT !.tempMin = IF @ # 0 THEN @ ELSE OrElse(f.rangeMin, f.targetMin),
            !.tempMax = OrElse(@, f.rangeMax)]

-----------------------------------------------------------------------------
\* One turn of LoadAll's loop.
Visit(all, n) == LET resolved == Resolve(all, n) IN [resolved EXCEPT ![n] = Finalized(@)]

\* Every outcome of LoadAll: what may be there once the names in done were visited.
Outcomes ==
  LET after[done \in SUBSET Names] ==
        IF done = {} THEN {[n \in Names |-> Loaded(n)]}
        ELSE UNION {{Visit(all, n) : all \in after[done \ {n}]} : n \in done}
  IN after[Names]

\* Find without a printer model, the only way it is called.
Find(fils, term) ==
  {n \in Names : n \in NameMatches[term] \/ term \in {fils[n].id, Profiles[n].setting}}

\* LoadColors: the first color listed for the id, None if none is.
ColorOf(id) ==
  LET listed == {i \in DOMAIN Colors : Colors[i][1] = id}
  IN IF listed = {} THEN None
     ELSE Colors[CHOOSE i \in listed : \A j \in listed : i <= j][2]

-----------------------------------------------------------------------------
\* The ancestors of a profile as its files say, by distance; None past the last one.
Ancestor(n) ==
  LET at[d \in 0..(MaxDepth + 1)] == IF d = 0 THEN n ELSE Parent(at[d - 1])
  IN at

\* The value of the nearest ancestor that has one of its own.
Nearest(n, Own(_)) ==
  LET at == Ancestor(n)
  IN FirstSet([i \in 1..(MaxDepth + 2) |-> IF at[i - 1] = None THEN 0 ELSE Own(at[i - 1])])

OwnLow(m) == Profiles[m].low
OwnHigh(m) == FirstSet(Profiles[m].high)
OwnTarget(m) == Profiles[m].target
OwnBed(m) == FirstSet(Profiles[m].plates)

\* The temperatures of a loaded profile are those of the nearest ancestor that sets them,
\* the range before the target, if resolve can reach the end of its chain.
IsNearest(fils, n) ==
  Ancestor(n)[MaxDepth + 1] = None =>
    /\ fils[n].tempMin = OrElse(Nearest(n, OwnLow), Nearest(n, OwnTarget))
    /\ fils[n].tempMax = Nearest(n, OwnHigh)
    /\ fils[n].bed = Nearest(n, OwnBed)
=============================================================================
