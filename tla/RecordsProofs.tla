---------------------------- MODULE RecordsProofs ---------------------------
(***************************************************************************)
(* What is kept for a room and for a device, for any number of states,     *)
(* devices and claims: every version of a room's state loads, and a one-   *)
(* time key is handed to one claim.                                        *)
(***************************************************************************)
EXTENDS StateDiffs, DeviceKeys, TLAPS

\* How long the two provers may take over a leaf.
USE SMTT(30), ZenonT(30)

-----------------------------------------------------------------------------
(* What holds of a row: its parent is stored, its diff is exact, and it    *)
(* loads as the state its number was drawn for.                            *)
RowInv(h) ==
  /\ versions[h].parent \in {0} \cup Stored
  /\ versions[h].removed \subseteq Full(versions[h].parent)
  /\ versions[h].added \cap Full(versions[h].parent) = {}
  /\ versions[h].full = (Full(versions[h].parent) \cup versions[h].added) \ versions[h].removed
  /\ versions[h].full = meant[h]
  /\ versions[h].frames \in 1 .. 4

Sizes == Nat \cup {Size(S, T) : S \in SUBSET Entry, T \in SUBSET Entry}

SavingType ==
  [op : {"idle", "room", "event"}, h : Nat, new : SUBSET Entry,
   removed : SUBSET Entry, sibling : Sizes, up : Nat]

(* What holds while a version is being saved: against the version it now   *)
(* stands on its diff is exact and gives the state it is for.              *)
SavingInv ==
  /\ saving \in SavingType
  /\ saving.up \in {0} \cup Stored
  /\ saving # Idle => saving.h \in 1 .. counter
  /\ saving # Idle /\ saving.h \notin Stored =>
       /\ saving.removed \subseteq Full(saving.up)
       /\ saving.new \cap Full(saving.up) = {}
       /\ (Full(saving.up) \cup saving.new) \ saving.removed = meant[saving.h]

(* The rows and the version being saved. *)
Core ==
  /\ counter \in Nat /\ crashes \in Nat
  /\ Stored \subseteq 1 .. counter
  /\ meant \in [1 .. counter -> SUBSET Entry]
  /\ \A h \in Stored :
       versions[h].added \subseteq Entry /\ versions[h].removed \subseteq Entry
  /\ \A h \in Stored : RowInv(h)
  /\ SavingInv

(* Until a crash, every number a pointer or a hash has is stored, or is    *)
(* the one being saved.                                                    *)
Pointers ==
  /\ room \in 0 .. counter
  /\ eventstates \subseteq 1 .. counter
  /\ \A S \in DOMAIN short : short[S] \in 1 .. counter
  /\ crashes = 0 =>
       /\ room \in {0} \cup Stored
       /\ eventstates \subseteq Stored
       /\ \A S \in DOMAIN short :
            short[S] \in Stored \/ (saving # Idle /\ short[S] = saving.h)

IInv == Core /\ Pointers

-----------------------------------------------------------------------------
(* A fresh difference is exact.  (save_state: the two set differences)     *)
LEMMA DifferenceExact ==
  ASSUME NEW F, NEW S
  PROVE  /\ F \ S \subseteq F
         /\ (S \ F) \cap F = {}
         /\ (F \cup (S \ F)) \ (F \ S) = S
BY Zenon

\* Storing a row leaves the other rows as they were.
LEMMA WithKeeps ==
  ASSUME NEW f, NEW x, NEW v
  PROVE  \A y \in DOMAIN With(f, x, v) :
           With(f, x, v)[y] = v \/ (y \in DOMAIN f /\ With(f, x, v)[y] = f[y])
BY Zenon DEF With

\* What loads is a set of entries.
LEMMA FullIsEntries ==
  ASSUME Core, NEW h \in {0} \cup Stored
  PROVE  Full(h) \subseteq Entry
<1>1. CASE h = 0
  BY <1>1, Zenon DEF Full
<1>2. CASE h # 0
  <2>1. h \in Stored /\ h \in 1 .. counter /\ Full(h) = meant[h]
    BY <1>2, Zenon DEF Core, RowInv, Full
  <2> QED BY <2>1, Zenon DEF Core
<1> QED BY <1>1, <1>2, Zenon

\* An empty table satisfies the invariant.
LEMMA InitInv == Init => IInv
<1> SUFFICES ASSUME Init PROVE IInv
  BY Zenon
<1>1. Stored = {} /\ DOMAIN short = {} /\ DOMAIN meant = {} /\ 1 .. 0 = {}
  BY DEF Init, Stored
<1>2. meant \in [1 .. 0 -> SUBSET Entry]
  BY <1>1 DEF Init
<1>3. SavingInv
  BY <1>1 DEF Init, SavingInv, SavingType, Sizes, Idle
<1> QED BY <1>1, <1>2, <1>3 DEF Init, IInv, Core, Pointers

(* Drawing a number leaves the rows alone and starts from a difference.    *)
LEMMA StartCore ==
  ASSUME Core, saving = Idle, NEW op \in {"room", "event"}, NEW sibling \in Nat,
         NEW S \in SUBSET Entry, Start(op, sibling, S), UNCHANGED <<versions, crashes>>
  PROVE  Core' /\ saving' # Idle /\ saving'.h = counter + 1 /\ counter' = counter + 1
<1> DEFINE n == counter + 1
<1>1. /\ counter \in Nat /\ crashes \in Nat /\ Stored \subseteq 1 .. counter
      /\ meant \in [1 .. counter -> SUBSET Entry]
      /\ \A h \in Stored : RowInv(h)
      /\ \A h \in Stored : versions[h].added \subseteq Entry /\ versions[h].removed \subseteq Entry
  BY Zenon DEF Core
<1>2. counter' = n /\ n \in Nat /\ 1 .. counter \subseteq 1 .. n /\ 1 .. n = 1 .. counter \cup {n} /\ n \notin 1 .. counter
  BY <1>1 DEF Start
<1>3. versions' = versions /\ crashes' = crashes /\ Stored' = Stored
  BY Zenon DEF Stored
<1>4. /\ meant' \in [1 .. n -> SUBSET Entry]
      /\ meant'[n] = S
      /\ \A h \in 1 .. counter : meant'[h] = meant[h]
  <2>1. meant' = With(meant, n, S)
    BY Zenon DEF Start
  <2>2. meant' = [y \in 1 .. n |-> IF y = n THEN S ELSE meant[y]]
    BY <1>1, <1>2, <2>1, Zenon DEF With
  <2> QED BY <1>1, <1>2, <2>2, Zenon
<1>5. \A h : Full(h)' = Full(h)
  BY <1>3, Zenon DEF Full
<1>6. \A h \in Stored : RowInv(h)'
  BY <1>1, <1>3, <1>4, <1>5, Zenon DEF RowInv
<1>7. Loaded \in {0} \cup Stored /\ Loaded \in Nat
  <2>1. CASE room \in Stored
    <3>1. Loaded = room
      BY <2>1, Zenon DEF Loaded
    <3>2. room \in 1 .. counter
      BY <1>1, <2>1, Zenon
    <3> QED BY <1>1, <2>1, <3>1, <3>2
  <2>2. CASE room \notin Stored
    <3>1. Loaded = 0
      BY <2>2, Zenon DEF Loaded
    <3> QED BY <3>1, Zenon
  <2> QED BY <2>1, <2>2, Zenon
<1>8. Full(Loaded) \subseteq Entry
  BY <1>7, FullIsEntries, Zenon
<1>9. saving' = [op |-> op, h |-> n, new |-> S \ Full(Loaded),
                 removed |-> Full(Loaded) \ S, sibling |-> sibling, up |-> Loaded]
  BY Zenon DEF Start
<1>10. saving' \in SavingType
  BY <1>2, <1>7, <1>8, <1>9 DEF SavingType, Sizes
<1>11. saving' # Idle /\ saving'.h = n
  BY <1>9, Zenon DEF Idle
<1>12. /\ saving'.removed \subseteq Full(Loaded)
       /\ saving'.new \cap Full(Loaded) = {}
       /\ (Full(Loaded) \cup saving'.new) \ saving'.removed = S
       /\ saving'.up = Loaded
  BY <1>9, DifferenceExact, Zenon
<1>13. SavingInv'
  BY <1>2, <1>3, <1>4, <1>5, <1>7, <1>10, <1>11, <1>12, Zenon DEF SavingInv
<1> QED BY <1>1, <1>2, <1>3, <1>4, <1>6, <1>11, <1>13, Zenon DEF Core

(* A step that touches neither the rows nor the numbers.                   *)
LEMMA CoreFrame ==
  ASSUME Core, UNCHANGED <<versions, counter, meant>>, crashes' \in Nat, SavingInv'
  PROVE  Core'
<1>1. Stored' = Stored /\ \A h : Full(h)' = Full(h)
  BY Zenon DEF Stored, Full
<1>2. \A h \in Stored : RowInv(h)'
  BY <1>1, Zenon DEF Core, RowInv
<1> QED BY <1>1, <1>2, Zenon DEF Core

(* One call of the recursion merges into the parent.                       *)
LEMMA MergeCore == Core /\ Merge => Core'
<1> SUFFICES ASSUME Core, Merge PROVE Core'
  BY Zenon
<1> DEFINE p == versions[saving.up]
           A == MergedAdded(p.added, p.removed, saving.new, saving.removed)
           D == MergedRemoved(p.added, p.removed, saving.new, saving.removed)
           G == Full(p.parent)
<1>1. UNCHANGED <<versions, counter, meant, crashes>> /\ Stored' = Stored /\ \A h : Full(h)' = Full(h)
  BY Zenon DEF Merge, Stored, Full
<1>2. /\ saving \in SavingType /\ saving # Idle /\ saving.up \in Stored /\ saving.h \notin Stored
      /\ saving.h \in 1 .. counter
      /\ saving.removed \subseteq Full(saving.up)
      /\ saving.new \cap Full(saving.up) = {}
      /\ (Full(saving.up) \cup saving.new) \ saving.removed = meant[saving.h]
  BY Zenon DEF Core, SavingInv, Merge, Unsaved, MergesUp
<1>3. /\ p.parent \in {0} \cup Stored /\ p.removed \subseteq G /\ p.added \cap G = {}
      /\ p.full = (G \cup p.added) \ p.removed
      /\ p.added \subseteq Entry /\ p.removed \subseteq Entry
  BY <1>2, Zenon DEF Core, RowInv
<1>4. Full(saving.up) = (G \cup p.added) \ p.removed
  <2>1. saving.up # 0
    BY Zenon DEF Merge, MergesUp
  <2> QED BY <1>3, <2>1, Zenon DEF Full
<1>5. D \subseteq G /\ A \cap G = {} /\ (G \cup A) \ D = meant[saving.h]
  <2>0. p.removed \subseteq G /\ p.added \cap G = {}
    BY <1>3, Zenon
  <2> HIDE DEF p, G
  <2>1. /\ saving.removed \subseteq (G \cup p.added) \ p.removed
        /\ saving.new \cap ((G \cup p.added) \ p.removed) = {}
        /\ (((G \cup p.added) \ p.removed) \cup saving.new) \ saving.removed = meant[saving.h]
    BY <1>2, <1>4, Zenon
  <2> DEFINE pa == p.added
             pr == p.removed
             sn == saving.new
             sr == saving.removed
  <2>2. /\ pr \subseteq G /\ pa \cap G = {}
        /\ sr \subseteq (G \cup pa) \ pr /\ sn \cap ((G \cup pa) \ pr) = {}
    BY <2>0, <2>1, Zenon
  <2>3. A = MergedAdded(pa, pr, sn, sr) /\ D = MergedRemoved(pa, pr, sn, sr)
    BY Zenon
  <2>4. (((G \cup pa) \ pr) \cup sn) \ sr = meant[saving.h]
    BY <2>1, Zenon
  <2> HIDE DEF pa, pr, sn, sr, A, D
  (* Merging an exact diff into its parent's exact diff gives an exact     *)
  (* diff against the grandparent, which loads the same.                   *)
  <2>5. /\ MergedRemoved(pa, pr, sn, sr) \subseteq G
        /\ MergedAdded(pa, pr, sn, sr) \cap G = {}
        /\ (G \cup MergedAdded(pa, pr, sn, sr)) \ MergedRemoved(pa, pr, sn, sr)
           = (((G \cup pa) \ pr) \cup sn) \ sr
    BY <2>2, Zenon DEF MergedAdded, MergedRemoved
  <2> QED BY <2>3, <2>4, <2>5, Zenon
<1>6. A \subseteq Entry /\ D \subseteq Entry
  <2>1. saving.new \subseteq Entry /\ saving.removed \subseteq Entry
    BY <1>2, Zenon DEF SavingType
  <2> HIDE DEF p
  <2> QED BY <1>3, <2>1, Zenon DEF MergedAdded, MergedRemoved
<1>7. Size(saving.new, saving.removed) \in Sizes
  <2>1. saving.new \in SUBSET Entry /\ saving.removed \in SUBSET Entry
    BY <1>2, Zenon DEF SavingType
  <2> HIDE DEF p
  <2> QED BY <2>1 DEF Sizes
<1>8. saving' = [saving EXCEPT !.new = A, !.removed = D,
                   !.sibling = Size(saving.new, saving.removed), !.up = p.parent]
  BY Zenon DEF Merge
<1>9. /\ saving' \in SavingType /\ saving'.h = saving.h /\ saving'.up = p.parent
      /\ saving'.new = A /\ saving'.removed = D
  <2>1. p.parent \in Nat
    <3>1. Stored \subseteq Nat
      BY DEF Core
    <3>2. p.parent = 0 \/ p.parent \in Stored
      BY <1>3, Zenon
    <3>3. CASE p.parent = 0
      <4> HIDE DEF p
      <4> QED BY <3>3
    <3>4. CASE p.parent \in Stored
      <4> HIDE DEF p
      <4> QED BY <3>1, <3>4, Zenon
    <3> QED BY <3>2, <3>3, <3>4, Zenon
  <2> HIDE DEF A, D, p
  <2> QED BY <1>2, <1>6, <1>7, <1>8, <2>1, Zenon DEF SavingType
<1>10. SavingInv'
  <2> HIDE DEF A, D
  <2> QED BY <1>1, <1>2, <1>3, <1>5, <1>9, Zenon DEF SavingInv
<1> QED BY <1>1, <1>10, CoreFrame, Zenon DEF Core

(* The row is saved against the version the diff now stands on.            *)
LEMMA SaveCore == Core /\ SaveStateDiff => Core'
<1> SUFFICES ASSUME Core, SaveStateDiff PROVE Core'
  BY Zenon
<1> DEFINE h == saving.h
<1>1. /\ saving \in SavingType /\ saving # Idle /\ saving.up \in {0} \cup Stored /\ h \notin Stored
      /\ h \in 1 .. counter
      /\ saving.removed \subseteq Full(saving.up)
      /\ saving.new \cap Full(saving.up) = {}
      /\ (Full(saving.up) \cup saving.new) \ saving.removed = meant[h]
  BY Zenon DEF Core, SavingInv, SaveStateDiff, Unsaved
<1>2. UNCHANGED <<counter, saving, meant, crashes>> /\ versions' = With(versions, h, Row)
  BY Zenon DEF SaveStateDiff
<1>3. /\ Stored' = Stored \cup {h}
      /\ versions'[h] = Row
      /\ \A g \in Stored : versions'[g] = versions[g]
  <2> HIDE DEF h
  <2>1. DOMAIN With(versions, h, Row) = DOMAIN versions \cup {h} /\ With(versions, h, Row)[h] = Row
    BY Zenon DEF With
  <2>2. \A g \in DOMAIN versions : g # h => With(versions, h, Row)[g] = versions[g]
    BY Zenon DEF With
  <2> QED BY <1>1, <1>2, <2>1, <2>2, Zenon DEF Stored
<1>4. 0 \notin Stored /\ h # 0 /\ counter \in Nat
  BY <1>1 DEF Core
<1>5. \A g \in {0} \cup Stored : Full(g)' = Full(g)
  BY <1>3, <1>4, Zenon DEF Full
<1>6. /\ Row.parent = saving.up /\ Row.added = saving.new /\ Row.removed = saving.removed
      /\ Row.full = IF saving.up = 0 THEN saving.new
                    ELSE (Full(saving.up) \cup saving.new) \ saving.removed
      /\ Row.frames = Frames(saving.up) + 1
  BY Zenon DEF Row
<1>7. Row.full = (Full(saving.up) \cup saving.new) \ saving.removed
  <2>1. CASE saving.up = 0
    <3>1. Full(saving.up) = {}
      BY <2>1, Zenon DEF Full
    <3> QED BY <1>1, <1>6, <2>1, <3>1, Zenon
  <2>2. CASE saving.up # 0
    BY <1>6, <2>2, Zenon
  <2> QED BY <2>1, <2>2, Zenon
<1>8. Row.frames \in 1 .. 4
  <2>1. CASE saving.up = 0
    BY <1>6, <2>1 DEF Frames
  <2>2. CASE saving.up # 0
    <3>1. Frames(saving.up) \in 1 .. 4
      BY <1>1, <2>2, Zenon DEF Core, RowInv, Frames
    <3>2. ~ (Frames(saving.up) > 3)
      BY <2>2, Zenon DEF SaveStateDiff, MergesUp, TooDeep
    <3> QED BY <1>6, <3>1, <3>2
  <2> QED BY <2>1, <2>2, Zenon
<1>9. RowInv(h)'
  <2>1. meant'[h] = meant[h] /\ Full(saving.up)' = Full(saving.up)
    BY <1>1, <1>2, <1>5, Zenon
  <2>2. /\ versions'[h].parent = saving.up /\ versions'[h].added = saving.new
        /\ versions'[h].removed = saving.removed /\ versions'[h].frames \in 1 .. 4
        /\ versions'[h].full = (Full(saving.up) \cup saving.new) \ saving.removed
    BY <1>3, <1>6, <1>7, <1>8, Zenon
  <2>3. Full(versions[h].parent)' = Full(saving.up)
    BY <1>2, <2>1, <2>2, Zenon DEF Full
  <2>4. saving.up \in {0} \cup Stored'
    BY <1>1, <1>3, Zenon
  <2>5. /\ versions'[h].removed \subseteq Full(versions[h].parent)'
        /\ versions'[h].added \cap Full(versions[h].parent)' = {}
    BY <1>1, <2>2, <2>3, Zenon
  <2>6. /\ versions'[h].full
           = (Full(versions[h].parent)' \cup versions'[h].added) \ versions'[h].removed
        /\ versions'[h].full = meant'[h]
    BY <1>1, <2>1, <2>2, <2>3, Zenon
  <2>7. versions'[h].parent \in {0} \cup Stored'
    BY <2>2, <2>4, Zenon
  <2>8. saving' = saving
    BY <1>2, Zenon
  <2> QED BY <2>2, <2>5, <2>6, <2>7, <2>8, Zenon DEF RowInv
<1>10. \A g \in Stored : RowInv(g)'
  <2> SUFFICES ASSUME NEW g \in Stored PROVE RowInv(g)'
    BY Zenon
  <2>1. RowInv(g)
    BY Zenon DEF Core
  <2> QED BY <1>2, <1>3, <1>5, <2>1, Zenon DEF RowInv
<1>11. SavingInv'
  BY <1>1, <1>2, <1>3, Zenon DEF SavingInv
<1>12. Row.added \subseteq Entry /\ Row.removed \subseteq Entry
  BY <1>1, <1>6, Zenon DEF SavingType
<1> QED BY <1>1, <1>2, <1>3, <1>9, <1>10, <1>11, <1>12, Zenon DEF Core

\* A step that saves nothing keeps what is known of the rows.
LEMMA IdleCore ==
  ASSUME Core, UNCHANGED <<versions, counter, meant>>, crashes' \in Nat, saving' = Idle
  PROVE  Core'
<1>1. SavingInv'
  BY DEF SavingInv, SavingType, Sizes, Idle
<1> QED BY <1>1, CoreFrame, Zenon

(* A number is drawn and nothing is saved under it.                        *)
LEMMA DrawnCore ==
  ASSUME Core, saving = Idle, NEW S \in SUBSET Entry, counter' = counter + 1,
         meant' = With(meant, counter + 1, S), UNCHANGED <<versions, saving, crashes>>
  PROVE  Core'
<1> DEFINE n == counter + 1
<1>1. /\ counter \in Nat /\ crashes \in Nat /\ Stored \subseteq 1 .. counter
      /\ meant \in [1 .. counter -> SUBSET Entry]
      /\ 1 .. n = 1 .. counter \cup {n} /\ n \notin 1 .. counter
  BY DEF Core
<1>2. meant' = [y \in 1 .. n |-> IF y = n THEN S ELSE meant[y]]
  BY <1>1, Zenon DEF With
<1>3. meant' \in [1 .. n -> SUBSET Entry] /\ \A h \in Stored : meant'[h] = meant[h]
  BY <1>1, <1>2, Zenon
<1>4. Stored' = Stored /\ \A h : Full(h)' = Full(h)
  BY Zenon DEF Stored, Full
<1>5. \A h \in Stored : RowInv(h)'
  BY <1>3, <1>4, Zenon DEF Core, RowInv
<1>6. SavingInv'
  BY <1>4, Zenon DEF Core, SavingInv
<1>7. /\ counter' \in Nat /\ crashes' \in Nat /\ Stored' \subseteq 1 .. counter'
      /\ meant' \in [1 .. counter' -> SUBSET Entry]
  BY <1>1, <1>3, <1>4
<1>8. \A h \in Stored' : versions'[h].added \subseteq Entry /\ versions'[h].removed \subseteq Entry
  BY <1>4, Zenon DEF Core
<1> QED BY <1>4, <1>5, <1>6, <1>7, <1>8, Zenon DEF Core

\* The invariant is inductive: one case for each action of Next.
LEMMA NextInv == IInv /\ [Next]_vars => IInv'
<1> SUFFICES ASSUME IInv, [Next]_vars PROVE IInv'
  BY Zenon
<1>0. Core /\ Pointers
  BY Zenon DEF IInv
<1>1. counter \in Nat /\ crashes \in Nat /\ Stored \subseteq 1 .. counter /\ SavingInv
  BY <1>0, Zenon DEF Core
<1>2. ASSUME NEW S \in Given, SaveState(S) PROVE IInv'
  <2>0. S \in SUBSET Entry
    BY StateDiffsAssumption, Zenon DEF State
  <2>1. CASE S \in DOMAIN short
    <3>1. room' = short[S] /\ UNCHANGED <<versions, short, counter, meant, saving, eventstates, crashes>> /\ saving = Idle
      BY <1>2, <2>1, Zenon DEF SaveState
    <3>2. Core'
      BY <1>0, <1>1, <3>1, IdleCore, Zenon
    <3>3. Pointers'
      BY <1>0, <1>1, <2>1, <3>1 DEF Pointers, Stored
    <3> QED BY <3>2, <3>3, Zenon DEF IInv
  <2>2. CASE S \notin DOMAIN short
    <3>1. /\ Start("room", 2, S) /\ short' = With(short, S, counter + 1)
          /\ UNCHANGED <<versions, room, eventstates, crashes>> /\ saving = Idle
      BY <1>2, <2>2, Zenon DEF SaveState
    <3>2. Core' /\ saving' # Idle /\ saving'.h = counter + 1 /\ counter' = counter + 1
      BY <1>0, <2>0, <3>1, StartCore, Zenon
    <3>3. Pointers'
      BY <1>0, <1>1, <3>1, <3>2, WithKeeps DEF Pointers, Stored
    <3> QED BY <3>2, <3>3, Zenon DEF IInv
  <2> QED BY <2>1, <2>2, Zenon
<1>3. ASSUME NEW S \in Given, SetEventState(S) PROVE IInv'
  <2>0. S \in SUBSET Entry
    BY StateDiffsAssumption, Zenon DEF State
  <2>1. CASE S \in DOMAIN short
    <3>1. /\ eventstates' = eventstates \cup {short[S]} /\ saving = Idle
          /\ UNCHANGED <<versions, short, counter, meant, saving, room, crashes>>
      BY <1>3, <2>1, Zenon DEF SetEventState
    <3>2. Core'
      BY <1>0, <1>1, <3>1, IdleCore, Zenon
    <3>3. Pointers'
      BY <1>0, <1>1, <2>1, <3>1, Zenon DEF Pointers, Stored
    <3> QED BY <3>2, <3>3, Zenon DEF IInv
  <2>2. CASE S \notin DOMAIN short /\ room \in Stored \cup {0}
    <3>1. /\ Start("event", EventSibling, S) /\ short' = With(short, S, counter + 1)
          /\ UNCHANGED <<versions, room, eventstates, crashes>> /\ saving = Idle
      BY <1>3, <2>2, Zenon DEF SetEventState
    <3>2. EventSibling \in Nat
      BY SMT DEF EventSibling
    <3>3. Core' /\ saving' # Idle /\ saving'.h = counter + 1 /\ counter' = counter + 1
      BY <1>0, <2>0, <3>1, <3>2, StartCore, Zenon
    <3>4. Pointers'
      BY <1>0, <1>1, <3>1, <3>3, WithKeeps DEF Pointers, Stored
    <3> QED BY <3>3, <3>4, Zenon DEF IInv
  <2>3. CASE S \notin DOMAIN short /\ room \notin Stored \cup {0}
    <3>1. /\ counter' = counter + 1 /\ meant' = With(meant, counter + 1, S)
          /\ short' = With(short, S, counter + 1)
          /\ UNCHANGED <<versions, room, eventstates, saving, crashes>> /\ saving = Idle
      BY <1>3, <2>3, Zenon DEF SetEventState
    <3>2. crashes # 0
      BY <1>0, <2>3, Zenon DEF Pointers
    <3>3. Core'
      BY <1>0, <2>0, <3>1, DrawnCore, Zenon
    <3>4. Pointers'
      BY <1>0, <1>1, <3>1, <3>2, WithKeeps DEF Pointers, Stored
    <3> QED BY <3>3, <3>4, Zenon DEF IInv
  <2> QED BY <2>1, <2>2, <2>3, Zenon
<1>4. ASSUME NEW e \in Entry, AppendToState(e) PROVE IInv'
  <2> DEFINE S == (Full(room) \ Replaced(e)) \cup {e}
  <2>1. saving = Idle /\ eventstates' = eventstates \cup ({room} \ {0}) /\ UNCHANGED <<versions, short, room, crashes>>
    BY <1>4, Zenon DEF AppendToState
  <2>2. CASE room \in Stored \cup {0} /\ e \notin Replaced(e)
    <3>1. Start("room", 2, S)
      BY <1>4, <2>2, Zenon DEF AppendToState
    <3>2. S \in SUBSET Entry
      BY <1>0, <2>2, FullIsEntries, Zenon
    <3>3. Core' /\ saving' # Idle /\ saving'.h = counter + 1 /\ counter' = counter + 1
      <4> HIDE DEF S
      <4> QED BY <1>0, <2>1, <3>1, <3>2, StartCore, Zenon
    <3>4. Pointers'
      BY <1>0, <1>1, <2>1, <3>3 DEF Pointers, Stored
    <3> QED BY <3>3, <3>4, Zenon DEF IInv
  <2>3. CASE ~ (room \in Stored \cup {0} /\ e \notin Replaced(e))
    <3>1. UNCHANGED <<counter, meant, saving>>
      BY <1>4, <2>3, Zenon DEF AppendToState
    <3>2. Core'
      BY <1>0, <1>1, <2>1, <3>1, IdleCore, Zenon
    <3>3. Pointers'
      BY <1>0, <1>1, <2>1, <3>1 DEF Pointers, Stored
    <3> QED BY <3>2, <3>3, Zenon DEF IInv
  <2> QED BY <2>2, <2>3, Zenon
<1>5. CASE Merge
  <2>1. Core'
    BY <1>0, <1>5, MergeCore, Zenon
  <2>2. saving # Idle /\ saving' # Idle /\ saving'.h = saving.h
    <3>1. /\ saving # Idle /\ saving \in SavingType /\ saving.h \in 1 .. counter
          /\ saving' = [saving EXCEPT !.new = saving'.new, !.removed = saving'.removed,
                           !.sibling = saving'.sibling, !.up = saving'.up]
      BY <1>1, <1>5, Zenon DEF Merge, Unsaved, SavingInv, SavingType
    <3>2. saving'.h = saving.h
      BY <3>1, Zenon DEF SavingType
    <3>3. saving.h # 0
      BY <1>1, <3>1
    <3> QED BY <3>1, <3>2, <3>3 DEF Idle
  <2>3. UNCHANGED <<versions, short, room, eventstates, counter, crashes>>
    BY <1>5, Zenon DEF Merge
  <2>4. Pointers'
    BY <1>0, <2>2, <2>3, Zenon DEF Pointers, Stored
  <2> QED BY <2>1, <2>4, Zenon DEF IInv
<1>6. CASE SaveStateDiff
  <2>1. Core'
    BY <1>0, <1>6, SaveCore, Zenon
  <2>2. UNCHANGED <<short, room, eventstates, counter, saving, crashes>> /\ Stored \subseteq Stored'
    <3>1. versions' = With(versions, saving.h, Row) /\ UNCHANGED <<short, room, eventstates, counter, saving, crashes>>
      BY <1>6, Zenon DEF SaveStateDiff
    <3>2. DOMAIN versions' = DOMAIN versions \cup {saving.h}
      BY <3>1, Zenon DEF With
    <3> QED BY <3>1, <3>2, Zenon DEF Stored
  <2>3. Pointers'
    BY <1>0, <2>2, Zenon DEF Pointers
  <2> QED BY <2>1, <2>3, Zenon DEF IInv
<1>7. CASE Point
  <2>1. /\ saving # Idle /\ saving.h \in Stored /\ saving' = Idle
        /\ room' \in {room, saving.h} /\ eventstates' \subseteq eventstates \cup {saving.h}
        /\ UNCHANGED <<versions, short, counter, meant, crashes>>
    BY <1>7, Zenon DEF Point
  <2>2. Core'
    BY <1>0, <1>1, <2>1, IdleCore, Zenon
  <2>3. Pointers'
    BY <1>0, <1>1, <2>1 DEF Pointers, Stored
  <2> QED BY <2>2, <2>3, Zenon DEF IInv
<1>8. CASE Crash
  <2>1. /\ crashes' = crashes + 1 /\ saving' = Idle
        /\ UNCHANGED <<versions, short, room, eventstates, counter, meant>>
    BY <1>8, Zenon DEF Crash
  <2>2. Core'
    BY <1>0, <1>1, <2>1, IdleCore
  <2>3. Pointers'
    BY <1>0, <1>1, <2>1 DEF Pointers
  <2> QED BY <2>2, <2>3, Zenon DEF IInv
<1>9. CASE UNCHANGED vars
  <2>1. UNCHANGED <<versions, short, room, eventstates, counter, saving, meant, crashes>>
    BY <1>9, Zenon DEF vars
  <2>2. SavingInv'
    BY <1>1, <2>1, Zenon DEF SavingInv, Stored, Full
  <2>3. Core'
    BY <1>0, <1>1, <2>1, <2>2, CoreFrame, Zenon
  <2>4. Pointers'
    BY <1>0, <2>1, Zenon DEF Pointers, Stored
  <2> QED BY <2>3, <2>4, Zenon DEF IInv
<1> QED BY <1>2, <1>3, <1>4, <1>5, <1>6, <1>7, <1>8, <1>9, Zenon DEF Next

\* The invariant holds throughout every behaviour.
LEMMA Inductive == Spec => []IInv
BY InitInv, NextInv, PTL DEF Spec

-----------------------------------------------------------------------------
(* Numbers, rows and pointers keep their types, and no pointer is to a     *)
(* number that was not drawn.                                              *)
THEOREM TypeCorrect == Spec => []TypeOK
<1>1. IInv => TypeOK
  BY DEF IInv, Core, Pointers, RowInv, SavingInv, SavingType, TypeOK
<1> QED BY <1>1, Inductive, PTL

(* Every stored version loads as the state it was saved for, however far   *)
(* up the stack its diff was merged.  (save_state_from_diff)               *)
THEOREM VersionsLoad == Spec => []LoadsAsMeant
<1>1. IInv => LoadsAsMeant
  BY Zenon DEF IInv, Core, RowInv, LoadsAsMeant
<1> QED BY <1>1, Inductive, PTL

(* Every row's diff is exact against its parent.  (merge_into_parent)      *)
THEOREM RowsAreExact == Spec => []DiffsAreExact
<1>1. IInv => DiffsAreExact
  BY Zenon DEF IInv, Core, RowInv, DiffsAreExact
<1> QED BY <1>1, Inductive, PTL

(* No version takes more than four rows to load.  (save_state_from_diff)   *)
THEOREM StacksAreShort == Spec => []StackIsShort
<1>1. IInv => StackIsShort
  BY DEF IInv, Core, RowInv, StackIsShort
<1> QED BY <1>1, Inductive, PTL

(* Without a crash every pointer is to a stored version.  (save_state,     *)
(* set_event_state, append_to_state and what points to their versions)     *)
THEOREM PointersAreStored == Spec => []PointersLoad
<1>1. IInv => PointersLoad
  BY Zenon DEF IInv, Pointers, PointersLoad
<1> QED BY <1>1, Inductive, PTL

(* What is stored loads as it was meant, and what is pointed to is stored, *)
(* for any keys, values, versions and crashes.                             *)
THEOREM StatesAlwaysLoad == Spec => []StatesLoad
BY VersionsLoad, PointersAreStored, PTL DEF StatesLoad

-----------------------------------------------------------------------------
(* One-time and fallback keys.                                             *)

\* A request: what it has read is a count, a key or nothing.
ClaimType == [at : {"idle", "upload", "read", "fallback"}, d : KeyDevices \cup {Nothing},
              key : {Cardinality(S) : S \in SUBSET OneTimeKeys} \cup OneTimeKeys \cup {Nothing}]

KeyTypes ==
    /\ oneTime \in [KeyDevices -> SUBSET OneTimeKeys] /\ unused \in SUBSET OneTimeKeys
    /\ fallback \in [KeyDevices -> [key : FallbackKeys \cup {Nothing}, used : BOOLEAN]]
    /\ claim \in [Claims -> ClaimType] /\ keyLock \in Claims \cup {Nothing}
    /\ handed \in [OneTimeKeys -> Nat]

\* Before it is handed out a key is with its client or stored once.
StoredOnce ==
    /\ \A d \in KeyDevices : oneTime[d] \cap unused = {}
    /\ \A d, e \in KeyDevices : d # e => oneTime[d] \cap oneTime[e] = {}
    /\ \A k \in OneTimeKeys : handed[k] <= 1
    /\ \A k \in unused : handed[k] = 0
    /\ \A d \in KeyDevices : \A k \in oneTime[d] : handed[k] = 0

\* Only the holder of the lock has read a key, and it is still stored.
ReadIsStored ==
    \A c \in Claims :
      /\ claim[c].at = "read" =>
           /\ keyLock = c /\ claim[c].d \in KeyDevices
           /\ claim[c].key # Nothing => claim[c].key \in oneTime[claim[c].d]
      /\ claim[c].at \in {"upload", "fallback"} => claim[c].d \in KeyDevices

KeysInv == KeyTypes /\ StoredOnce /\ ReadIsStored

LEMMA KeysStart == KeysInit => KeysInv
<1> SUFFICES ASSUME KeysInit PROVE KeysInv
  BY Zenon
<1>1. NoClaim \in ClaimType /\ NoClaim.at = "idle"
  BY Zenon DEF NoClaim, ClaimType
<1>2. KeyTypes
  BY <1>1, Zenon DEF KeysInit, KeyTypes
<1>3. StoredOnce /\ ReadIsStored
  BY <1>1 DEF KeysInit, StoredOnce, ReadIsStored
<1> QED
  BY <1>2, <1>3, Zenon DEF KeysInv

\* What the steps away from the claims leave alone.
keysHeld == <<oneTime, fallback, keyLock, claim, unused, handed>>

LEMMA KeysKept == KeysInv /\ UNCHANGED keysHeld => KeysInv'
BY Zenon DEF keysHeld, KeysInv, KeyTypes, StoredOnce, ReadIsStored

LEMMA CountKeeps ==
  ASSUME KeysInv, NEW c \in Claims, NEW d \in KeyDevices, CountOneTime(c, d)
  PROVE  KeysInv'
<1> DEFINE new == [at |-> "upload", d |-> d, key |-> count_one_time_keys(d)]
<1>1. claim' = [claim EXCEPT ![c] = new] /\ UNCHANGED <<oneTime, fallback, keyLock, unused, handed>>
  BY Zenon DEF CountOneTime
<1>2. oneTime[d] \in SUBSET OneTimeKeys
  BY Zenon DEF KeysInv, KeyTypes
<1>3. new \in ClaimType /\ new.at = "upload" /\ new.d = d
  BY <1>2, Zenon DEF ClaimType, count_one_time_keys
<1> HIDE DEF new
<1>4. KeyTypes'
  BY <1>1, <1>3, Zenon DEF KeysInv, KeyTypes
<1>5. claim'[c] = new /\ \A e \in Claims \ {c} : claim'[e] = claim[e]
  BY <1>1, Zenon DEF KeysInv, KeyTypes
<1>6. StoredOnce' /\ ReadIsStored'
  BY <1>1, <1>3, <1>5 DEF KeysInv, StoredOnce, ReadIsStored
<1> QED
  BY <1>4, <1>6, Zenon DEF KeysInv

LEMMA AddKeeps ==
  ASSUME KeysInv, NEW c \in Claims, NEW ks \in SUBSET unused, add_one_time_keys(c, ks)
  PROVE  KeysInv'
<1> DEFINE d == claim[c].d
<1>1. /\ claim[c].at = "upload" /\ claim' = [claim EXCEPT ![c] = NoClaim]
      /\ oneTime' = [oneTime EXCEPT ![d] = @ \cup ks] /\ unused' = unused \ ks
      /\ UNCHANGED <<fallback, keyLock, handed>>
  BY Zenon DEF add_one_time_keys
<1>2. d \in KeyDevices
  BY <1>1, Zenon DEF KeysInv, ReadIsStored
<1> HIDE DEF d
<1>3. NoClaim \in ClaimType /\ NoClaim.at = "idle"
  BY Zenon DEF NoClaim, ClaimType
<1>4. oneTime'[d] = oneTime[d] \cup ks /\ \A e \in KeyDevices \ {d} : oneTime'[e] = oneTime[e]
  BY <1>1, <1>2, Zenon DEF KeysInv, KeyTypes
<1>5. claim'[c] = NoClaim /\ \A e \in Claims \ {c} : claim'[e] = claim[e]
  BY <1>1, Zenon DEF KeysInv, KeyTypes
<1>6. KeyTypes'
  BY <1>1, <1>2, <1>3, Zenon DEF KeysInv, KeyTypes
<1>7. StoredOnce'
  BY <1>1, <1>2, <1>4 DEF KeysInv, KeyTypes, StoredOnce
<1>8. ReadIsStored'
  BY <1>1, <1>2, <1>3, <1>4, <1>5 DEF KeysInv, KeyTypes, ReadIsStored
<1> QED
  BY <1>6, <1>7, <1>8, Zenon DEF KeysInv

LEMMA ReadKeeps ==
  ASSUME KeysInv, NEW c \in Claims, NEW d \in KeyDevices, ReadOneTime(c, d)
  PROVE  KeysInv'
<1>1. PICK k \in oneTime[d] \cup {Nothing} :
        claim' = [claim EXCEPT ![c] = [at |-> "read", d |-> d, key |-> k]]
  BY Zenon DEF ReadOneTime
<1>2. keyLock = Nothing /\ keyLock' = c /\ UNCHANGED <<oneTime, fallback, unused, handed>>
  BY Zenon DEF ReadOneTime
<1> DEFINE new == [at |-> "read", d |-> d, key |-> k]
<1>3. new \in ClaimType /\ new.at = "read" /\ new.d = d /\ new.key = k
  BY <1>1, Zenon DEF ClaimType, KeysInv, KeyTypes
<1>4. claim' = [claim EXCEPT ![c] = new]
  BY <1>1, Zenon
<1> HIDE DEF new
<1>5. claim'[c] = new /\ \A e \in Claims \ {c} : claim'[e] = claim[e]
  BY <1>4, Zenon DEF KeysInv, KeyTypes
<1>6. KeyTypes'
  BY <1>2, <1>3, <1>4, Zenon DEF KeysInv, KeyTypes
<1>7. StoredOnce'
  BY <1>2, Zenon DEF KeysInv, StoredOnce
<1>8. \A e \in Claims : claim[e].at # "read"
  BY <1>2, KeysAssumption, Zenon DEF KeysInv, ReadIsStored
<1>9. ReadIsStored'
  BY <1>1, <1>2, <1>3, <1>5, <1>8, Zenon DEF KeysInv, ReadIsStored
<1> QED
  BY <1>6, <1>7, <1>9, Zenon DEF KeysInv

LEMMA TakeKeeps ==
  ASSUME KeysInv, NEW c \in Claims, TakeOneTime(c)
  PROVE  KeysInv'
<1> DEFINE d == claim[c].d  k == claim[c].key
<1>1. claim[c].at = "read" /\ keyLock' = Nothing /\ UNCHANGED <<fallback, unused>>
  BY Zenon DEF TakeOneTime
<1>2. d \in KeyDevices /\ keyLock = c /\ (k # Nothing => k \in oneTime[d])
  BY <1>1, Zenon DEF KeysInv, ReadIsStored
<1>3. \A e \in Claims \ {c} : claim[e].at # "read"
  BY <1>2, Zenon DEF KeysInv, ReadIsStored
<1>4. CASE k = Nothing
  <2> DEFINE new == [claim[c] EXCEPT !.at = "fallback"]
  <2>1. claim' = [claim EXCEPT ![c] = new] /\ UNCHANGED <<oneTime, handed>>
    BY <1>4, Zenon DEF TakeOneTime
  <2>2. claim[c] \in ClaimType
    BY Zenon DEF KeysInv, KeyTypes
  <2>3. new \in ClaimType /\ new.at = "fallback" /\ new.d = d
    BY <2>2, Zenon DEF ClaimType
  <2> HIDE DEF new, d, k
  <2>4. claim'[c] = new /\ \A e \in Claims \ {c} : claim'[e] = claim[e]
    BY <2>1, Zenon DEF KeysInv, KeyTypes
  <2>5. KeyTypes'
    BY <1>1, <2>1, <2>3, Zenon DEF KeysInv, KeyTypes
  <2>6. StoredOnce'
    BY <1>1, <2>1, Zenon DEF KeysInv, StoredOnce
  <2>7. ReadIsStored'
    BY <1>1, <1>2, <1>3, <2>1, <2>3, <2>4, Zenon DEF KeysInv, ReadIsStored
  <2> QED
    BY <2>5, <2>6, <2>7, Zenon DEF KeysInv
<1>5. CASE k # Nothing
  <2>1. /\ claim' = [claim EXCEPT ![c] = NoClaim]
        /\ oneTime' = [oneTime EXCEPT ![d] = @ \ {k}]
        /\ handed' = [handed EXCEPT ![k] = @ + 1]
    BY <1>5, Zenon DEF TakeOneTime
  <2> HIDE DEF d, k
  <2>2. k \in OneTimeKeys /\ handed[k] = 0
    BY <1>2, <1>5, Zenon DEF KeysInv, KeyTypes, StoredOnce
  <2>3. NoClaim \in ClaimType /\ NoClaim.at = "idle"
    BY Zenon DEF NoClaim, ClaimType
  <2>4. claim'[c] = NoClaim /\ \A e \in Claims \ {c} : claim'[e] = claim[e]
    BY <2>1, Zenon DEF KeysInv, KeyTypes
  <2>5. oneTime'[d] = oneTime[d] \ {k} /\ \A e \in KeyDevices \ {d} : oneTime'[e] = oneTime[e]
    BY <1>2, <2>1, Zenon DEF KeysInv, KeyTypes
  <2>6. handed'[k] = 1 /\ \A j \in OneTimeKeys \ {k} : handed'[j] = handed[j]
    BY <2>1, <2>2 DEF KeysInv, KeyTypes
  <2>7. KeyTypes'
    BY <1>1, <1>2, <2>1, <2>2, <2>3 DEF KeysInv, KeyTypes
  <2>8. k \notin unused /\ \A e \in KeyDevices \ {d} : k \notin oneTime[e]
    BY <1>2, <1>5, Zenon DEF KeysInv, StoredOnce
  <2>9. StoredOnce'
    BY <1>1, <1>2, <2>5, <2>6, <2>8 DEF KeysInv, KeyTypes, StoredOnce
  <2>10. ReadIsStored'
    BY <1>1, <1>3, <2>3, <2>4, Zenon DEF KeysInv, ReadIsStored
  <2> QED
    BY <2>7, <2>9, <2>10, Zenon DEF KeysInv
<1> QED
  BY <1>4, <1>5, Zenon

LEMMA FallbackKeeps ==
  ASSUME KeysInv, NEW c \in Claims, take_fallback_key(c)
  PROVE  /\ KeysInv'
         /\ \A d \in KeyDevices : fallback[d].used /\ fallback'[d].key = fallback[d].key => fallback'[d].used
<1> DEFINE d == claim[c].d  new == [fallback[d] EXCEPT !.used = TRUE]
<1>1. /\ claim[c].at = "fallback" /\ claim' = [claim EXCEPT ![c] = NoClaim]
      /\ UNCHANGED <<oneTime, keyLock, unused, handed>>
      /\ fallback' \in {fallback, [fallback EXCEPT ![d] = new]}
  BY Zenon DEF take_fallback_key
<1>2. d \in KeyDevices
  BY <1>1, Zenon DEF KeysInv, ReadIsStored
<1>3. new \in [key : FallbackKeys \cup {Nothing}, used : BOOLEAN] /\ new.used = TRUE
  BY <1>2, Zenon DEF KeysInv, KeyTypes
<1>4. NoClaim \in ClaimType /\ NoClaim.at = "idle"
  BY Zenon DEF NoClaim, ClaimType
<1> HIDE DEF d, new
<1>5. KeyTypes'
  BY <1>1, <1>3, <1>4 DEF KeysInv, KeyTypes
<1>6. claim'[c] = NoClaim /\ \A e \in Claims \ {c} : claim'[e] = claim[e]
  BY <1>1, Zenon DEF KeysInv, KeyTypes
<1>7. StoredOnce' /\ ReadIsStored'
  BY <1>1, <1>4, <1>6 DEF KeysInv, StoredOnce, ReadIsStored
<1>8. \A e \in KeyDevices : fallback'[e] = fallback[e] \/ fallback'[e] = new
  BY <1>1, <1>2, Zenon DEF KeysInv, KeyTypes
<1> QED
  BY <1>3, <1>5, <1>7, <1>8, Zenon DEF KeysInv

LEMMA SetKeeps ==
  ASSUME KeysInv, NEW d \in KeyDevices, NEW k \in FallbackKeys, set_fallback_key(d, k)
  PROVE  /\ KeysInv'
         /\ \A e \in KeyDevices : fallback[e].used /\ fallback'[e].key = fallback[e].key => fallback'[e].used
<1> DEFINE new == [key |-> k, used |-> FALSE]
<1>1. /\ fallback[d].key # k /\ fallback' = [fallback EXCEPT ![d] = new]
      /\ UNCHANGED <<oneTime, keyLock, claim, unused, handed>>
  BY Zenon DEF set_fallback_key
<1>2. new \in [key : FallbackKeys \cup {Nothing}, used : BOOLEAN] /\ new.key = k
  BY Zenon
<1> HIDE DEF new
<1>3. fallback'[d] = new /\ \A e \in KeyDevices \ {d} : fallback'[e] = fallback[e]
  BY <1>1, Zenon DEF KeysInv, KeyTypes
<1>4. KeyTypes'
  BY <1>1, <1>2, Zenon DEF KeysInv, KeyTypes
<1>5. StoredOnce' /\ ReadIsStored'
  BY <1>1, Zenon DEF KeysInv, StoredOnce, ReadIsStored
<1> QED
  BY <1>1, <1>2, <1>3, <1>4, <1>5, Zenon DEF KeysInv

LEMMA KeysStep ==
  KeysInv /\ [KeysNext]_keyVars
  => /\ KeysInv'
     /\ \A d \in KeyDevices : fallback[d].used /\ fallback'[d].key = fallback[d].key => fallback'[d].used
<1> SUFFICES ASSUME KeysInv, [KeysNext]_keyVars
             PROVE  /\ KeysInv'
                    /\ \A d \in KeyDevices :
                         fallback[d].used /\ fallback'[d].key = fallback[d].key => fallback'[d].used
  BY Zenon
<1>1. CASE Uploading
  <2>1. ASSUME NEW d \in KeyDevices, add_device_keys(d) PROVE UNCHANGED keysHeld
    BY <2>1, Zenon DEF add_device_keys, keysHeld
  <2>2. ASSUME NEW d \in KeyDevices, NEW c \in Claims, CountOneTime(c, d) PROVE UNCHANGED fallback
    BY <2>2, Zenon DEF CountOneTime
  <2> QED
    BY <1>1, <2>1, <2>2, KeysKept, CountKeeps, SetKeeps, Zenon DEF Uploading, keysHeld
<1>2. CASE Claiming
  <2>1. ASSUME NEW c \in Claims, NEW d \in KeyDevices, ReadOneTime(c, d) PROVE UNCHANGED fallback
    BY <2>1, Zenon DEF ReadOneTime
  <2>2. ASSUME NEW c \in Claims, TakeOneTime(c) PROVE UNCHANGED fallback
    BY <2>2, Zenon DEF TakeOneTime
  <2>3. ASSUME NEW c \in Claims, NEW ks \in SUBSET unused, add_one_time_keys(c, ks) PROVE UNCHANGED fallback
    BY <2>3, Zenon DEF add_one_time_keys
  <2> QED
    BY <1>2, <2>1, <2>2, <2>3, ReadKeeps, TakeKeeps, FallbackKeeps, AddKeeps, Zenon DEF Claiming
<1>3. CASE Signing
  <2>1. UNCHANGED keysHeld
    BY <1>3, Zenon DEF Signing, allow_cross_signing_replacement, upload_signing_keys_route, sign_key, keysHeld
  <2> QED
    BY <2>1, KeysKept, Zenon DEF keysHeld
<1>4. CASE Messaging
  <2>1. UNCHANGED keysHeld
    BY <1>4, Zenon DEF Messaging, send_event_to_device_route, remove_to_device_events, keysHeld
  <2> QED
    BY <2>1, KeysKept, Zenon DEF keysHeld
<1>5. CASE UNCHANGED keyVars
  BY <1>5, KeysKept, Zenon DEF keyVars, keysHeld
<1> QED
  BY <1>1, <1>2, <1>3, <1>4, <1>5, Zenon DEF KeysNext

(* Whichever claims and uploads overlap, a one-time key goes to at most one
   claim: only the holder of the owner's lock has read a key, and what it
   read is still stored when it removes it (keys.rs, take_one_time_key). *)
THEOREM KeysAreHandedOnce == KeysSpec => []HandedOnce
<1>1. KeysInv => HandedOnce
  BY Zenon DEF KeysInv, StoredOnce, HandedOnce
<1> QED
  BY <1>1, KeysStart, KeysStep, PTL DEF KeysSpec

(* No step makes a used fallback key unused again while it is stored: its
   upload once more changes nothing (fallback_keys.rs, set_fallback_key). *)
THEOREM UsedFallbackStaysUsed == KeysSpec => UsedStaysUsed
<1>1. KeysInv /\ [KeysNext]_keyVars
      => [\A d \in KeyDevices : fallback[d].used /\ fallback'[d].key = fallback[d].key
                                => fallback'[d].used]_keyVars
  BY KeysStep, Zenon
<1> QED
  BY <1>1, KeysStart, KeysStep, PTL DEF KeysSpec, UsedStaysUsed

=============================================================================
