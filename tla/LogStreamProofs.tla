--------------------------- MODULE LogStreamProofs ---------------------------
(***************************************************************************)
(* The safety properties of LogStream, for every order of monitors, every  *)
(* set of names, fields and values, and logs of any length.                *)
(*                                                                         *)
(* The inductive invariant comes in layers, each proved from those before: *)
(* TypeInv, the types; PoolInv, ids and caches agree; SoundInv, a reader   *)
(* of the file shows only what the daemon has; ClientInv, the client holds *)
(* what such a reader holds; TellInv, which lists such a reader knows      *)
(* completely; BlockInv, nothing is missing at the end of a block.         *)
(***************************************************************************)
EXTENDS LogStream, WellFoundedInduction, TLAPS

-----------------------------------------------------------------------------
(* What unique_id_find and unique_id_release do to the ids that are taken. *)

(* The list of uid.c is built by appending "last id + 1", and no slot is   *)
(* ever removed: the id of a slot is its index.                            *)
IsPool(slots) ==
  /\ slots \in Seq(Slot)
  /\ \A i \in DOMAIN slots : slots[i].id = i - 1

(* A nonempty set of naturals has a least element.                         *)
LEMMA LeastElement ==
  ASSUME NEW S \in SUBSET Nat, S # {}
  PROVE  \E x \in S : \A y \in S : x <= y
<1> DEFINE R == OpToRel(<, Nat)
<1>1. IsWellFoundedOn(R, Nat)
  BY NatLessThanWellFounded
<1> HIDE DEF R
<1>2. PICK x \in S : \A y \in S : ~(<<y, x>> \in R)
  BY <1>1, WFMin
<1>3. ASSUME NEW y \in S, y < x PROVE <<y, x>> \in R
  BY <1>3 DEF OpToRel, R
<1>4. \A y \in S : ~(y < x)
  BY <1>2, <1>3
<1>5. S \subseteq Nat
  OBVIOUS
<1> QED BY <1>4, <1>5

(* If some slot is available, the first loop of unique_id_find stops at an *)
(* available slot.                                                         *)
LEMMA FirstAvailableIsAvailable ==
  ASSUME NEW slots, IsPool(slots), HasAvailable(slots)
  PROVE  FirstAvailable(slots) \in DOMAIN slots /\ slots[FirstAvailable(slots)].available
<1> DEFINE A == {i \in DOMAIN slots : slots[i].available}
<1>1. DOMAIN slots = 1 .. Len(slots) /\ Len(slots) \in Nat
  BY DEF IsPool
<1>2. A \in SUBSET Nat /\ A # {}
  BY <1>1 DEF HasAvailable
<1>3. PICK x \in A : \A y \in A : x <= y
  <2> HIDE DEF A
  <2> QED BY <1>2, LeastElement
<1>4. \A j \in 1 .. (x - 1) : j \in DOMAIN slots /\ ~(x <= j)
  BY <1>1, <1>3
<1>5. \A j \in 1 .. (x - 1) : ~slots[j].available
  BY <1>3, <1>4
<1>6. \E i \in DOMAIN slots :
        slots[i].available /\ \A j \in 1 .. (i - 1) : ~slots[j].available
  BY <1>3, <1>5
<1> QED BY <1>6 DEF FirstAvailable

(* A known id is found by the loop of unique_id_release.                   *)
LEMMA FirstWithHasId ==
  ASSUME NEW slots, IsPool(slots), NEW id, Known(slots, id)
  PROVE  FirstWith(slots, id) \in DOMAIN slots /\ FirstWith(slots, id) = id + 1
<1>1. DOMAIN slots = 1 .. Len(slots) /\ Len(slots) \in Nat
  BY DEF IsPool
<1>2. PICK i \in DOMAIN slots : slots[i].id = id
  BY DEF Known
<1>3. \A j \in 1 .. (i - 1) : j \in DOMAIN slots /\ slots[j].id # id
  BY <1>1, <1>2 DEF IsPool
<1>4. /\ FirstWith(slots, id) \in DOMAIN slots
      /\ slots[FirstWith(slots, id)].id = id
  <2>1. \E k \in DOMAIN slots :
          slots[k].id = id /\ \A j \in 1 .. (k - 1) : slots[j].id # id
    BY <1>2, <1>3
  <2> QED BY <2>1 DEF FirstWith
<1> QED BY <1>1, <1>4 DEF IsPool

(* The taken ids are the indexes, less one, of the slots not available.    *)
LEMMA TakenIds ==
  ASSUME NEW slots, IsPool(slots)
  PROVE  \A x : x \in Taken(slots) <=>
           x \in Nat /\ x + 1 \in DOMAIN slots /\ ~slots[x + 1].available
<1>1. DOMAIN slots = 1 .. Len(slots) /\ Len(slots) \in Nat
  BY DEF IsPool
<1>2. ASSUME NEW x \in Taken(slots)
      PROVE  x \in Nat /\ x + 1 \in DOMAIN slots /\ ~slots[x + 1].available
  <2>1. PICK i \in DOMAIN slots : ~slots[i].available /\ x = slots[i].id
    BY DEF Taken
  <2>2. x = i - 1 /\ i \in 1 .. Len(slots)
    BY <1>1, <2>1 DEF IsPool
  <2>3. x \in Nat /\ x + 1 = i
    BY <1>1, <2>2
  <2> QED BY <2>1, <2>3
<1>3. ASSUME NEW x \in Nat, x + 1 \in DOMAIN slots, ~slots[x + 1].available
      PROVE  x \in Taken(slots)
  <2>1. slots[x + 1].id = x
    BY <1>3 DEF IsPool
  <2> QED BY <1>3, <2>1 DEF Taken
<1> QED BY <1>2, <1>3

(* Replacing the slot of an index by one with the same id changes neither  *)
(* the ids nor the other slots.                                            *)
LEMMA MarkSlot ==
  ASSUME NEW slots, IsPool(slots), NEW f \in DOMAIN slots,
         NEW slot \in Slot, slot.id = slots[f].id,
         NEW new, new = [slots EXCEPT ![f] = slot]
  PROVE  /\ IsPool(new)
         /\ DOMAIN new = DOMAIN slots
         /\ \A i \in DOMAIN slots : new[i] = IF i = f THEN slot ELSE slots[i]
  BY DEF IsPool

(* What EXCEPT does to the available field of a slot.                      *)
LEMMA SlotExcept ==
  ASSUME NEW slot \in Slot, NEW v \in BOOLEAN
  PROVE  /\ [slot EXCEPT !.available = v] \in Slot
         /\ [slot EXCEPT !.available = v].id = slot.id
         /\ [slot EXCEPT !.available = v].available <=> v
  BY DEF Slot

(* Marking slot f changes whether the id f - 1 is taken, and nothing else.  *)
LEMMA MarkTaken ==
  ASSUME NEW slots, IsPool(slots), NEW f \in DOMAIN slots, NEW v \in BOOLEAN,
         NEW new, new = [slots EXCEPT ![f] = [@ EXCEPT !.available = v]]
  PROVE  /\ IsPool(new)
         /\ Taken(new) = IF v THEN Taken(slots) \ {f - 1} ELSE Taken(slots) \cup {f - 1}
<1> DEFINE slot == [slots[f] EXCEPT !.available = v]
<1>1. DOMAIN slots = 1 .. Len(slots) /\ Len(slots) \in Nat /\ slots[f] \in Slot
  BY DEF IsPool
<1>2. slot \in Slot /\ slot.id = slots[f].id /\ (slot.available <=> v)
  BY <1>1, SlotExcept
<1>3. new = [slots EXCEPT ![f] = slot]
  OBVIOUS
<1> HIDE DEF slot
<1>4. /\ IsPool(new)
      /\ DOMAIN new = DOMAIN slots
      /\ \A i \in DOMAIN slots : new[i] = IF i = f THEN slot ELSE slots[i]
  BY <1>2, <1>3, MarkSlot, ZenonT(60)
<1>5. ASSUME NEW x
      PROVE  x \in Taken(new) <=> IF v THEN x \in Taken(slots) /\ x # f - 1
                                       ELSE x \in Taken(slots) \/ x = f - 1
  <2>1. /\ x \in Taken(new) <=>
             x \in Nat /\ x + 1 \in DOMAIN slots /\ ~new[x + 1].available
        /\ x \in Taken(slots) <=>
             x \in Nat /\ x + 1 \in DOMAIN slots /\ ~slots[x + 1].available
    BY <1>4, TakenIds
  <2>2. CASE x = f - 1
    <3>1. x \in Nat /\ x + 1 = f
      BY <1>1, <2>2
    <3> QED BY <1>2, <1>4, <2>1, <2>2, <3>1
  <2>3. CASE x # f - 1
    <3>1. x \in Nat /\ x + 1 \in DOMAIN slots => new[x + 1] = slots[x + 1]
      BY <1>1, <1>4, <2>3
    <3> QED BY <2>1, <2>3, <3>1
  <2> QED BY <2>2, <2>3
<1> QED BY <1>4, <1>5

(* unique_id_find hands out an id that is not taken and reserves it, and   *)
(* nothing else.                                                           *)
LEMMA FindTakesFreeId ==
  ASSUME NEW slots, IsPool(slots)
  PROVE  /\ IsPool(Find(slots))
         /\ FindId(slots) \in Nat
         /\ FindId(slots) \notin Taken(slots)
         /\ Taken(Find(slots)) = Taken(slots) \cup {FindId(slots)}
<1>1. DOMAIN slots = 1 .. Len(slots) /\ Len(slots) \in Nat
  BY DEF IsPool
<1>2. CASE HasAvailable(slots)
  <2> DEFINE f == FirstAvailable(slots)
  <2>1. f \in DOMAIN slots /\ slots[f].available
    BY <1>2, FirstAvailableIsAvailable
  <2>2. FindId(slots) = f - 1 /\ FindId(slots) \in Nat
    BY <1>1, <1>2, <2>1 DEF FindId, IsPool
  <2>3. Find(slots) = [slots EXCEPT ![f] = [@ EXCEPT !.available = FALSE]]
    BY <1>2 DEF Find
  <2> HIDE DEF f
  <2>4. IsPool(Find(slots)) /\ Taken(Find(slots)) = Taken(slots) \cup {f - 1}
    BY <2>1, <2>3, MarkTaken
  <2>5. FindId(slots) \notin Taken(slots)
    BY <1>1, <2>1, <2>2, TakenIds
  <2> QED BY <2>2, <2>4, <2>5
<1>3. CASE ~HasAvailable(slots)
  <2>1. NextAvailable(slots) = Len(slots)
    BY <1>1 DEF NextAvailable, IsPool
  <2>2. FindId(slots) = Len(slots) /\ FindId(slots) \in Nat
    BY <1>1, <1>3, <2>1 DEF FindId
  <2>3. Find(slots) = Append(slots, [id |-> Len(slots), available |-> FALSE])
    BY <1>3, <2>1 DEF Find
  <2>4. /\ Find(slots) \in Seq(Slot)
        /\ DOMAIN Find(slots) = 1 .. (Len(slots) + 1)
        /\ \A i \in DOMAIN slots : Find(slots)[i] = slots[i]
        /\ Find(slots)[Len(slots) + 1] = [id |-> Len(slots), available |-> FALSE]
    BY <1>1, <2>3 DEF IsPool, Slot
  <2>5. IsPool(Find(slots))
    BY <1>1, <2>4 DEF IsPool
  <2>6. FindId(slots) \notin Taken(slots)
    BY <1>1, <2>2, TakenIds
  <2>7. Taken(Find(slots)) = Taken(slots) \cup {FindId(slots)}
    BY <1>1, <2>2, <2>4, <2>5, TakenIds
  <2> QED BY <2>2, <2>5, <2>6, <2>7
<1> QED BY <1>2, <1>3

(* A taken id is in the list, where unique_id_release looks for it.        *)
LEMMA TakenKnown ==
  ASSUME NEW slots, NEW id \in Taken(slots)
  PROVE  Known(slots, id)
  BY DEF Taken, Known

(* unique_id_release of an id of the list makes that id available and      *)
(* nothing else.                                                           *)
LEMMA ReleaseFreesId ==
  ASSUME NEW slots, IsPool(slots), NEW id, Known(slots, id)
  PROVE  /\ IsPool(Release(slots, id))
         /\ Taken(Release(slots, id)) = Taken(slots) \ {id}
<1> DEFINE f == FirstWith(slots, id)
<1>1. f \in DOMAIN slots /\ f - 1 = id
  <2>1. id \in Nat
    <3>1. PICK i \in DOMAIN slots : slots[i].id = id
      BY DEF Known
    <3> QED BY <3>1 DEF IsPool, Slot
  <2> QED BY <2>1, FirstWithHasId
<1>2. Release(slots, id) = [slots EXCEPT ![f] = [@ EXCEPT !.available = TRUE]]
  BY DEF Release
<1> HIDE DEF f
<1>3. IsPool(Release(slots, id)) /\ Taken(Release(slots, id)) = Taken(slots) \ {f - 1}
  BY <1>1, <1>2, MarkTaken
<1> QED BY <1>1, <1>3

-----------------------------------------------------------------------------
(* A list of the client that shows objects of the list of the daemon still *)
(* does when the daemon changes its list and the client decodes the record *)
(* of that change.                                                         *)

(* A set of entries with the fields F, as the daemon and the client hold.  *)
IsList(list, K, F) == list \subseteq [key : K, id : Nat, val : [F -> Int]]

Unique(list) == \A e1, e2 \in list : e1.id = e2.id => e1 = e2

(* What EXCEPT does to one field of an entry.                              *)
LEMMA EntryExcept ==
  ASSUME NEW K, NEW F, NEW e \in [key : K, id : Nat, val : [F -> Int]],
         NEW f \in F, NEW v \in Int,
         NEW new, new = [e EXCEPT !.val = [@ EXCEPT ![f] = v]]
  PROVE  /\ new \in [key : K, id : Nat, val : [F -> Int]]
         /\ new.key = e.key
         /\ new.id = e.id
         /\ \A g \in F : new.val[g] = IF g = f THEN v ELSE e.val[g]
<1> DEFINE val == [e.val EXCEPT ![f] = v]
<1>1. /\ val \in [F -> Int]
      /\ \A g \in F : val[g] = IF g = f THEN v ELSE e.val[g]
  OBVIOUS
<1>2. new = [e EXCEPT !.val = val]
  OBVIOUS
<1> HIDE DEF val
<1>3. new.key = e.key /\ new.id = e.id /\ new.val = val
  BY <1>2
<1>4. new \in [key : K, id : Nat, val : [F -> Int]]
  BY <1>1, <1>2
<1> QED BY <1>1, <1>3, <1>4

(* FLOAT_VALID leaves the sum at least as large as it was.                 *)
LEMMA ChangedAtLeast ==
  ASSUME NEW f, NEW old \in Int, NEW delta \in Int
  PROVE  /\ Changed(f, old, delta) \in Int
         /\ Changed(f, old, delta) >= old + delta
         /\ f \notin FloatFields => Changed(f, old, delta) = old + delta
  BY DEF Changed, FloatValid

(* An entry shows itself.                                                  *)
LEMMA ShowsItself ==
  ASSUME NEW K, NEW F, NEW e \in [key : K, id : Nat, val : [F -> Int]]
  PROVE  Shows(e, e)
  BY DEF Shows

(* MESG_REFRESH with the daemon's list: a list that is not empty keeps the *)
(* objects it has, updated or not; an empty one takes all.                 *)
LEMMA RefreshUnchanged ==
  ASSUME NEW kind, NEW list, NEW objs, list # {}, kind \notin RefreshUpdates
  PROVE  RefreshList(kind, list, objs) = list
  BY DEF RefreshList

(* A refresh that changes a list that is there: no entry more or less.     *)
LEMMA RefreshUpdated ==
  ASSUME NEW K, NEW F, NEW kind, NEW list, NEW entries, list # {}, kind \in RefreshUpdates,
         IsList(list, K, F), IsList(entries, K, F), Unique(entries),
         SoundList(list, entries)
  PROVE  /\ RefreshList(kind, list, entries) \subseteq entries
         /\ Ids(RefreshList(kind, list, entries)) = Ids(list)
<1> DEFINE Upd(e) == IF \E o \in entries : o.id = e.id
                     THEN [e EXCEPT !.val = (CHOOSE o \in entries : o.id = e.id).val]
                     ELSE e
<1>1. RefreshList(kind, list, entries) = {Upd(e) : e \in list}
  BY DEF RefreshList
<1>2. ASSUME NEW e \in list
      PROVE  Upd(e) \in entries /\ Upd(e).id = e.id
  <2>1. PICK c \in entries : Shows(e, c)
    BY DEF SoundList
  <2>2. (CHOOSE o \in entries : o.id = e.id) = c
    BY <2>1 DEF Unique, Shows
  <2>3. Upd(e) = [e EXCEPT !.val = c.val]
    BY <2>1, <2>2 DEF Shows
  <2>4. [e EXCEPT !.val = c.val] = c
    <3>1. /\ e \in [key : K, id : Nat, val : [F -> Int]]
          /\ c \in [key : K, id : Nat, val : [F -> Int]]
          /\ e.key = c.key /\ e.id = c.id
      BY <2>1 DEF IsList, Shows
    <3> QED BY <3>1
  <2> QED BY <2>1, <2>3, <2>4 DEF Shows
<1> HIDE DEF Upd
<1> QED BY <1>1, <1>2 DEF Ids

(* The same of any list that is there.                                     *)
LEMMA RefreshKeepsIds ==
  ASSUME NEW K, NEW F, NEW kind, NEW list, NEW entries, list # {},
         IsList(list, K, F), IsList(entries, K, F), Unique(entries),
         SoundList(list, entries)
  PROVE  Ids(RefreshList(kind, list, entries)) = Ids(list)
<1>1. CASE kind \notin RefreshUpdates
  BY <1>1, RefreshUnchanged
<1>2. CASE kind \in RefreshUpdates
  BY <1>2, RefreshUpdated
<1> QED BY <1>1, <1>2

(* A refresh leaves a list sound.                                          *)
LEMMA RefreshSound ==
  ASSUME NEW K, NEW F, NEW kind, NEW list, NEW entries,
         IsList(list, K, F), IsList(entries, K, F), Unique(entries),
         SoundList(list, entries)
  PROVE  SoundList(RefreshList(kind, list, entries), entries)
<1>0. \A e \in entries : Shows(e, e)
  BY ShowsItself DEF IsList
<1>1. CASE list = {}
  <2>1. RefreshList(kind, list, entries) = entries
    BY <1>1 DEF RefreshList
  <2> QED BY <1>0, <2>1 DEF SoundList, Unique
<1>2. CASE list # {} /\ kind \notin RefreshUpdates
  BY <1>2, RefreshUnchanged
<1>3. CASE list # {} /\ kind \in RefreshUpdates
  <2>1. RefreshList(kind, list, entries) \subseteq entries
    BY <1>3, RefreshUpdated
  <2> QED BY <1>0, <2>1 DEF SoundList, Unique
<1> QED BY <1>1, <1>2, <1>3

(* MESG_ADD of an object whose id the daemon's list did not hold.          *)
LEMMA AddSound ==
  ASSUME NEW list, NEW entries, NEW obj, Shows(obj, obj),
         SoundList(list, entries), obj.id \notin Ids(entries)
  PROVE  /\ SoundList(AddList(list, obj), entries \cup {obj})
         /\ Ids(AddList(list, obj)) = Ids(list) \cup {obj.id}
         /\ obj.id \notin Ids(list)
<1>1. \A e \in list : e.id # obj.id
  BY DEF SoundList, Shows, Ids
<1>2. SoundList(AddList(list, obj), entries \cup {obj})
  BY <1>1 DEF SoundList, AddList
<1>3. Ids(AddList(list, obj)) = Ids(list) \cup {obj.id}
  BY DEF Ids, AddList
<1> QED BY <1>1, <1>2, <1>3 DEF Ids

(* MESG_DEL of an object that leaves the daemon's list.                    *)
LEMMA DelSound ==
  ASSUME NEW list, NEW entries, NEW obj \in entries,
         SoundList(list, entries), Unique(entries)
  PROVE  /\ SoundList(DelList(list, obj.id), entries \ {obj})
         /\ Ids(DelList(list, obj.id)) = Ids(list) \ {obj.id}
         /\ Ids(entries \ {obj}) = Ids(entries) \ {obj.id}
<1>1. SoundList(DelList(list, obj.id), entries \ {obj})
  BY DEF SoundList, DelList, Shows
<1>2. Ids(DelList(list, obj.id)) = Ids(list) \ {obj.id}
  BY DEF Ids, DelList
<1>3. Ids(entries \ {obj}) = Ids(entries) \ {obj.id}
  BY DEF Ids, Unique
<1> QED BY <1>1, <1>2, <1>3

(* MESG_MOD of one field: the daemon's value becomes v, the client adds    *)
(* the difference to what it shows.                                        *)
LEMMA ModSound ==
  ASSUME NEW K, NEW F, NEW list, NEW entries, NEW c \in entries, NEW f \in F,
         NEW v \in Int, NEW c2, c2 = [c EXCEPT !.val = [@ EXCEPT ![f] = v]],
         IsList(list, K, F), IsList(entries, K, F), Unique(entries),
         SoundList(list, entries)
  PROVE  /\ IsList(ModList(list, c.id, f, v - c.val[f]), K, F)
         /\ SoundList(ModList(list, c.id, f, v - c.val[f]), (entries \ {c}) \cup {c2})
         /\ Ids(ModList(list, c.id, f, v - c.val[f])) = Ids(list)
         /\ Ids((entries \ {c}) \cup {c2}) = Ids(entries)
<1> DEFINE delta == v - c.val[f]
           Upd(e) == IF e.id = c.id
                     THEN [e EXCEPT !.val = [@ EXCEPT ![f] = Changed(f, e.val[f], delta)]]
                     ELSE e
           E == [key : K, id : Nat, val : [F -> Int]]
<1>1. c \in E /\ c.val[f] \in Int /\ delta \in Int
  BY DEF IsList
<1>2. c2 \in E /\ c2.key = c.key /\ c2.id = c.id
      /\ \A g \in F : c2.val[g] = IF g = f THEN v ELSE c.val[g]
  BY <1>1, EntryExcept
<1>3. ModList(list, c.id, f, delta) = {Upd(e) : e \in list}
  BY DEF ModList
<1>4. ASSUME NEW e \in list
      PROVE  /\ Upd(e) \in E
             /\ Upd(e).id = e.id
             /\ \E o \in (entries \ {c}) \cup {c2} : Shows(Upd(e), o)
  <2>1. PICK o \in entries : Shows(e, o)
    BY DEF SoundList
  <2>2. e \in E /\ o \in E /\ e.id = o.id /\ e.key = o.key
    BY <2>1 DEF IsList, Shows
  <2>3. CASE e.id # c.id
    <3>1. o # c /\ Upd(e) = e
      BY <2>2, <2>3
    <3> QED BY <2>1, <2>2, <3>1
  <2>4. CASE e.id = c.id
    <3>1. o = c
      BY <2>2, <2>4 DEF Unique
    <3> DEFINE w == Changed(f, e.val[f], delta)
    <3>2. e.val[f] \in Int /\ w \in Int
      BY <1>1, <2>2, ChangedAtLeast
    <3>3. Upd(e) = [e EXCEPT !.val = [@ EXCEPT ![f] = w]]
      BY <2>4
    <3> HIDE DEF w, Upd, delta
    <3>4. /\ Upd(e) \in E /\ Upd(e).key = e.key /\ Upd(e).id = e.id
          /\ \A g \in F : Upd(e).val[g] = IF g = f THEN w ELSE e.val[g]
      <4>1. ASSUME NEW new, new = [e EXCEPT !.val = [@ EXCEPT ![f] = w]]
            PROVE  /\ new \in E /\ new.key = e.key /\ new.id = e.id
                   /\ \A g \in F : new.val[g] = IF g = f THEN w ELSE e.val[g]
        BY <2>2, <3>2, <4>1, EntryExcept
      <4> QED BY <3>3, <4>1
    <3>5. IF f \in FloatFields THEN w >= v ELSE w = v
      <4>1. IF f \in FloatFields THEN e.val[f] >= c.val[f] ELSE e.val[f] = c.val[f]
        BY <1>1, <2>1, <3>1 DEF Shows
      <4>2. w >= e.val[f] + delta /\ (f \notin FloatFields => w = e.val[f] + delta)
        BY <1>1, <3>2, ChangedAtLeast DEF w
      <4> QED BY <1>1, <3>2, <4>1, <4>2 DEF delta
    <3>6. \A g \in F : IF g \in FloatFields THEN Upd(e).val[g] >= c2.val[g]
                                            ELSE Upd(e).val[g] = c2.val[g]
      BY <1>1, <1>2, <2>1, <3>1, <3>4, <3>5 DEF Shows
    <3>7. DOMAIN c2.val = F
      BY <1>2
    <3>8. Shows(Upd(e), c2)
      BY <1>2, <2>2, <3>1, <3>4, <3>6, <3>7 DEF Shows
    <3> QED BY <3>4, <3>8
  <2> QED BY <2>3, <2>4
<1> HIDE DEF Upd, delta
<1>5. IsList(ModList(list, c.id, f, delta), K, F)
  BY <1>3, <1>4 DEF IsList
<1>6. SoundList(ModList(list, c.id, f, delta), (entries \ {c}) \cup {c2})
  <2>1. \A e1, e2 \in list : Upd(e1).id = Upd(e2).id => e1 = e2
    BY <1>4 DEF SoundList
  <2> QED BY <1>3, <1>4, <2>1 DEF SoundList
<1>7. Ids(ModList(list, c.id, f, delta)) = Ids(list)
  BY <1>3, <1>4 DEF Ids
<1>8. Ids((entries \ {c}) \cup {c2}) = Ids(entries)
  BY <1>2 DEF Ids
<1> QED BY <1>5, <1>6, <1>7, <1>8 DEF delta

-----------------------------------------------------------------------------
(* The state of daemon, file and client *)

(* The types of TypeOK as sets, to state that log and hist are sequences.  *)
Message ==
  Marks \cup Dels \cup UNION {Refreshes(k) \cup Adds(k) \cup Mods(k) : k \in Kinds}

Lists ==
  {l \in [Kinds -> SUBSET UNION {Entry(k) : k \in Kinds}] :
     \A k \in Kinds : l[k] \subseteq Entry(k)}

History == [rep : Lists, view : Lists]

DaemonTyped ==
  /\ IsPool(pool)
  /\ made \subseteq Kinds
  /\ IsLists(cache)
  /\ broadcast \in BOOLEAN
  /\ phase \in Phases
  /\ full \in BOOLEAN
  /\ next \in 1 .. Len(Order) + 1
  /\ DOMAIN found \subseteq Key
  /\ phase \in Calling => next <= Len(Order) /\ found \in Finds(Kind)

FileTyped ==
  /\ log \in Seq(Message)
  /\ hist \in Seq(History)
  /\ Len(hist) = Len(log) + 1
  /\ flushed \in 0 .. Len(log)
  /\ told \subseteq Kinds

ClientTyped ==
  /\ stale \in BOOLEAN
  /\ ~stale => pos \in 0 .. flushed
  /\ IsLists(snap)

TypeInv == DaemonTyped /\ FileTyped /\ ClientTyped

(* A monitor fills the list of a kind once, before it logs anything of it. *)
MadeInv ==
  /\ phase = "fill" => Kind \notin made
  /\ phase \in {"refresh", "purge", "update"} => Kind \in made

PoolInv == PoolMatchesCaches /\ NeverExits

(* What a reader of the whole log shows, the buffered records included, is *)
(* in the caches; and so it was after every record.                        *)
SoundNow == phase # "down" => \A k \in Kinds : SoundList(Rep[k], cache[k])

HistSound == \A i \in DOMAIN hist : Sound(hist[i])

SoundInv == SoundNow /\ HistSound /\ AddsAreNew

(* The client's snapshot is that of a reader at its position.              *)
ClientInv ==
  /\ hist[1].rep = Empty
  /\ \A i \in DOMAIN log : hist[i + 1].rep = Decode(hist[i].rep, log[i])
  /\ ~stale => snap = hist[pos + 1].rep

(* In this poll the monitor of k is the n-th or a later one.               *)
Later(k, n) == \E i \in DOMAIN Order : Order[i] = k /\ n <= i

(* The monitor of k is still to be called in this poll, or has been called *)
(* and has not refreshed yet.                                              *)
Pending(k) ==
  /\ broadcast
  /\ Rep[k] = {}
  /\ \/ phase \in {"poll", "header"}
     \/ full /\ phase \in {"call", "fill", "refresh"} /\ Later(k, next)
     \/ full /\ phase \in {"purge", "update"} /\ Later(k, next + 1)

(* A kind whose list is always available is known to the readers of the    *)
(* file unless its first refresh is still to come ...                      *)
TellInv ==
  /\ MadeInv
  /\ told \subseteq made
  /\ ToldComplete
  /\ phase = "closed" => Rep = Empty
  /\ phase = "down" => broadcast
  /\ phase \in {"closed", "down"} => told = {}
  /\ phase \notin {"closed", "down"} =>
       \A k \in Kinds \ Contended : k \in told \/ Pending(k)

(* ... so the readers know it at the end of every block.                   *)
BlockInv ==
  \A i \in DOMAIN log :
    log[i].type = "BLOCK_END" =>
      \A k \in Kinds \ Contended :
        Ids(hist[i + 1].rep[k]) = Ids(hist[i + 1].view[k])

-----------------------------------------------------------------------------
(* Types *)

USE DEF Calling, Phases

(* The index of a monitor that can be called names a kind.                 *)
LEMMA KindTyped ==
  ASSUME NEW i \in Nat \ {0}, i <= Len(Order)
  PROVE  Order[i] \in Kinds /\ Order[i] \in ObjectKinds /\ i \in DOMAIN Order
  BY OrderAssumption DEF Kinds

(* Messages, lists and histories are sets, for the provers.                *)
LEMMA MessageSet == \A m : IsMessage(m) <=> m \in Message
  BY DEF IsMessage, Message

(* Lists.                                                                  *)
LEMMA ListsSet == \A l : IsLists(l) <=> l \in Lists
<1>1. ASSUME NEW l, IsLists(l) PROVE l \in Lists
  <2>1. \A k \in Kinds : l[k] \in SUBSET UNION {Entry(j) : j \in Kinds}
    BY <1>1 DEF IsLists
  <2>2. l = [k \in Kinds |-> l[k]]
    BY <1>1 DEF IsLists
  <2>3. l \in [Kinds -> SUBSET UNION {Entry(j) : j \in Kinds}]
    BY <2>1, <2>2
  <2> QED BY <1>1, <2>3 DEF IsLists, Lists
<1>2. ASSUME NEW l, l \in Lists PROVE IsLists(l)
  <2>1. l \in [Kinds -> SUBSET UNION {Entry(j) : j \in Kinds}]
    BY <1>2 DEF Lists
  <2>2. l = [k \in Kinds |-> l[k]]
    BY <2>1
  <2> QED BY <1>2, <2>2 DEF IsLists, Lists
<1> QED BY <1>1, <1>2

(* Histories.                                                              *)
LEMMA HistorySet == \A h : IsHistory(h) <=> h \in History
  BY ListsSet DEF IsHistory, History

(* Replacing one list of a snapshot, or of the caches.                     *)
LEMMA ListsExcept ==
  ASSUME NEW l, IsLists(l), NEW k \in Kinds, NEW S, S \subseteq Entry(k),
         NEW new, new = [l EXCEPT ![k] = S]
  PROVE  /\ IsLists(new)
         /\ new[k] = S
         /\ \A j \in Kinds \ {k} : new[j] = l[j]
<1>1. DOMAIN l = Kinds
  BY DEF IsLists
<1> QED BY <1>1 DEF IsLists

(* The empty snapshot.                                                     *)
LEMMA EmptyTyped == IsLists(Empty) /\ \A k \in Kinds : Empty[k] = {}
  BY DEF IsLists, Empty

(* A decoded message leaves a snapshot a snapshot.                         *)
LEMMA DecodeTyped ==
  ASSUME NEW s, IsLists(s), NEW m, IsMessage(m), NEW d, d = Decode(s, m)
  PROVE  IsLists(d)
<1>0. DOMAIN s = Kinds /\ \A k \in Kinds : s[k] \subseteq Entry(k)
  BY DEF IsLists
<1>1. CASE m \in Marks
  <2>1. CASE m.type = "LAST_RECORD"
    <3>1. d = [k \in Kinds |-> {}]
      BY <1>0, <2>1 DEF Decode
    <3> QED BY <3>1 DEF IsLists
  <2>2. CASE m.type # "LAST_RECORD"
    BY <1>1, <2>2 DEF Decode, Marks
  <2> QED BY <2>1, <2>2
<1>2. CASE m \in Dels
  <2>1. m.kind \in Kinds /\ d = [s EXCEPT ![m.kind] = DelList(s[m.kind], m.id)]
    BY <1>2 DEF Decode, Dels
  <2>2. DelList(s[m.kind], m.id) \subseteq Entry(m.kind)
    BY <1>0, <2>1 DEF DelList
  <2> QED BY <1>0, <2>1, <2>2 DEF IsLists
<1>3. ASSUME NEW k \in Kinds, m \in Refreshes(k)
      PROVE  IsLists(d)
  <2>1. d = [s EXCEPT ![k] = RefreshList(k, s[k], m.objs)]
    BY <1>3 DEF Decode, Refreshes
  <2>2. RefreshList(k, s[k], m.objs) \subseteq Entry(k)
    <3>1. m.objs \subseteq Entry(k) /\ s[k] \subseteq Entry(k)
      BY <1>0, <1>3 DEF Refreshes
    <3>2. ASSUME NEW e \in s[k], \E o \in m.objs : o.id = e.id
          PROVE  [e EXCEPT !.val = (CHOOSE o \in m.objs : o.id = e.id).val] \in Entry(k)
      <4>1. (CHOOSE o \in m.objs : o.id = e.id) \in Entry(k)
        BY <3>1, <3>2
      <4> QED BY <3>1, <4>1 DEF Entry
    <3> QED BY <3>1, <3>2 DEF RefreshList
  <2> QED BY <1>0, <2>1, <2>2 DEF IsLists
<1>4. ASSUME NEW k \in Kinds, m \in Adds(k)
      PROVE  IsLists(d)
  <2>1. d = [s EXCEPT ![k] = AddList(s[k], m.obj)]
    BY <1>4 DEF Decode, Adds
  <2>2. AddList(s[k], m.obj) \subseteq Entry(k)
    BY <1>0, <1>4 DEF AddList, Adds
  <2> QED BY <1>0, <2>1, <2>2 DEF IsLists
<1>5. ASSUME NEW k \in Kinds, m \in Mods(k)
      PROVE  IsLists(d)
  <2>1. d = [s EXCEPT ![k] = ModList(s[k], m.id, m.field, m.delta)]
    BY <1>5 DEF Decode, Mods
  <2>2. ModList(s[k], m.id, m.field, m.delta) \subseteq Entry(k)
    <3>1. ASSUME NEW e \in s[k], NEW new,
                 new = [e EXCEPT !.val =
                          [@ EXCEPT ![m.field] = Changed(m.field, e.val[m.field], m.delta)]]
          PROVE  new \in Entry(k)
      <4>1. /\ e \in [key : Key, id : Nat, val : [Fields[k] -> Int]]
            /\ m.field \in Fields[k]
            /\ m.delta \in Int
        BY <1>0, <1>5 DEF Entry, Val, Mods
      <4>2. Changed(m.field, e.val[m.field], m.delta) \in Int
        BY <4>1, ChangedAtLeast
      <4> QED BY <3>1, <4>1, <4>2, EntryExcept DEF Entry, Val
    <3> QED BY <1>0, <3>1 DEF ModList
  <2> QED BY <1>0, <2>1, <2>2 DEF IsLists
<1> QED BY <1>1, <1>2, <1>3, <1>4, <1>5 DEF IsMessage

LEMMA TypeInvTypeOK == TypeInv => TypeOK
<1> SUFFICES ASSUME TypeInv PROVE TypeOK
  OBVIOUS
<1>1. \A i \in DOMAIN log : IsMessage(log[i])
  BY MessageSet DEF TypeInv, FileTyped
<1>2. \A i \in DOMAIN hist : IsHistory(hist[i])
  BY HistorySet DEF TypeInv, FileTyped
<1> QED BY <1>1, <1>2 DEF TypeInv, DaemonTyped, FileTyped, ClientTyped, TypeOK, IsPool

(* The last snapshot of the history.                                       *)
LEMMA RepTyped ==
  ASSUME TypeInv
  PROVE  /\ Len(hist) \in DOMAIN hist
         /\ IsLists(Rep)
         /\ hist[Len(hist)].rep = Rep
<1>1. Len(hist) \in DOMAIN hist /\ hist[Len(hist)] \in History
  BY DEF TypeInv, FileTyped
<1> QED BY <1>1, ListsSet DEF History, Rep

(* A record more at the end of the log, everything else as it was.         *)
LEMMA WriteEffect ==
  ASSUME TypeInv, NEW m, IsMessage(m), NEW view, IsLists(view), Write(m, view)
  PROVE  /\ log' \in Seq(Message)
         /\ hist' \in Seq(History)
         /\ Len(log') = Len(log) + 1
         /\ Len(hist') = Len(hist) + 1
         /\ DOMAIN log' = 1 .. Len(log) + 1
         /\ DOMAIN hist' = 1 .. Len(hist) + 1
         /\ \A i \in DOMAIN log : log'[i] = log[i]
         /\ \A i \in DOMAIN hist : hist'[i] = hist[i]
         /\ log'[Len(log) + 1] = m
         /\ hist'[Len(hist) + 1] = [rep |-> Decode(Rep, m), view |-> view]
         /\ Rep' = Decode(Rep, m)
         /\ IsLists(Rep')
<1> DEFINE d == Decode(Rep, m)
<1>1. IsLists(d)
  BY RepTyped, DecodeTyped
<1> HIDE DEF d
<1> DEFINE h == [rep |-> d, view |-> view]
<1>2. m \in Message /\ h \in History
  BY <1>1, MessageSet, ListsSet DEF History
<1>3. log' = Append(log, m) /\ hist' = Append(hist, h)
  BY DEF Write, d
<1> HIDE DEF h
<1>4. log \in Seq(Message) /\ hist \in Seq(History)
  BY DEF TypeInv, FileTyped
<1>5. /\ log' \in Seq(Message)
      /\ Len(log') = Len(log) + 1
      /\ DOMAIN log' = 1 .. Len(log) + 1
      /\ \A i \in DOMAIN log : log'[i] = log[i]
      /\ log'[Len(log) + 1] = m
  BY <1>2, <1>3, <1>4
<1>6. /\ hist' \in Seq(History)
      /\ Len(hist') = Len(hist) + 1
      /\ DOMAIN hist' = 1 .. Len(hist) + 1
      /\ \A i \in DOMAIN hist : hist'[i] = hist[i]
      /\ hist'[Len(hist) + 1] = h
  BY <1>2, <1>3, <1>4
<1>7. Rep' = d
  BY <1>6 DEF Rep, h
<1> QED BY <1>1, <1>5, <1>6, <1>7 DEF d, h

(* A log file as enigmatic_log_open leaves it.                             *)
LEMMA OpenLogTyped ==
  ASSUME NEW view, IsLists(view), OpenLog(view)
  PROVE  /\ FileTyped'
         /\ log' = <<>>
         /\ hist' = <<[rep |-> Empty, view |-> view]>>
         /\ stale'
<1> DEFINE h == [rep |-> Empty, view |-> view]
<1>1. h \in History
  BY EmptyTyped, ListsSet DEF History
<1>2. log' = <<>> /\ hist' = <<h>> /\ flushed' = 0 /\ told' = {} /\ stale'
  BY DEF OpenLog
<1> HIDE DEF h
<1>3. hist' \in Seq(History) /\ Len(hist') = 1
  BY <1>1, <1>2
<1>4. log' \in Seq(Message) /\ Len(log') = 0
  BY <1>2
<1> QED BY <1>2, <1>3, <1>4 DEF FileTyped, h

(* The first elements of a sequence.                                       *)
LEMMA Prefix ==
  ASSUME NEW S, NEW s \in Seq(S), NEW n \in 0 .. Len(s)
  PROVE  /\ SubSeq(s, 1, n) \in Seq(S)
         /\ Len(SubSeq(s, 1, n)) = n
         /\ \A i \in 1 .. n : SubSeq(s, 1, n)[i] = s[i]
  OBVIOUS

(* The log cut back to what had reached the disk.                          *)
LEMMA CutTyped ==
  ASSUME TypeInv, log' = SubSeq(log, 1, flushed), hist' = SubSeq(hist, 1, flushed + 1)
  PROVE  /\ log' \in Seq(Message)
         /\ hist' \in Seq(History)
         /\ Len(log') = flushed
         /\ Len(hist') = flushed + 1
         /\ \A i \in 1 .. flushed : log'[i] = log[i]
         /\ \A i \in 1 .. flushed + 1 : hist'[i] = hist[i]
<1>1. /\ log \in Seq(Message) /\ flushed \in 0 .. Len(log)
      /\ hist \in Seq(History) /\ flushed + 1 \in 0 .. Len(hist)
  BY DEF TypeInv, FileTyped
<1> QED BY <1>1, Prefix

(* An object that was found makes an entry of the kind.                    *)
LEMMA FoundTyped ==
  ASSUME TypeInv, phase \in Calling, NEW key \in DOMAIN found, NEW id \in Nat
  PROVE  /\ Kind \in Kinds
         /\ found[key] \in Val(Kind)
         /\ [key |-> key, id |-> id, val |-> found[key]] \in Entry(Kind)
<1>1. Kind \in Kinds
  BY KindTyped DEF TypeInv, DaemonTyped, Kind
<1>2. found \in Finds(Kind)
  BY DEF TypeInv, DaemonTyped
<1>3. PICK S \in SUBSET Key : found \in [S -> [Fields[Kind] -> Value[Kind]]]
  BY <1>2 DEF Finds
<1>4. key \in Key /\ found[key] \in [Fields[Kind] -> Value[Kind]]
  BY <1>3
<1>5. found[key] \in Val(Kind)
  BY <1>1, <1>4, ValueAssumption DEF Val
<1> QED BY <1>1, <1>4, <1>5 DEF Entry

(* The records that the daemon writes.                                     *)
LEMMA MarkMessage ==
  /\ IsMessage([type |-> "BROADCAST"])
  /\ IsMessage([type |-> "BLOCK_END"])
  /\ IsMessage([type |-> "LAST_RECORD"])
  BY DEF IsMessage, Marks

(* The messages that are written, one by one.                              *)
LEMMA RefreshMessage ==
  ASSUME NEW k \in Kinds, NEW objs, objs \subseteq Entry(k)
  PROVE  IsMessage([type |-> "REFRESH", kind |-> k, objs |-> objs])
  BY DEF IsMessage, Refreshes

(* An add.                                                                 *)
LEMMA AddMessage ==
  ASSUME NEW k \in Kinds, NEW obj \in Entry(k)
  PROVE  IsMessage([type |-> "ADD", kind |-> k, obj |-> obj])
  BY DEF IsMessage, Adds

(* A difference.                                                           *)
LEMMA ModMessage ==
  ASSUME NEW k \in Kinds, NEW id \in Nat, NEW f \in Fields[k], NEW delta \in Int
  PROVE  IsMessage([type |-> "MOD", kind |-> k, id |-> id, field |-> f, delta |-> delta])
  BY DEF IsMessage, Mods

(* A delete.                                                               *)
LEMMA DelMessage ==
  ASSUME NEW k \in Kinds, NEW id \in Nat
  PROVE  IsMessage([type |-> "DEL", kind |-> k, id |-> id])
  BY DEF IsMessage, Dels

LEMMA TypeInit == Init => TypeInv
<1> SUFFICES ASSUME Init PROVE TypeInv
  OBVIOUS
<1>1. DaemonTyped
  <2>1. pool \in Seq(Slot) /\ IsPool(pool)
    BY DEF Init, IsPool
  <2>2. Len(Order) \in Nat
    BY OrderAssumption
  <2>3. IsLists(cache)
    BY EmptyTyped DEF Init
  <2>4. next \in 1 .. Len(Order) + 1 /\ DOMAIN found \subseteq Key
    BY <2>2 DEF Init
  <2>5. broadcast \in BOOLEAN /\ full \in BOOLEAN /\ made \subseteq Kinds
    BY DEF Init
  <2>6. phase \in Phases /\ phase \notin Calling
    BY DEF Init
  <2> QED BY <2>1, <2>3, <2>4, <2>5, <2>6 DEF DaemonTyped
<1>2. FileTyped
  <2> DEFINE h == [rep |-> Empty, view |-> Empty]
  <2>1. h \in History
    BY EmptyTyped, ListsSet DEF History
  <2>2. hist = <<h>> /\ log = <<>> /\ flushed = 0 /\ told = {}
    BY DEF Init
  <2> HIDE DEF h
  <2> QED BY <2>1, <2>2 DEF FileTyped
<1>3. ClientTyped
  <2>1. IsLists(snap)
    BY EmptyTyped DEF Init
  <2>2. stale \in BOOLEAN
    BY DEF Init
  <2>3. pos = 0 /\ flushed = 0
    BY DEF Init
  <2> QED BY <2>1, <2>2, <2>3 DEF ClientTyped
<1> QED BY <1>1, <1>2, <1>3 DEF TypeInv

(* The client's types survive what only makes more of the file readable.   *)
LEMMA ClientTypedGrows ==
  ASSUME TypeInv, UNCHANGED clientVars, flushed' \in Nat, flushed <= flushed'
  PROVE  ClientTyped'
  BY DEF TypeInv, ClientTyped, FileTyped, clientVars

(* Writing a record keeps the types of the file.                           *)
LEMMA FileTypedWrite ==
  ASSUME TypeInv, NEW m, IsMessage(m), NEW view, IsLists(view), Write(m, view),
         flushed' \in {flushed, Len(log')}, told' \subseteq Kinds
  PROVE  FileTyped' /\ flushed' \in Nat /\ flushed <= flushed'
<1>1. Len(log) \in Nat /\ flushed \in 0 .. Len(log) /\ Len(hist) = Len(log) + 1
  BY DEF TypeInv, FileTyped
<1>2. /\ log' \in Seq(Message) /\ Len(log') = Len(log) + 1
      /\ hist' \in Seq(History) /\ Len(hist') = Len(hist) + 1
  BY WriteEffect
<1> QED BY <1>1, <1>2 DEF FileTyped

(* Each action keeps the types.                                            *)
LEMMA TypeStep == TypeInv /\ [Next]_vars => TypeInv'
<1> SUFFICES ASSUME TypeInv, [Next]_vars PROVE TypeInv'
  OBVIOUS
<1> USE DEF TypeInv
<1>a. /\ IsLists(cache) /\ IsLists(Empty)
      /\ Len(Order) \in Nat /\ next \in 1 .. Len(Order) + 1
  BY EmptyTyped, OrderAssumption DEF DaemonTyped
<1>b. flushed \in Nat /\ Len(log) \in Nat /\ flushed <= Len(log) /\ Len(hist) = Len(log) + 1
  BY DEF FileTyped
<1>c. ASSUME phase \in Calling PROVE Kind \in Kinds /\ cache[Kind] \subseteq Entry(Kind)
  <2>1. Kind \in Kinds
    BY <1>c, KindTyped DEF DaemonTyped, Kind
  <2> QED BY <1>a, <2>1 DEF IsLists
<1>1. CASE UNCHANGED vars
  BY <1>1 DEF vars, daemonVars, fileVars, clientVars, DaemonTyped, FileTyped, ClientTyped,
              Rep, Kind
<1>2. CASE RotateClose
  <2>1. FileTyped' /\ flushed' \in Nat /\ flushed <= flushed'
    BY <1>a, <1>2, MarkMessage, FileTypedWrite DEF RotateClose
  <2>2. DaemonTyped'
    BY <1>2 DEF RotateClose, DaemonTyped
  <2> QED BY <1>2, <2>1, <2>2, ClientTypedGrows DEF RotateClose
<1>3. CASE RotateOpen
  <2>1. FileTyped' /\ stale'
    BY <1>a, <1>3, OpenLogTyped DEF RotateOpen
  <2>2. DaemonTyped'
    BY <1>3 DEF RotateOpen, DaemonTyped
  <2>3. ClientTyped'
    BY <1>3, <2>1 DEF RotateOpen, ClientTyped
  <2> QED BY <2>1, <2>2, <2>3
<1>4. CASE PollFull
  <2>1. FileTyped' /\ flushed' \in Nat /\ flushed <= flushed'
    <3>1. CASE broadcast
      BY <1>a, <1>4, <3>1, MarkMessage, FileTypedWrite DEF PollFull, FileTyped
    <3>2. CASE ~broadcast
      BY <1>b, <1>4, <3>2 DEF PollFull, FileTyped
    <3> QED BY <3>1, <3>2
  <2>2. DaemonTyped'
    BY <1>a, <1>4 DEF PollFull, DaemonTyped
  <2> QED BY <1>4, <2>1, <2>2, ClientTypedGrows DEF PollFull
<1>5. CASE PollShort
  <2>1. FileTyped' /\ flushed' = flushed
    BY <1>5 DEF PollShort, fileVars, FileTyped
  <2>2. DaemonTyped'
    <3>1. \A i \in DOMAIN Order : i \in 1 .. Len(Order) + 1
      BY <1>a, OrderAssumption
    <3>2. next' \in 1 .. Len(Order) + 1 /\ phase' \in {"call", "crush"}
      BY <1>a, <1>5, <3>1 DEF PollShort
    <3> QED BY <1>5, <3>2 DEF PollShort, DaemonTyped
  <2> QED BY <1>b, <1>5, <2>1, <2>2, ClientTypedGrows DEF PollShort
<1>6. CASE CallSkipped
  <2>1. FileTyped' /\ flushed' = flushed
    BY <1>6 DEF CallSkipped, fileVars, FileTyped
  <2>2. DaemonTyped'
    BY <1>a, <1>6 DEF CallSkipped, Return, DaemonTyped
  <2> QED BY <1>b, <1>6, <2>1, <2>2, ClientTypedGrows DEF CallSkipped
<1>7. CASE Call
  <2>1. FileTyped' /\ flushed' = flushed
    BY <1>7 DEF Call, fileVars, FileTyped
  <2>2. DaemonTyped'
    <3>1. DOMAIN found' \subseteq Key
      BY <1>7 DEF Call, Finds
    <3> QED BY <1>a, <1>7, <3>1 DEF Call, DaemonTyped, Kind
  <2> QED BY <1>b, <1>7, <2>1, <2>2, ClientTypedGrows DEF Call
<1>8. CASE Fill
  <2>1. FileTyped' /\ flushed' = flushed
    BY <1>8 DEF Fill, fileVars, FileTyped
  <2>2. PICK key \in DOMAIN found :
          /\ cache' = [cache EXCEPT ![Kind] = @ \cup
               {[key |-> key, id |-> FindId(pool), val |-> found[key]]}]
          /\ pool' = Find(pool)
    BY <1>8 DEF Fill
  <2>3. IsPool(pool') /\ FindId(pool) \in Nat
    BY <2>2, FindTakesFreeId DEF DaemonTyped
  <2>4. IsLists(cache')
    <3>1. [key |-> key, id |-> FindId(pool), val |-> found[key]] \in Entry(Kind)
      BY <1>8, <2>3, FoundTyped DEF Fill
    <3>2. cache[Kind] \cup {[key |-> key, id |-> FindId(pool), val |-> found[key]]}
            \subseteq Entry(Kind)
      BY <1>8, <1>c, <3>1 DEF Fill
    <3>3. Kind \in Kinds
      BY <1>8, <1>c DEF Fill
    <3> QED BY <1>a, <2>2, <3>2, <3>3, ListsExcept
  <2>5. DaemonTyped'
    BY <1>8, <2>3, <2>4 DEF Fill, DaemonTyped, Kind
  <2> QED BY <1>b, <1>8, <2>1, <2>5, ClientTypedGrows DEF Fill
<1>9. CASE FillDone
  <2>1. FileTyped' /\ flushed' = flushed
    BY <1>9 DEF FillDone, fileVars, FileTyped
  <2>2. DaemonTyped'
    BY <1>9, <1>c DEF FillDone, DaemonTyped, Kind
  <2> QED BY <1>b, <1>9, <2>1, <2>2, ClientTypedGrows DEF FillDone
<1>10. CASE Refresh
  <2>1. told' \subseteq Kinds
    BY <1>10, <1>c DEF Refresh, FileTyped
  <2>2. FileTyped' /\ flushed' \in Nat /\ flushed <= flushed'
    <3>1. CASE broadcast /\ cache[Kind] # {}
      <4>1. IsMessage([type |-> "REFRESH", kind |-> Kind, objs |-> cache[Kind]])
        BY <1>10, <1>c, RefreshMessage DEF Refresh
      <4> QED BY <1>10, <1>a, <2>1, <3>1, <4>1, FileTypedWrite DEF Refresh
    <3>2. CASE ~(broadcast /\ cache[Kind] # {})
      BY <1>10, <1>b, <2>1, <3>2 DEF Refresh, FileTyped
    <3> QED BY <3>1, <3>2
  <2>3. DaemonTyped'
    BY <1>10 DEF Refresh, DaemonTyped, Kind
  <2> QED BY <1>10, <2>2, <2>3, ClientTypedGrows DEF Refresh
<1>11. CASE Purge
  <2>1. PICK e \in cache[Kind] :
          /\ cache' = [cache EXCEPT ![Kind] = @ \ {e}]
          /\ Write([type |-> "DEL", kind |-> Kind, id |-> e.id], cache')
          /\ IF Known(pool, e.id)
             THEN pool' = Release(pool, e.id) /\ phase' = phase
             ELSE pool' = pool /\ phase' = "exited"
    BY <1>11 DEF Purge
  <2>2. IsLists(cache')
    BY <1>11, <1>a, <1>c, <2>1, ListsExcept DEF Purge
  <2>3. FileTyped' /\ flushed' \in Nat /\ flushed <= flushed'
    <3>1. e.id \in Nat
      BY <1>11, <1>c DEF Purge, Entry
    <3>2. IsMessage([type |-> "DEL", kind |-> Kind, id |-> e.id])
      BY <1>11, <1>c, <3>1, DelMessage DEF Purge
    <3> QED BY <1>11, <2>1, <2>2, <3>2, FileTypedWrite DEF Purge, FileTyped
  <2>4. IsPool(pool')
    BY <2>1, ReleaseFreesId DEF DaemonTyped
  <2>5. DaemonTyped'
    BY <1>11, <2>1, <2>2, <2>4 DEF Purge, DaemonTyped, Kind
  <2> QED BY <1>11, <2>3, <2>5, ClientTypedGrows DEF Purge
<1>12. CASE PurgeDone
  <2>1. FileTyped' /\ flushed' = flushed
    BY <1>12 DEF PurgeDone, fileVars, FileTyped
  <2>2. DaemonTyped'
    BY <1>12 DEF PurgeDone, DaemonTyped, Kind
  <2> QED BY <1>b, <1>12, <2>1, <2>2, ClientTypedGrows DEF PurgeDone
<1>13. CASE Add
  <2> DEFINE E(key) == [key |-> key, id |-> FindId(pool), val |-> found[key]]
  <2>1. PICK key \in DOMAIN found :
          /\ cache' = [cache EXCEPT ![Kind] = @ \cup {E(key)}]
          /\ pool' = Find(pool)
          /\ Write([type |-> "ADD", kind |-> Kind, obj |-> E(key)], cache')
    BY <1>13 DEF Add
  <2>2. IsPool(pool') /\ FindId(pool) \in Nat
    BY <2>1, FindTakesFreeId DEF DaemonTyped
  <2>3. E(key) \in Entry(Kind)
    BY <1>13, <2>2, FoundTyped DEF Add
  <2> HIDE DEF E
  <2>4. IsLists(cache')
    <3>1. cache[Kind] \cup {E(key)} \subseteq Entry(Kind) /\ Kind \in Kinds
      BY <1>13, <1>c, <2>3 DEF Add
    <3> QED BY <1>a, <2>1, <3>1, ListsExcept
  <2>5. FileTyped' /\ flushed' \in Nat /\ flushed <= flushed'
    <3>1. IsMessage([type |-> "ADD", kind |-> Kind, obj |-> E(key)])
      BY <1>13, <1>c, <2>3, AddMessage DEF Add
    <3> QED BY <1>13, <2>1, <2>4, <3>1, FileTypedWrite DEF Add, FileTyped
  <2>6. DaemonTyped'
    BY <1>13, <2>2, <2>4 DEF Add, DaemonTyped, Kind
  <2> QED BY <1>13, <2>5, <2>6, ClientTypedGrows DEF Add
<1>14. CASE Mod
  <2>1. PICK e \in cache[Kind], f \in Fields[Kind] :
          /\ e.key \in DOMAIN found
          /\ cache' = [cache EXCEPT ![Kind] =
               (@ \ {e}) \cup {[e EXCEPT !.val = [@ EXCEPT ![f] = found[e.key][f]]]}]
          /\ Write([type |-> "MOD", kind |-> Kind, id |-> e.id, field |-> f,
                    delta |-> found[e.key][f] - e.val[f]], cache')
    BY <1>14 DEF Mod
  <2>2. Kind \in Kinds /\ e \in Entry(Kind) /\ e.id \in Nat /\ e.val[f] \in Int
    BY <1>14, <1>c DEF Mod, Entry, Val
  <2>3. found[e.key][f] \in Int
    BY <1>14, <2>1, FoundTyped DEF Mod, Val
  <2> DEFINE e2 == [e EXCEPT !.val = [@ EXCEPT ![f] = found[e.key][f]]]
  <2>4. e2 \in Entry(Kind)
    BY <2>2, <2>3, EntryExcept DEF Entry, Val
  <2>5. cache' = [cache EXCEPT ![Kind] = (@ \ {e}) \cup {e2}]
    BY <2>1
  <2> HIDE DEF e2
  <2>6. IsLists(cache')
    <3>1. (cache[Kind] \ {e}) \cup {e2} \subseteq Entry(Kind)
      BY <1>14, <1>c, <2>4 DEF Mod
    <3> QED BY <1>a, <2>2, <2>5, <3>1, ListsExcept
  <2>7. FileTyped' /\ flushed' \in Nat /\ flushed <= flushed'
    <3>1. IsMessage([type |-> "MOD", kind |-> Kind, id |-> e.id, field |-> f,
                     delta |-> found[e.key][f] - e.val[f]])
      BY <2>2, <2>3, ModMessage
    <3> QED BY <1>14, <2>1, <2>6, <3>1, FileTypedWrite DEF Mod, FileTyped
  <2>8. DaemonTyped'
    BY <1>14, <2>6 DEF Mod, DaemonTyped, Kind
  <2> QED BY <1>14, <2>7, <2>8, ClientTypedGrows DEF Mod
<1>15. CASE UpdateDone
  <2>1. FileTyped' /\ flushed' = flushed
    BY <1>15 DEF UpdateDone, fileVars, FileTyped
  <2>2. DaemonTyped'
    BY <1>a, <1>15 DEF UpdateDone, Return, DaemonTyped
  <2> QED BY <1>b, <1>15, <2>1, <2>2, ClientTypedGrows DEF UpdateDone
<1>16. CASE BlockEnd
  <2>1. FileTyped' /\ flushed' \in Nat /\ flushed <= flushed'
    BY <1>a, <1>16, MarkMessage, FileTypedWrite DEF BlockEnd, FileTyped
  <2>2. DaemonTyped'
    BY <1>16 DEF BlockEnd, DaemonTyped
  <2> QED BY <1>16, <2>1, <2>2, ClientTypedGrows DEF BlockEnd
<1>17. CASE Crush
  <2>1. FileTyped' /\ flushed' \in Nat /\ flushed <= flushed'
    BY <1>b, <1>17 DEF Crush, FileTyped
  <2>2. DaemonTyped'
    BY <1>17 DEF Crush, DaemonTyped
  <2> QED BY <1>17, <2>1, <2>2, ClientTypedGrows DEF Crush
<1>d. ASSUME Fresh, phase' = "down" PROVE DaemonTyped'
  <2>1. IsPool(pool')
    BY <1>d DEF Fresh, IsPool
  <2>2. IsLists(cache') /\ DOMAIN found' \subseteq Key /\ next' \in 1 .. Len(Order) + 1
    BY <1>a, <1>d DEF Fresh
  <2> QED BY <1>d, <2>1, <2>2 DEF Fresh, DaemonTyped
<1>18. CASE Stop
  <2>1. FileTyped' /\ flushed' \in Nat /\ flushed <= flushed'
    BY <1>a, <1>18, MarkMessage, FileTypedWrite DEF Stop
  <2>2. DaemonTyped'
    BY <1>18, <1>d DEF Stop
  <2> QED BY <1>18, <2>1, <2>2, ClientTypedGrows DEF Stop
<1>19. CASE Crash
  <2>1. FileTyped' /\ flushed' = flushed
    BY <1>b, <1>19, CutTyped DEF Crash, FileTyped
  <2>2. DaemonTyped'
    BY <1>19, <1>d DEF Crash
  <2> QED BY <1>b, <1>19, <2>1, <2>2, ClientTypedGrows DEF Crash
<1>20. CASE Start
  <2>1. FileTyped' /\ stale'
    BY <1>a, <1>20, OpenLogTyped DEF Start
  <2>2. DaemonTyped'
    BY <1>20 DEF Start, DaemonTyped
  <2>3. ClientTyped'
    BY <1>20, <2>1 DEF Start, ClientTyped
  <2> QED BY <2>1, <2>2, <2>3
<1>21. CASE ClientRead
  <2>1. FileTyped' /\ DaemonTyped'
    BY <1>21 DEF ClientRead, fileVars, daemonVars, FileTyped, DaemonTyped, Kind
  <2>2. IsLists(snap')
    <3>1. pos + 1 \in DOMAIN log
      BY <1>b, <1>21 DEF ClientRead, ClientTyped, FileTyped
    <3>2. IsMessage(log[pos + 1]) /\ IsLists(snap)
      BY <3>1, MessageSet DEF FileTyped, ClientTyped
    <3> QED BY <1>21, <3>2, DecodeTyped DEF ClientRead
  <2>3. pos' \in 0 .. flushed'
    BY <1>b, <1>21 DEF ClientRead, ClientTyped, fileVars
  <2> QED BY <1>21, <2>1, <2>2, <2>3 DEF ClientRead, ClientTyped
<1>22. CASE ClientReset
  <2>1. FileTyped' /\ DaemonTyped'
    BY <1>22 DEF ClientReset, fileVars, daemonVars, FileTyped, DaemonTyped, Kind
  <2>2. pos' \in 0 .. flushed'
    BY <1>b, <1>22 DEF ClientReset, fileVars
  <2> QED BY <1>a, <1>22, <2>1, <2>2 DEF ClientReset, ClientTyped
<1> QED BY <1>1, <1>2, <1>3, <1>4, <1>5, <1>6, <1>7, <1>8, <1>9, <1>10, <1>11, <1>12,
           <1>13, <1>14, <1>15, <1>16, <1>17, <1>18, <1>19, <1>20, <1>21, <1>22 DEF Next

LEMMA Typing == Spec => []TypeInv
  BY TypeInit, TypeStep, PTL DEF Spec

(* Every variable of the daemon, the file and the client keeps its type,   *)
(* and a client that is not stale is never past the end of the file.       *)
THEOREM TypeCorrect == Spec => []TypeOK
  BY Typing, TypeInvTypeOK, PTL

-----------------------------------------------------------------------------
(* Ids *)

(* PoolMatchesCaches, id by id: what it says of a state ...                *)
LEMMA PoolMatches ==
  PoolMatchesCaches =>
    /\ \A x : x \in Taken(pool) <=> \E k \in Kinds : \E e \in cache[k] : x = e.id
    /\ \A k1, k2 \in Kinds : \A e1 \in cache[k1], e2 \in cache[k2] :
         e1.id = e2.id => k1 = k2 /\ e1 = e2
  BY DEF PoolMatchesCaches, Ids

(* ... and what shows that the next state has it.                          *)
LEMMA IdByIdPrimed ==
  ASSUME \A x : x \in Taken(pool') <=> \E k \in Kinds : \E e \in cache'[k] : x = e.id,
         \A k1, k2 \in Kinds : \A e1 \in cache'[k1], e2 \in cache'[k2] :
           e1.id = e2.id => k1 = k2 /\ e1 = e2
  PROVE  PoolMatchesCaches'
<1>1. Taken(pool') = UNION {Ids(cache'[k]) : k \in Kinds}
  BY DEF Ids
<1> QED BY <1>1 DEF PoolMatchesCaches

(* The kind whose monitor is working on its list.                          *)
LEMMA KindWorking ==
  ASSUME TypeInv, phase \in Calling
  PROVE  /\ Kind \in Kinds
         /\ cache[Kind] \subseteq Entry(Kind)
         /\ IsList(cache[Kind], Key, Fields[Kind])
<1>1. Kind \in Kinds /\ IsLists(cache)
  BY KindTyped DEF TypeInv, DaemonTyped, Kind
<1>2. cache[Kind] \subseteq Entry(Kind)
  BY <1>1 DEF IsLists
<1> QED BY <1>1, <1>2 DEF Entry, Val, IsList

(* Fill and Add: a new object gets an id that no live object has.          *)
LEMMA NewObject ==
  ASSUME TypeInv, PoolMatchesCaches, NEW k \in Kinds, NEW e, e.id = FindId(pool),
         cache' = [cache EXCEPT ![k] = @ \cup {e}], pool' = Find(pool)
  PROVE  /\ PoolMatchesCaches'
         /\ \A j \in Kinds : e.id \notin Ids(cache[j])
         /\ cache'[k] = cache[k] \cup {e}
         /\ \A j \in Kinds \ {k} : cache'[j] = cache[j]
<1>1. /\ cache'[k] = cache[k] \cup {e}
      /\ \A j \in Kinds \ {k} : cache'[j] = cache[j]
  BY DEF TypeInv, DaemonTyped, IsLists
<1>2. /\ FindId(pool) \notin Taken(pool)
      /\ Taken(pool') = Taken(pool) \cup {FindId(pool)}
  BY FindTakesFreeId DEF TypeInv, DaemonTyped
<1>3. \A j \in Kinds : \A o \in cache[j] : o.id # e.id
  BY <1>2, PoolMatches
<1>4. \A x : x \in Taken(pool') <=> \E j \in Kinds : \E o \in cache'[j] : x = o.id
  BY <1>1, <1>2, PoolMatches
<1>5. \A k1, k2 \in Kinds : \A e1 \in cache'[k1], e2 \in cache'[k2] :
        e1.id = e2.id => k1 = k2 /\ e1 = e2
  BY <1>1, <1>3, PoolMatches
<1>6. PoolMatchesCaches'
  BY <1>4, <1>5, IdByIdPrimed
<1> QED BY <1>1, <1>3, <1>6 DEF Ids

(* Purge: the id of an object that goes away is free again.                *)
LEMMA OldObject ==
  ASSUME TypeInv, PoolMatchesCaches, NEW k \in Kinds, NEW e \in cache[k],
         cache' = [cache EXCEPT ![k] = @ \ {e}], pool' = Release(pool, e.id)
  PROVE  PoolMatchesCaches'
<1>1. /\ cache'[k] = cache[k] \ {e}
      /\ \A j \in Kinds \ {k} : cache'[j] = cache[j]
  BY DEF TypeInv, DaemonTyped, IsLists
<1>2. e.id \in Taken(pool)
  BY PoolMatches
<1>3. Taken(pool') = Taken(pool) \ {e.id}
  BY <1>2, TakenKnown, ReleaseFreesId DEF TypeInv, DaemonTyped
<1>4. \A x : x \in Taken(pool') <=> \E j \in Kinds : \E o \in cache'[j] : x = o.id
  <2>1. ASSUME NEW j \in Kinds, NEW o \in cache'[j] PROVE o.id \in Taken(pool')
    <3>1. o \in cache[j] /\ ~(j = k /\ o = e)
      BY <1>1
    <3>2. o.id # e.id
      BY <3>1, PoolMatches
    <3> QED BY <1>3, <3>1, <3>2, PoolMatches
  <2>2. ASSUME NEW x \in Taken(pool') PROVE \E j \in Kinds : \E o \in cache'[j] : x = o.id
    <3>1. PICK j \in Kinds : \E o \in cache[j] : x = o.id
      BY <1>3, PoolMatches
    <3>2. PICK o \in cache[j] : x = o.id
      BY <3>1
    <3>3. o # e
      BY <1>3, <3>2
    <3> QED BY <1>1, <3>2, <3>3
  <2> QED BY <2>1, <2>2
<1>5. \A k1, k2 \in Kinds : \A e1 \in cache'[k1], e2 \in cache'[k2] :
        e1.id = e2.id => k1 = k2 /\ e1 = e2
  BY <1>1, PoolMatches
<1> QED BY <1>4, <1>5, IdByIdPrimed

(* Mod: an object keeps its id.                                            *)
LEMMA SameObject ==
  ASSUME TypeInv, PoolMatchesCaches, NEW k \in Kinds, NEW e \in cache[k],
         NEW n, n.id = e.id,
         cache' = [cache EXCEPT ![k] = (@ \ {e}) \cup {n}], pool' = pool
  PROVE  PoolMatchesCaches'
<1>1. /\ cache'[k] = (cache[k] \ {e}) \cup {n}
      /\ \A j \in Kinds \ {k} : cache'[j] = cache[j]
  BY DEF TypeInv, DaemonTyped, IsLists
<1>2. \A x : x \in Taken(pool') <=> \E j \in Kinds : \E o \in cache'[j] : x = o.id
  BY <1>1, PoolMatches
<1>3. \A k1, k2 \in Kinds : \A e1 \in cache'[k1], e2 \in cache'[k2] :
        e1.id = e2.id => k1 = k2 /\ e1 = e2
  BY <1>1, PoolMatches
<1> QED BY <1>2, <1>3, IdByIdPrimed

(* A fresh process has no object and no id.                                *)
LEMMA FreshPool ==
  ASSUME Fresh
  PROVE  PoolMatchesCaches'
<1>1. pool' = <<>> /\ \A k \in Kinds : cache'[k] = {}
  BY EmptyTyped DEF Fresh
<1>2. Taken(pool') = {}
  BY <1>1 DEF Taken
<1> QED BY <1>1, <1>2, IdByIdPrimed

LEMMA PoolInit == Init => PoolInv
<1> SUFFICES ASSUME Init PROVE PoolInv
  OBVIOUS
<1>1. pool = <<>> /\ \A k \in Kinds : cache[k] = {}
  BY EmptyTyped DEF Init
<1>2. Taken(pool) = {}
  BY <1>1 DEF Taken
<1>3. PoolMatchesCaches
  BY <1>1, <1>2 DEF PoolMatchesCaches, Ids
<1> QED BY <1>3 DEF Init, PoolInv, NeverExits

LEMMA PoolStep == TypeInv /\ PoolInv /\ [Next]_vars => PoolInv'
<1> SUFFICES ASSUME TypeInv, PoolInv, [Next]_vars PROVE PoolInv'
  OBVIOUS
<1> USE DEF PoolInv
<1>1. ASSUME UNCHANGED <<pool, cache>> PROVE PoolMatchesCaches'
  BY <1>1 DEF PoolMatchesCaches
<1>2. CASE Fill
  <2>1. PICK key \in DOMAIN found :
          /\ cache' = [cache EXCEPT ![Kind] = @ \cup
               {[key |-> key, id |-> FindId(pool), val |-> found[key]]}]
          /\ pool' = Find(pool)
    BY <1>2 DEF Fill
  <2> DEFINE e == [key |-> key, id |-> FindId(pool), val |-> found[key]]
  <2>2. e.id = FindId(pool) /\ cache' = [cache EXCEPT ![Kind] = @ \cup {e}]
    BY <2>1
  <2> HIDE DEF e
  <2>3. Kind \in Kinds
    BY <1>2, KindWorking DEF Fill
  <2>4. PoolMatchesCaches'
    BY <2>1, <2>2, <2>3, NewObject
  <2> QED BY <1>2, <2>4 DEF Fill, NeverExits
<1>3. CASE Add
  <2>1. PICK key \in DOMAIN found :
          /\ cache' = [cache EXCEPT ![Kind] = @ \cup
               {[key |-> key, id |-> FindId(pool), val |-> found[key]]}]
          /\ pool' = Find(pool)
    BY <1>3 DEF Add
  <2> DEFINE e == [key |-> key, id |-> FindId(pool), val |-> found[key]]
  <2>2. e.id = FindId(pool) /\ cache' = [cache EXCEPT ![Kind] = @ \cup {e}]
    BY <2>1
  <2> HIDE DEF e
  <2>3. Kind \in Kinds
    BY <1>3, KindWorking DEF Add
  <2>4. PoolMatchesCaches'
    BY <2>1, <2>2, <2>3, NewObject
  <2> QED BY <1>3, <2>4 DEF Add, NeverExits
<1>4. CASE Purge
  <2>1. PICK e \in cache[Kind] :
          /\ cache' = [cache EXCEPT ![Kind] = @ \ {e}]
          /\ IF Known(pool, e.id)
             THEN pool' = Release(pool, e.id) /\ phase' = phase
             ELSE pool' = pool /\ phase' = "exited"
    BY <1>4 DEF Purge
  <2>2. Kind \in Kinds
    BY <1>4, KindWorking DEF Purge
  <2>3. Known(pool, e.id)
    BY <2>2, PoolMatches, TakenKnown
  <2>4. PoolMatchesCaches'
    BY <2>1, <2>2, <2>3, OldObject
  <2> QED BY <1>4, <2>1, <2>3, <2>4 DEF Purge, NeverExits
<1>5. CASE Mod
  <2>1. PICK e \in cache[Kind], f \in Fields[Kind] :
          cache' = [cache EXCEPT ![Kind] =
            (@ \ {e}) \cup {[e EXCEPT !.val = [@ EXCEPT ![f] = found[e.key][f]]]}]
    BY <1>5 DEF Mod
  <2>2. Kind \in Kinds /\ e \in Entry(Kind)
    BY <1>5, KindWorking DEF Mod
  <2> DEFINE e2 == [e EXCEPT !.val = [@ EXCEPT ![f] = found[e.key][f]]]
  <2>3. e2.id = e.id
    BY <2>2 DEF Entry
  <2>4. cache' = [cache EXCEPT ![Kind] = (@ \ {e}) \cup {e2}]
    BY <2>1
  <2> HIDE DEF e2
  <2>5. PoolMatchesCaches'
    BY <1>5, <2>2, <2>3, <2>4, SameObject DEF Mod
  <2> QED BY <1>5, <2>5 DEF Mod, NeverExits
<1>6. CASE Stop \/ Crash
  BY <1>6, FreshPool DEF Stop, Crash, NeverExits
<1>7. CASE \/ RotateClose \/ RotateOpen \/ PollFull \/ PollShort \/ CallSkipped \/ Call
           \/ FillDone \/ Refresh \/ PurgeDone \/ UpdateDone \/ BlockEnd \/ Crush \/ Start
  <2>1. UNCHANGED <<pool, cache>> /\ phase' # "exited"
    BY <1>7 DEF RotateClose, RotateOpen, PollFull, PollShort, CallSkipped, Call, FillDone,
                Refresh, PurgeDone, UpdateDone, BlockEnd, Crush, Start, Return
  <2> QED BY <1>1, <2>1 DEF NeverExits
<1>8. CASE ClientRead \/ ClientReset \/ UNCHANGED vars
  <2>1. UNCHANGED <<pool, cache, phase>>
    BY <1>8 DEF ClientRead, ClientReset, vars, daemonVars
  <2> QED BY <1>1, <2>1 DEF NeverExits
<1> QED BY <1>2, <1>3, <1>4, <1>5, <1>6, <1>7, <1>8 DEF Next

LEMMA PoolInvariant == Spec => []PoolInv
  BY Typing, PoolInit, PoolStep, PTL DEF Spec

(* The ids that unique_id_find has handed out and not taken back are those *)
(* of the objects in the caches, one each.                                 *)
THEOREM IdsMatchCaches == Spec => []PoolMatchesCaches
<1>1. PoolInv => PoolMatchesCaches
  BY DEF PoolInv
<1> QED BY <1>1, PoolInvariant, PTL

(* No monitor ever releases an id that uid.c does not know.                *)
THEOREM ReleaseNeverFails == Spec => []NeverExits
<1>1. PoolInv => NeverExits
  BY DEF PoolInv
<1> QED BY <1>1, PoolInvariant, PTL

-----------------------------------------------------------------------------
(* What a reader of the file shows *)

(* Decoding a message about kind k changes the list of k only.             *)
LEMMA DecodeRefresh ==
  ASSUME NEW s, IsLists(s), NEW k \in Kinds, NEW objs,
         NEW d, d = Decode(s, [type |-> "REFRESH", kind |-> k, objs |-> objs])
  PROVE  d[k] = RefreshList(k, s[k], objs) /\ \A j \in Kinds \ {k} : d[j] = s[j]
<1>1. d = [s EXCEPT ![k] = RefreshList(k, s[k], objs)]
  BY DEF Decode
<1> QED BY <1>1 DEF IsLists

(* What an add changes in a snapshot: one list.                            *)
LEMMA DecodeAdd ==
  ASSUME NEW s, IsLists(s), NEW k \in Kinds, NEW obj,
         NEW d, d = Decode(s, [type |-> "ADD", kind |-> k, obj |-> obj])
  PROVE  d[k] = AddList(s[k], obj) /\ \A j \in Kinds \ {k} : d[j] = s[j]
<1>1. d = [s EXCEPT ![k] = AddList(s[k], obj)]
  BY DEF Decode
<1> QED BY <1>1 DEF IsLists

(* What a difference changes.                                              *)
LEMMA DecodeMod ==
  ASSUME NEW s, IsLists(s), NEW k \in Kinds, NEW id, NEW f, NEW delta,
         NEW d, d = Decode(s, [type |-> "MOD", kind |-> k, id |-> id, field |-> f,
                               delta |-> delta])
  PROVE  d[k] = ModList(s[k], id, f, delta) /\ \A j \in Kinds \ {k} : d[j] = s[j]
<1>1. d = [s EXCEPT ![k] = ModList(s[k], id, f, delta)]
  BY DEF Decode
<1> QED BY <1>1 DEF IsLists

(* What a delete changes.                                                  *)
LEMMA DecodeDel ==
  ASSUME NEW s, IsLists(s), NEW k \in Kinds, NEW id,
         NEW d, d = Decode(s, [type |-> "DEL", kind |-> k, id |-> id])
  PROVE  d[k] = DelList(s[k], id) /\ \A j \in Kinds \ {k} : d[j] = s[j]
<1>1. d = [s EXCEPT ![k] = DelList(s[k], id)]
  BY DEF Decode
<1> QED BY <1>1 DEF IsLists

(* Decoding an event.                                                      *)
LEMMA DecodeMark ==
  ASSUME NEW s, IsLists(s)
  PROVE  /\ Decode(s, [type |-> "BROADCAST"]) = s
         /\ Decode(s, [type |-> "BLOCK_END"]) = s
         /\ Decode(s, [type |-> "LAST_RECORD"]) = Empty
<1>1. DOMAIN s = Kinds
  BY DEF IsLists
<1> QED BY <1>1 DEF Decode, Empty

(* A list that shows nothing is sound, and so is one that shows objects of *)
(* a list that has grown.                                                  *)
LEMMA SoundEmpty == \A entries : SoundList({}, entries)
  BY DEF SoundList

(* A list that is sound is so for more entries.                            *)
LEMMA SoundGrows ==
  ASSUME NEW list, NEW entries, NEW more, entries \subseteq more, SoundList(list, entries)
  PROVE  SoundList(list, more)
  BY DEF SoundList

(* The history stays sound when the record written is sound for the caches *)
(* it is paired with.                                                      *)
LEMMA WriteSound ==
  ASSUME TypeInv, SoundInv, NEW m, IsMessage(m), NEW view, IsLists(view), Write(m, view),
         \A k \in Kinds : SoundList(Decode(Rep, m)[k], view[k]),
         m.type = "ADD" => m.obj.id \notin Ids(Rep[m.kind])
  PROVE  HistSound' /\ AddsAreNew'
<1>1. /\ DOMAIN log' = 1 .. Len(log) + 1
      /\ DOMAIN hist' = 1 .. Len(hist) + 1
      /\ \A i \in DOMAIN log : log'[i] = log[i]
      /\ \A i \in DOMAIN hist : hist'[i] = hist[i]
      /\ log'[Len(log) + 1] = m
      /\ hist'[Len(hist) + 1] = [rep |-> Decode(Rep, m), view |-> view]
  BY WriteEffect
<1>2. /\ DOMAIN log = 1 .. Len(log) /\ DOMAIN hist = 1 .. Len(hist)
      /\ Len(log) \in Nat /\ Len(hist) = Len(log) + 1
  BY DEF TypeInv, FileTyped
<1>3. HistSound'
  <2>1. Sound(hist'[Len(hist) + 1])
    BY <1>1 DEF Sound
  <2>2. \A i \in DOMAIN hist : Sound(hist'[i])
    BY <1>1 DEF SoundInv, HistSound
  <2> QED BY <1>1, <1>2, <2>1, <2>2 DEF HistSound
<1>4. AddsAreNew'
  <2>1. ASSUME NEW i \in DOMAIN log, log'[i].type = "ADD"
        PROVE  log'[i].obj.id \notin Ids(hist'[i].rep[log'[i].kind])
    <3>1. log'[i] = log[i] /\ hist'[i] = hist[i]
      BY <1>1, <1>2
    <3> QED BY <2>1, <3>1 DEF SoundInv, AddsAreNew
  <2>2. m.type = "ADD" => m.obj.id \notin Ids(hist'[Len(log) + 1].rep[m.kind])
    BY <1>1, <1>2, RepTyped
  <2> QED BY <1>1, <1>2, <2>1, <2>2 DEF AddsAreNew
<1> QED BY <1>3, <1>4

(* An empty file holds nothing that is not sound.                          *)
LEMMA OpenSound ==
  ASSUME NEW view, OpenLog(view)
  PROVE  /\ HistSound' /\ AddsAreNew'
         /\ \A k \in Kinds : Rep'[k] = {}
<1> DEFINE h == [rep |-> Empty, view |-> view]
<1>1. Sound(h)
  BY EmptyTyped, SoundEmpty DEF Sound
<1>2. log' = <<>> /\ hist' = <<h>>
  BY DEF OpenLog
<1>3. h.rep = Empty
  OBVIOUS
<1> HIDE DEF h
<1>4. DOMAIN hist' = {1} /\ hist'[1] = h /\ Len(hist') = 1
  BY <1>2
<1>5. HistSound'
  BY <1>1, <1>4 DEF HistSound
<1>6. AddsAreNew'
  BY <1>2 DEF AddsAreNew
<1>7. \A k \in Kinds : Rep'[k] = {}
  BY <1>3, <1>4, EmptyTyped DEF Rep
<1> QED BY <1>5, <1>6, <1>7

(* Cutting the file back leaves a sound history.                           *)
LEMMA CutSound ==
  ASSUME TypeInv, SoundInv, log' = SubSeq(log, 1, flushed),
         hist' = SubSeq(hist, 1, flushed + 1)
  PROVE  HistSound' /\ AddsAreNew'
<1>1. /\ DOMAIN log = 1 .. Len(log) /\ DOMAIN hist = 1 .. Len(hist)
      /\ Len(log) \in Nat /\ Len(hist) = Len(log) + 1 /\ flushed \in 0 .. Len(log)
  BY DEF TypeInv, FileTyped
<1>2. /\ DOMAIN log' = 1 .. flushed /\ DOMAIN hist' = 1 .. flushed + 1
      /\ \A i \in 1 .. flushed : i \in DOMAIN log /\ log'[i] = log[i] /\ hist'[i] = hist[i]
      /\ \A i \in 1 .. flushed + 1 : i \in DOMAIN hist /\ hist'[i] = hist[i]
  BY <1>1, CutTyped
<1>3. HistSound'
  BY <1>2 DEF SoundInv, HistSound
<1>4. AddsAreNew'
  BY <1>2 DEF SoundInv, AddsAreNew
<1> QED BY <1>3, <1>4

LEMMA SoundInit == Init => SoundInv
<1> SUFFICES ASSUME Init PROVE SoundInv
  OBVIOUS
<1> DEFINE h == [rep |-> Empty, view |-> Empty]
<1>1. Sound(h) /\ h.rep = Empty
  BY EmptyTyped, SoundEmpty DEF Sound
<1>2. log = <<>> /\ hist = <<h>>
  BY DEF Init
<1> HIDE DEF h
<1>3. DOMAIN hist = {1} /\ hist[1] = h /\ Len(hist) = 1
  BY <1>2
<1>4. HistSound
  BY <1>1, <1>3 DEF HistSound
<1>5. AddsAreNew
  BY <1>2 DEF AddsAreNew
<1>6. SoundNow
  BY <1>1, <1>3, EmptyTyped, SoundEmpty DEF Rep, SoundNow
<1> QED BY <1>4, <1>5, <1>6 DEF SoundInv

(* The lists that the monitor being called works on.                       *)
LEMMA WorkingLists ==
  ASSUME TypeInv, PoolInv, SoundInv, phase \in Calling
  PROVE  /\ IsLists(Rep) /\ IsLists(cache)
         /\ Kind \in Kinds
         /\ IsList(cache[Kind], Key, Fields[Kind])
         /\ IsList(Rep[Kind], Key, Fields[Kind])
         /\ Unique(cache[Kind])
         /\ SoundList(Rep[Kind], cache[Kind])
<1>1. IsLists(Rep) /\ IsLists(cache)
  BY RepTyped DEF TypeInv, DaemonTyped
<1>2. Kind \in Kinds /\ IsList(cache[Kind], Key, Fields[Kind])
  BY KindWorking
<1>3. Unique(cache[Kind])
  BY <1>2, PoolMatches DEF PoolInv, Unique
<1>4. Rep[Kind] \subseteq Entry(Kind)
  BY <1>1, <1>2 DEF IsLists
<1>5. SoundList(Rep[Kind], cache[Kind])
  BY <1>2 DEF SoundInv, SoundNow
<1> QED BY <1>1, <1>2, <1>3, <1>4, <1>5 DEF Entry, Val, IsList

(* What the steps that log a change of a list do to the lists: the others  *)
(* stay, and if a reader of the file knew every object, it still does.     *)
LEMMA RefreshEffect ==
  ASSUME TypeInv, PoolInv, SoundInv, Refresh
  PROVE  /\ SoundInv'
         /\ \A j \in Kinds \ {Kind} : Rep'[j] = Rep[j] /\ cache'[j] = cache[j]
         /\ Ids(Rep[Kind]) = Ids(cache[Kind]) => Ids(Rep'[Kind]) = Ids(cache'[Kind])
         /\ broadcast /\ Rep[Kind] = {} => Ids(Rep'[Kind]) = Ids(cache'[Kind])
<1> USE DEF SoundInv
<1>1. CASE ~(broadcast /\ cache[Kind] # {})
  <2>1. UNCHANGED <<log, hist, cache>> /\ phase # "down" /\ (broadcast => cache[Kind] = {})
    BY <1>1 DEF Refresh
  <2>2. SoundInv' /\ Rep' = Rep
    BY <2>1 DEF HistSound, AddsAreNew, SoundNow, Rep
  <2> QED BY <2>1, <2>2 DEF Ids
<1>2. CASE broadcast /\ cache[Kind] # {}
  <2> DEFINE m == [type |-> "REFRESH", kind |-> Kind, objs |-> cache[Kind]]
             d == Decode(Rep, m)
  <2>1. Write(m, cache) /\ cache' = cache /\ phase' = "purge" /\ phase \in Calling
    BY <1>2 DEF Refresh
  <2>2. IsMessage(m) /\ m.type # "ADD"
    BY <2>1, KindWorking, RefreshMessage
  <2>3. d[Kind] = RefreshList(Kind, Rep[Kind], cache[Kind])
        /\ \A j \in Kinds \ {Kind} : d[j] = Rep[j]
    BY WorkingLists, <2>1, DecodeRefresh
  <2>4. /\ SoundList(d[Kind], cache[Kind])
        /\ Rep[Kind] = {} => Ids(d[Kind]) = Ids(cache[Kind])
        /\ Rep[Kind] # {} => Ids(d[Kind]) = Ids(Rep[Kind])
    <3>1. /\ Kind \in Kinds /\ Unique(cache[Kind])
          /\ IsList(cache[Kind], Key, Fields[Kind])
          /\ IsList(Rep[Kind], Key, Fields[Kind])
          /\ SoundList(Rep[Kind], cache[Kind])
      BY WorkingLists, <2>1
    <3>2. ASSUME NEW K, K = Key, NEW F, F = Fields[Kind], NEW kind, kind = Kind,
                 NEW list, list = Rep[Kind], NEW entries, entries = cache[Kind]
          PROVE  /\ SoundList(RefreshList(kind, list, entries), entries)
                 /\ list = {} => Ids(RefreshList(kind, list, entries)) = Ids(entries)
                 /\ list # {} => Ids(RefreshList(kind, list, entries)) = Ids(list)
      <4>1. /\ IsList(list, K, F) /\ IsList(entries, K, F) /\ Unique(entries)
            /\ SoundList(list, entries)
        BY <3>1, <3>2
      <4> HIDE <3>2
      <4>2. SoundList(RefreshList(kind, list, entries), entries)
        BY <4>1, RefreshSound
      <4>3. list = {} => Ids(RefreshList(kind, list, entries)) = Ids(entries)
        BY DEF RefreshList
      <4>4. list # {} => Ids(RefreshList(kind, list, entries)) = Ids(list)
        BY <4>1, RefreshKeepsIds
      <4> QED BY <4>2, <4>3, <4>4
    <3> QED BY <2>3, <3>2
  <2> HIDE DEF m
  <2>5. \A k \in Kinds : SoundList(d[k], cache[k])
    BY <2>1, <2>3, <2>4 DEF SoundNow
  <2>6. HistSound' /\ AddsAreNew' /\ Rep' = d
    BY WorkingLists, <2>1, <2>2, <2>5, WriteSound, WriteEffect
  <2>7. SoundNow'
    BY <2>1, <2>5, <2>6 DEF SoundNow
  <2> QED BY <2>1, <2>3, <2>4, <2>6, <2>7
<1> QED BY <1>1, <1>2

(* A purge changes one kind, for the cache and for the reader, ...         *)
LEMMA PurgeEffect ==
  ASSUME TypeInv, PoolInv, SoundInv, Purge
  PROVE  /\ SoundInv'
         /\ \A j \in Kinds \ {Kind} : Rep'[j] = Rep[j] /\ cache'[j] = cache[j]
         /\ Ids(Rep[Kind]) = Ids(cache[Kind]) => Ids(Rep'[Kind]) = Ids(cache'[Kind])
<1> USE DEF SoundInv
<1>1. PICK e \in cache[Kind] :
        /\ cache' = [cache EXCEPT ![Kind] = @ \ {e}]
        /\ Write([type |-> "DEL", kind |-> Kind, id |-> e.id], cache')
  BY DEF Purge
<1> DEFINE m == [type |-> "DEL", kind |-> Kind, id |-> e.id]
           d == Decode(Rep, m)
<1>2. cache'[Kind] = cache[Kind] \ {e} /\ \A j \in Kinds \ {Kind} : cache'[j] = cache[j]
  BY WorkingLists, <1>1 DEF Purge, IsLists
<1>3. IsLists(cache')
  BY TypeStep DEF TypeInv, DaemonTyped, Next
<1>4. IsMessage(m) /\ m.type # "ADD"
  BY WorkingLists, <1>1, DelMessage DEF Purge, IsList
<1>5. d[Kind] = DelList(Rep[Kind], e.id) /\ \A j \in Kinds \ {Kind} : d[j] = Rep[j]
  BY WorkingLists, DecodeDel DEF Purge
<1>6. /\ SoundList(d[Kind], cache'[Kind])
      /\ Ids(d[Kind]) = Ids(Rep[Kind]) \ {e.id}
      /\ Ids(cache'[Kind]) = Ids(cache[Kind]) \ {e.id}
  <2>1. SoundList(Rep[Kind], cache[Kind]) /\ Unique(cache[Kind])
    BY WorkingLists DEF Purge
  <2>2. /\ SoundList(DelList(Rep[Kind], e.id), cache[Kind] \ {e})
        /\ Ids(DelList(Rep[Kind], e.id)) = Ids(Rep[Kind]) \ {e.id}
        /\ Ids(cache[Kind] \ {e}) = Ids(cache[Kind]) \ {e.id}
    BY <2>1, DelSound
  <2> QED BY <1>2, <1>5, <2>2
<1> HIDE DEF m
<1>7. \A k \in Kinds : SoundList(d[k], cache'[k])
  BY <1>2, <1>5, <1>6 DEF SoundNow, Purge
<1>8. HistSound' /\ AddsAreNew' /\ Rep' = d
  BY <1>1, <1>3, <1>4, <1>7, WriteSound, WriteEffect DEF m
<1>9. SoundNow'
  BY <1>7, <1>8 DEF SoundNow
<1> QED BY <1>2, <1>5, <1>6, <1>8, <1>9

(* So does an add, ...                                                     *)
LEMMA AddEffect ==
  ASSUME TypeInv, PoolInv, SoundInv, Add
  PROVE  /\ SoundInv'
         /\ \A j \in Kinds \ {Kind} : Rep'[j] = Rep[j] /\ cache'[j] = cache[j]
         /\ Ids(Rep[Kind]) = Ids(cache[Kind]) => Ids(Rep'[Kind]) = Ids(cache'[Kind])
<1> USE DEF SoundInv
<1> DEFINE E(key) == [key |-> key, id |-> FindId(pool), val |-> found[key]]
<1>1. PICK key \in DOMAIN found :
        /\ cache' = [cache EXCEPT ![Kind] = @ \cup {E(key)}]
        /\ pool' = Find(pool)
        /\ Write([type |-> "ADD", kind |-> Kind, obj |-> E(key)], cache')
  BY DEF Add
<1> DEFINE e == E(key)
           m == [type |-> "ADD", kind |-> Kind, obj |-> e]
           d == Decode(Rep, m)
<1>2. e.id = FindId(pool) /\ e \in Entry(Kind) /\ Shows(e, e)
  <2>1. FindId(pool) \in Nat
    BY FindTakesFreeId DEF TypeInv, DaemonTyped
  <2>2. e \in Entry(Kind)
    BY <2>1, FoundTyped DEF Add
  <2> QED BY <2>2, ShowsItself DEF Entry, Val
<1>3. cache' = [cache EXCEPT ![Kind] = @ \cup {e}] /\ Write(m, cache')
  BY <1>1
<1> HIDE DEF e, E
<1>4. /\ cache'[Kind] = cache[Kind] \cup {e}
      /\ \A j \in Kinds \ {Kind} : cache'[j] = cache[j]
      /\ e.id \notin Ids(cache[Kind])
  BY WorkingLists, <1>1, <1>2, <1>3, NewObject DEF Add, PoolInv
<1>5. IsLists(cache')
  BY TypeStep DEF TypeInv, DaemonTyped, Next
<1>6. IsMessage(m) /\ m.obj = e /\ m.kind = Kind
  BY WorkingLists, <1>2, AddMessage DEF Add
<1>7. d[Kind] = AddList(Rep[Kind], e) /\ \A j \in Kinds \ {Kind} : d[j] = Rep[j]
  BY WorkingLists, DecodeAdd DEF Add
<1>8. /\ SoundList(d[Kind], cache'[Kind])
      /\ e.id \notin Ids(Rep[Kind])
      /\ Ids(d[Kind]) = Ids(Rep[Kind]) \cup {e.id}
      /\ Ids(cache'[Kind]) = Ids(cache[Kind]) \cup {e.id}
  <2>1. SoundList(Rep[Kind], cache[Kind])
    BY WorkingLists DEF Add
  <2>2. /\ SoundList(AddList(Rep[Kind], e), cache[Kind] \cup {e})
        /\ e.id \notin Ids(Rep[Kind])
        /\ Ids(AddList(Rep[Kind], e)) = Ids(Rep[Kind]) \cup {e.id}
    BY <1>2, <1>4, <2>1, AddSound
  <2>3. Ids(cache[Kind] \cup {e}) = Ids(cache[Kind]) \cup {e.id}
    BY DEF Ids
  <2> QED BY <1>4, <1>7, <2>2, <2>3
<1> HIDE DEF m
<1>9. \A k \in Kinds : SoundList(d[k], cache'[k])
  BY <1>4, <1>7, <1>8 DEF SoundNow, Add
<1>10. HistSound' /\ AddsAreNew' /\ Rep' = d
  BY <1>3, <1>5, <1>6, <1>8, <1>9, WriteSound, WriteEffect
<1>11. SoundNow'
  BY <1>9, <1>10 DEF SoundNow
<1> QED BY <1>4, <1>7, <1>8, <1>10, <1>11

(* ... and a difference.                                                   *)
LEMMA ModEffect ==
  ASSUME TypeInv, PoolInv, SoundInv, Mod
  PROVE  /\ SoundInv'
         /\ \A j \in Kinds \ {Kind} : Rep'[j] = Rep[j] /\ cache'[j] = cache[j]
         /\ Ids(Rep[Kind]) = Ids(cache[Kind]) => Ids(Rep'[Kind]) = Ids(cache'[Kind])
<1> USE DEF SoundInv
<1>1. PICK e \in cache[Kind], f \in Fields[Kind] :
        /\ e.key \in DOMAIN found
        /\ cache' = [cache EXCEPT ![Kind] =
             (@ \ {e}) \cup {[e EXCEPT !.val = [@ EXCEPT ![f] = found[e.key][f]]]}]
        /\ Write([type |-> "MOD", kind |-> Kind, id |-> e.id, field |-> f,
                  delta |-> found[e.key][f] - e.val[f]], cache')
  BY DEF Mod
<1> DEFINE v == found[e.key][f]
           e2 == [e EXCEPT !.val = [@ EXCEPT ![f] = v]]
           delta == v - e.val[f]
           m == [type |-> "MOD", kind |-> Kind, id |-> e.id, field |-> f, delta |-> delta]
           d == Decode(Rep, m)
<1>2. v \in Int /\ e.val[f] \in Int /\ delta \in Int /\ e.id \in Nat
  <2>1. v \in Int
    BY <1>1, FoundTyped DEF Mod, Val
  <2>2. e.val[f] \in Int /\ e.id \in Nat
    BY WorkingLists DEF Mod, IsList
  <2> QED BY <2>1, <2>2
<1>3. cache' = [cache EXCEPT ![Kind] = (@ \ {e}) \cup {e2}] /\ Write(m, cache')
  BY <1>1
<1>4. /\ SoundList(ModList(Rep[Kind], e.id, f, delta), (cache[Kind] \ {e}) \cup {e2})
      /\ Ids(ModList(Rep[Kind], e.id, f, delta)) = Ids(Rep[Kind])
      /\ Ids((cache[Kind] \ {e}) \cup {e2}) = Ids(cache[Kind])
  <2>1. /\ IsList(Rep[Kind], Key, Fields[Kind]) /\ IsList(cache[Kind], Key, Fields[Kind])
        /\ Unique(cache[Kind]) /\ SoundList(Rep[Kind], cache[Kind])
    BY WorkingLists DEF Mod
  <2>2. e2 = [e EXCEPT !.val = [@ EXCEPT ![f] = v]]
    OBVIOUS
  <2> HIDE DEF v, e2
  <2>3. ASSUME NEW K, K = Key, NEW F, F = Fields[Kind], NEW list, list = Rep[Kind],
               NEW entries, entries = cache[Kind], NEW w \in Int, w = v, NEW new, new = e2
        PROVE  /\ SoundList(ModList(list, e.id, f, w - e.val[f]), (entries \ {e}) \cup {new})
               /\ Ids(ModList(list, e.id, f, w - e.val[f])) = Ids(list)
               /\ Ids((entries \ {e}) \cup {new}) = Ids(entries)
    <3>1. /\ IsList(list, K, F) /\ IsList(entries, K, F) /\ Unique(entries)
          /\ SoundList(list, entries) /\ e \in entries /\ f \in F
          /\ new = [e EXCEPT !.val = [@ EXCEPT ![f] = w]]
      BY <2>1, <2>2, <2>3
    <3> HIDE <2>3
    <3> QED BY <3>1, ModSound
  <2> QED BY <1>2, <2>3
<1> HIDE DEF e2, v, delta
<1>5. /\ cache'[Kind] = (cache[Kind] \ {e}) \cup {e2}
      /\ \A j \in Kinds \ {Kind} : cache'[j] = cache[j]
  BY WorkingLists, <1>3 DEF Mod, IsLists
<1>6. IsLists(cache')
  BY TypeStep DEF TypeInv, DaemonTyped, Next
<1>7. IsMessage(m) /\ m.type # "ADD"
  BY WorkingLists, <1>2, ModMessage DEF Mod
<1>8. d[Kind] = ModList(Rep[Kind], e.id, f, delta) /\ \A j \in Kinds \ {Kind} : d[j] = Rep[j]
  BY WorkingLists, DecodeMod DEF Mod
<1>9. /\ SoundList(d[Kind], cache'[Kind])
      /\ Ids(d[Kind]) = Ids(Rep[Kind])
      /\ Ids(cache'[Kind]) = Ids(cache[Kind])
  BY <1>4, <1>5, <1>8
<1> HIDE DEF m
<1>10. \A k \in Kinds : SoundList(d[k], cache'[k])
  BY <1>5, <1>8, <1>9 DEF SoundNow, Mod
<1>11. HistSound' /\ AddsAreNew' /\ Rep' = d
  BY <1>3, <1>6, <1>7, <1>10, WriteSound, WriteEffect
<1>12. SoundNow'
  BY <1>10, <1>11 DEF SoundNow
<1> QED BY <1>5, <1>8, <1>9, <1>11, <1>12

LEMMA SoundStep == TypeInv /\ PoolInv /\ SoundInv /\ [Next]_vars => SoundInv'
<1> SUFFICES ASSUME TypeInv, PoolInv, SoundInv, [Next]_vars PROVE SoundInv'
  OBVIOUS
<1> USE DEF SoundInv
<1>a. IsLists(Rep) /\ IsLists(cache)
  BY RepTyped DEF TypeInv, DaemonTyped
<1>b. \A k \in Kinds : Unique(cache[k])
  BY PoolMatches DEF PoolInv, Unique
<1>c. ASSUME phase \in Calling
      PROVE  /\ Kind \in Kinds
             /\ IsList(cache[Kind], Key, Fields[Kind])
             /\ IsList(Rep[Kind], Key, Fields[Kind])
             /\ SoundList(Rep[Kind], cache[Kind])
  <2>1. Kind \in Kinds /\ IsList(cache[Kind], Key, Fields[Kind])
    BY <1>c, KindWorking
  <2>2. Rep[Kind] \subseteq Entry(Kind)
    BY <1>a, <2>1 DEF IsLists
  <2> QED BY <1>c, <2>1, <2>2 DEF Entry, Val, IsList, SoundNow
<1>d. ASSUME UNCHANGED <<log, hist>> PROVE HistSound' /\ AddsAreNew' /\ Rep' = Rep
  BY <1>d DEF HistSound, AddsAreNew, Rep
<1>1. CASE RotateClose \/ Stop
  <2> DEFINE m == [type |-> "LAST_RECORD"]
  <2>1. Write(m, cache)
    BY <1>1 DEF RotateClose, Stop
  <2>2. IsMessage(m) /\ m.type # "ADD" /\ Decode(Rep, m) = Empty
    BY <1>a, MarkMessage, DecodeMark
  <2> HIDE DEF m
  <2>3. \A k \in Kinds : SoundList(Decode(Rep, m)[k], cache[k])
    BY <2>2, EmptyTyped, SoundEmpty
  <2>4. HistSound' /\ AddsAreNew' /\ Rep' = Empty
    BY <1>a, <2>1, <2>2, <2>3, WriteSound, WriteEffect
  <2>5. SoundNow'
    BY <2>4, EmptyTyped, SoundEmpty DEF SoundNow
  <2> QED BY <2>4, <2>5
<1>2. CASE RotateOpen \/ Start
  <2>1. HistSound' /\ AddsAreNew' /\ \A k \in Kinds : Rep'[k] = {}
    BY <1>2, OpenSound DEF RotateOpen, Start
  <2>2. SoundNow'
    BY <2>1, SoundEmpty DEF SoundNow
  <2> QED BY <2>1, <2>2
<1>3. ASSUME NEW m \in {[type |-> "BROADCAST"], [type |-> "BLOCK_END"]}, Write(m, cache),
             UNCHANGED cache, phase # "down"
      PROVE  SoundInv'
  <2>1. IsMessage(m) /\ m.type # "ADD" /\ Decode(Rep, m) = Rep
    BY <1>a, MarkMessage, DecodeMark
  <2>2. \A k \in Kinds : SoundList(Decode(Rep, m)[k], cache[k])
    BY <1>3, <2>1 DEF SoundNow
  <2>3. HistSound' /\ AddsAreNew' /\ Rep' = Rep
    BY <1>a, <1>3, <2>1, <2>2, WriteSound, WriteEffect
  <2>4. SoundNow'
    BY <1>3, <2>3 DEF SoundNow
  <2> QED BY <2>3, <2>4
<1>4. CASE PollFull
  <2>1. CASE broadcast
    BY <1>3, <1>4, <2>1 DEF PollFull
  <2>2. CASE ~broadcast
    BY <1>d, <1>4, <2>2 DEF PollFull, SoundNow
  <2> QED BY <2>1, <2>2
<1>5. CASE BlockEnd
  BY <1>3, <1>5 DEF BlockEnd
<1>6. CASE Fill
  <2>1. PICK e : cache' = [cache EXCEPT ![Kind] = @ \cup {e}]
    BY <1>6 DEF Fill
  <2>2. cache'[Kind] = cache[Kind] \cup {e} /\ \A j \in Kinds \ {Kind} : cache'[j] = cache[j]
    BY <1>6, <1>a, <1>c, <2>1 DEF Fill, IsLists
  <2>3. HistSound' /\ AddsAreNew' /\ Rep' = Rep
    BY <1>d, <1>6 DEF Fill, fileVars
  <2>4. \A k \in Kinds : cache[k] \subseteq cache'[k] /\ SoundList(Rep[k], cache[k])
    BY <1>6, <2>2 DEF Fill, SoundNow
  <2>5. SoundNow'
    BY <2>3, <2>4, SoundGrows DEF SoundNow
  <2> QED BY <2>3, <2>5
<1>7. CASE Refresh
  BY <1>7, RefreshEffect
<1>8. CASE Purge
  BY <1>8, PurgeEffect
<1>9. CASE Add
  BY <1>9, AddEffect
<1>10. CASE Mod
  BY <1>10, ModEffect
<1>11. CASE Crash
  <2>1. HistSound' /\ AddsAreNew'
    BY <1>11, CutSound DEF Crash
  <2> QED BY <1>11, <2>1 DEF Crash, SoundNow
<1>12. CASE PollShort \/ CallSkipped \/ Call \/ FillDone \/ PurgeDone \/ UpdateDone \/ Crush
            \/ ClientRead \/ ClientReset \/ UNCHANGED vars
  <2>1. UNCHANGED <<log, hist, cache>> /\ (phase = "down" => phase' = "down")
    BY <1>12 DEF PollShort, CallSkipped, Call, FillDone, PurgeDone, UpdateDone, Crush,
                 ClientRead, ClientReset, vars, daemonVars, fileVars
  <2>2. HistSound' /\ AddsAreNew' /\ Rep' = Rep
    BY <1>d, <2>1
  <2>3. SoundNow'
    BY <2>1, <2>2 DEF SoundNow
  <2> QED BY <2>2, <2>3
<1> QED BY <1>1, <1>2, <1>4, <1>5, <1>6, <1>7, <1>8, <1>9, <1>10, <1>11, <1>12 DEF Next

LEMMA SoundInvariant == Spec => []SoundInv
  BY Typing, PoolInvariant, SoundInit, SoundStep, PTL DEF Spec

(* No object is added to a list that has it, whatever was dropped, deleted *)
(* or reused before.                                                       *)
THEOREM NoSecondEntry == Spec => []AddsAreNew
<1>1. SoundInv => AddsAreNew
  BY DEF SoundInv
<1> QED BY <1>1, SoundInvariant, PTL

-----------------------------------------------------------------------------
(* What the client shows *)

(* The three ways in which the daemon changes the file.                    *)
LEMMA FileSteps ==
  ASSUME TypeInv, [Next]_vars
  PROVE  \/ \E m, view :
              /\ IsMessage(m) /\ IsLists(view) /\ Write(m, view)
              /\ m.type = "BLOCK_END" => BlockEnd
              /\ UNCHANGED clientVars
         \/ \E view : IsLists(view) /\ OpenLog(view)
         \/ Crash
         \/ ClientRead \/ ClientReset
         \/ UNCHANGED <<log, hist, clientVars>>
<1>a. IsLists(cache) /\ IsLists(cache') /\ IsLists(Empty)
  BY EmptyTyped, TypeStep DEF TypeInv, DaemonTyped
<1>1. CASE RotateClose \/ Stop \/ BlockEnd
  BY <1>1, <1>a, MarkMessage DEF RotateClose, Stop, BlockEnd
<1>2. CASE PollFull
  BY <1>2, <1>a, MarkMessage DEF PollFull
<1>3. CASE Refresh
  <2>1. CASE broadcast /\ cache[Kind] # {}
    <3>1. Write([type |-> "REFRESH", kind |-> Kind, objs |-> cache[Kind]], cache)
          /\ UNCHANGED clientVars /\ phase \in Calling
      BY <1>3, <2>1 DEF Refresh
    <3>2. IsMessage([type |-> "REFRESH", kind |-> Kind, objs |-> cache[Kind]])
      BY <3>1, KindWorking, RefreshMessage
    <3> QED BY <1>a, <3>1, <3>2
  <2>2. CASE ~(broadcast /\ cache[Kind] # {})
    BY <1>3, <2>2 DEF Refresh
  <2> QED BY <2>1, <2>2
<1>4. CASE Purge
  <2>1. PICK e \in cache[Kind] : Write([type |-> "DEL", kind |-> Kind, id |-> e.id], cache')
    BY <1>4 DEF Purge
  <2>2. Kind \in Kinds /\ e.id \in Nat
    BY <1>4, KindWorking DEF Purge, Entry
  <2> QED BY <1>4, <1>a, <2>1, <2>2, DelMessage DEF Purge
<1>5. CASE Add
  <2>1. PICK key \in DOMAIN found :
          Write([type |-> "ADD", kind |-> Kind,
                 obj |-> [key |-> key, id |-> FindId(pool), val |-> found[key]]], cache')
    BY <1>5 DEF Add
  <2>2. FindId(pool) \in Nat /\ phase \in Calling
    BY <1>5, FindTakesFreeId DEF TypeInv, DaemonTyped, Add
  <2>3. Kind \in Kinds /\ [key |-> key, id |-> FindId(pool), val |-> found[key]] \in Entry(Kind)
    BY <2>2, FoundTyped
  <2> QED BY <1>5, <1>a, <2>1, <2>3, AddMessage DEF Add
<1>6. CASE Mod
  <2>1. PICK e \in cache[Kind], f \in Fields[Kind] :
          /\ e.key \in DOMAIN found
          /\ Write([type |-> "MOD", kind |-> Kind, id |-> e.id, field |-> f,
                    delta |-> found[e.key][f] - e.val[f]], cache')
    BY <1>6 DEF Mod
  <2>2. phase \in Calling /\ Kind \in Kinds /\ e \in Entry(Kind)
    BY <1>6, KindWorking DEF Mod
  <2>3. e.id \in Nat /\ e.val[f] \in Int /\ found[e.key][f] \in Int
    <3>1. found[e.key] \in Val(Kind)
      BY <2>1, <2>2, FoundTyped
    <3> QED BY <2>2, <3>1 DEF Entry, Val
  <2>4. found[e.key][f] - e.val[f] \in Int
    BY <2>3
  <2> QED BY <1>6, <1>a, <2>1, <2>2, <2>3, <2>4, ModMessage DEF Mod
<1>7. CASE RotateOpen \/ Start
  BY <1>7, <1>a DEF RotateOpen, Start
<1>8. CASE PollShort \/ CallSkipped \/ Call \/ Fill \/ FillDone \/ PurgeDone \/ UpdateDone
           \/ Crush \/ UNCHANGED vars
  BY <1>8 DEF PollShort, CallSkipped, Call, Fill, FillDone, PurgeDone, UpdateDone, Crush,
              vars, fileVars
<1> QED BY <1>1, <1>2, <1>3, <1>4, <1>5, <1>6, <1>7, <1>8 DEF Next

LEMMA ClientInit == Init => ClientInv
<1> SUFFICES ASSUME Init PROVE ClientInv
  OBVIOUS
<1> DEFINE h == [rep |-> Empty, view |-> Empty]
<1>1. h.rep = Empty /\ log = <<>> /\ hist = <<h>> /\ pos = 0 /\ snap = Empty
  BY DEF Init
<1> HIDE DEF h
<1> QED BY <1>1 DEF ClientInv

LEMMA ClientStep == TypeInv /\ ClientInv /\ [Next]_vars => ClientInv'
<1> SUFFICES ASSUME TypeInv, ClientInv, [Next]_vars PROVE ClientInv'
  OBVIOUS
<1>a. /\ DOMAIN log = 1 .. Len(log) /\ DOMAIN hist = 1 .. Len(hist)
      /\ Len(log) \in Nat /\ Len(hist) = Len(log) + 1 /\ flushed \in 0 .. Len(log)
      /\ ~stale => pos \in 0 .. flushed
  BY DEF TypeInv, FileTyped, ClientTyped
<1>1. ASSUME NEW m, NEW view, IsMessage(m), IsLists(view), Write(m, view), UNCHANGED clientVars
      PROVE  ClientInv'
  <2>1. /\ DOMAIN log' = 1 .. Len(log) + 1
        /\ \A i \in DOMAIN log : log'[i] = log[i]
        /\ \A i \in DOMAIN hist : hist'[i] = hist[i]
        /\ log'[Len(log) + 1] = m
        /\ hist'[Len(log) + 2].rep = Decode(hist[Len(log) + 1].rep, m)
    <3>1. Len(hist) + 1 = Len(log) + 2 /\ Rep = hist[Len(log) + 1].rep
      BY <1>a DEF Rep
    <3>2. hist'[Len(log) + 2] = [rep |-> Decode(Rep, m), view |-> view]
      BY <1>1, <3>1, WriteEffect
    <3> QED BY <1>1, <3>1, <3>2, WriteEffect
  <2>2. hist'[1].rep = Empty /\ (~stale' => snap' = hist'[pos' + 1].rep)
    BY <1>1, <1>a, <2>1 DEF ClientInv, clientVars
  <2>3. ASSUME NEW i \in DOMAIN log' PROVE hist'[i + 1].rep = Decode(hist'[i].rep, log'[i])
    <3>1. CASE i \in DOMAIN log
      BY <1>a, <2>1, <3>1 DEF ClientInv
    <3>2. CASE i = Len(log) + 1
      BY <1>a, <2>1, <3>2
    <3> QED BY <1>a, <2>1, <3>1, <3>2
  <2> QED BY <2>2, <2>3 DEF ClientInv
<1>2. ASSUME NEW view, IsLists(view), OpenLog(view) PROVE ClientInv'
  <2> DEFINE h == [rep |-> Empty, view |-> view]
  <2>1. h.rep = Empty /\ log' = <<>> /\ hist' = <<h>> /\ stale'
    BY <1>2, OpenLogTyped
  <2> HIDE DEF h
  <2> QED BY <2>1 DEF ClientInv
<1>3. CASE Crash
  <2>1. /\ DOMAIN log' = 1 .. flushed
        /\ \A i \in 1 .. flushed : log'[i] = log[i]
        /\ \A i \in 1 .. flushed + 1 : hist'[i] = hist[i]
        /\ UNCHANGED clientVars
    BY <1>3, <1>a, CutTyped DEF Crash
  <2>2. hist'[1].rep = Empty /\ (~stale' => snap' = hist'[pos' + 1].rep)
    BY <1>a, <2>1 DEF ClientInv, clientVars
  <2>3. ASSUME NEW i \in 1 .. flushed PROVE hist'[i + 1].rep = Decode(hist'[i].rep, log'[i])
    <3>1. i \in DOMAIN log /\ i \in 1 .. flushed + 1 /\ i + 1 \in 1 .. flushed + 1
      BY <1>a
    <3>2. log'[i] = log[i] /\ hist'[i] = hist[i] /\ hist'[i + 1] = hist[i + 1]
      BY <2>1, <3>1
    <3> QED BY <3>1, <3>2 DEF ClientInv
  <2> QED BY <2>1, <2>2, <2>3 DEF ClientInv
<1>4. CASE ClientRead
  <2>1. /\ ~stale /\ stale' = stale /\ pos + 1 \in DOMAIN log /\ pos' = pos + 1
        /\ snap' = Decode(snap, log[pos + 1]) /\ UNCHANGED <<log, hist>>
    BY <1>4, <1>a DEF ClientRead, fileVars
  <2> QED BY <2>1 DEF ClientInv
<1>5. CASE ClientReset
  <2>1. pos' = 0 /\ snap' = Empty /\ UNCHANGED <<log, hist>>
    BY <1>5 DEF ClientReset, fileVars
  <2> QED BY <2>1 DEF ClientInv
<1>6. CASE UNCHANGED <<log, hist, clientVars>>
  BY <1>6 DEF ClientInv, clientVars
<1> QED BY <1>1, <1>2, <1>3, <1>4, <1>5, <1>6, FileSteps

LEMMA ClientInvariant == Spec => []ClientInv
  BY Typing, ClientInit, ClientStep, PTL DEF Spec

(* Whatever the client shows, the daemon had at that record of the log,    *)
(* one entry for an object and the daemon's values.                        *)
THEOREM SnapshotsAreSound == Spec => []ClientSound
<1>1. TypeInv /\ SoundInv /\ ClientInv => ClientSound
  <2> SUFFICES ASSUME TypeInv, SoundInv, ClientInv, ~stale
               PROVE  \A k \in Kinds : SoundList(snap[k], hist[pos + 1].view[k])
    BY DEF ClientSound
  <2>1. pos + 1 \in DOMAIN hist
    BY DEF TypeInv, FileTyped, ClientTyped
  <2> QED BY <2>1 DEF SoundInv, HistSound, Sound, ClientInv
<1> QED BY <1>1, Typing, SoundInvariant, ClientInvariant, PTL

-----------------------------------------------------------------------------
(* What a reader of the file knows completely *)

(* The order of the monitors.                                              *)
LEMMA LaterFacts ==
  /\ \A k \in Kinds : Later(k, 1)
  /\ \A k : ~Later(k, Len(Order) + 1)
  /\ \A k, n : n \in DOMAIN Order /\ Later(k, n) => k = Order[n] \/ Later(k, n + 1)
  /\ \A n \in DOMAIN Order : ~Later(Order[n], n + 1)
<1>1. /\ DOMAIN Order = 1 .. Len(Order) /\ Len(Order) \in Nat
      /\ \A i, j \in DOMAIN Order : Order[i] = Order[j] => i = j
  BY OrderAssumption
<1> QED BY <1>1 DEF Later, Kinds

LEMMA TellInit == Init => TellInv
<1> SUFFICES ASSUME Init PROVE TellInv
  OBVIOUS
<1> DEFINE h == [rep |-> Empty, view |-> Empty]
<1>1. h.rep = Empty /\ hist = <<h>>
  BY DEF Init
<1> HIDE DEF h
<1>2. Rep = Empty
  BY <1>1 DEF Rep
<1>3. phase = "poll" /\ broadcast /\ made = {} /\ told = {}
  BY DEF Init
<1> QED BY <1>2, <1>3, EmptyTyped DEF TellInv, MadeInv, ToldComplete, Pending

LEMMA TellStep == TypeInv /\ PoolInv /\ SoundInv /\ TellInv /\ [Next]_vars => TellInv'
<1> SUFFICES ASSUME TypeInv, PoolInv, SoundInv, TellInv, [Next]_vars PROVE TellInv'
  OBVIOUS
<1>a. /\ next \in 1 .. Len(Order) + 1 /\ Len(Order) \in Nat
      /\ DOMAIN Order = 1 .. Len(Order)
      /\ made \subseteq Kinds /\ told \subseteq Kinds
      /\ IsLists(cache) /\ IsLists(Rep)
      /\ phase \in Calling => next \in DOMAIN Order /\ Kind \in Kinds
  BY OrderAssumption, RepTyped, KindWorking DEF TypeInv, DaemonTyped, FileTyped
<1>b. phase # "exited"
  BY DEF PoolInv, NeverExits
<1> USE DEF TellInv, MadeInv
<1>1. CASE RotateClose \/ Stop
  <2>1. Write([type |-> "LAST_RECORD"], cache) /\ told' = {}
    BY <1>1 DEF RotateClose, Stop
  <2>2. Rep' = Empty
    BY <1>a, <2>1, MarkMessage, DecodeMark, WriteEffect
  <2> QED BY <1>1, <2>1, <2>2 DEF RotateClose, Stop, Fresh, ToldComplete
<1>2. CASE Crash
  BY <1>2 DEF Crash, Fresh, ToldComplete
<1>3. CASE RotateOpen \/ Start
  <2>1. PICK view : OpenLog(view)
    BY <1>3 DEF RotateOpen, Start
  <2>2. told' = {} /\ \A k \in Kinds : Rep'[k] = {}
    BY <2>1, OpenSound DEF OpenLog
  <2>3. phase' \in {"poll", "header"} /\ broadcast'
    BY <1>3 DEF RotateOpen, Start
  <2> QED BY <2>2, <2>3 DEF ToldComplete, Pending
<1>4. CASE PollFull
  <2>1. Rep' = Rep
    <3>1. \/ Write([type |-> "BROADCAST"], cache)
          \/ UNCHANGED <<log, hist>>
      BY <1>4 DEF PollFull
    <3>2. CASE Write([type |-> "BROADCAST"], cache)
      BY <1>a, <3>2, MarkMessage, DecodeMark, WriteEffect
    <3>3. CASE UNCHANGED <<log, hist>>
      BY <3>3 DEF Rep
    <3> QED
      BY <3>1, <3>2, <3>3
  <2>2. UNCHANGED <<made, told, cache, broadcast>> /\ next' = 1 /\ full' /\ phase' = "call"
    BY <1>4 DEF PollFull
  <2>3. ASSUME NEW k \in Kinds \ Contended PROVE k \in told' \/ Pending(k)'
    BY <1>4, <2>1, <2>2, LaterFacts DEF PollFull, Pending
  <2> QED BY <2>1, <2>2, <2>3 DEF ToldComplete
<1>5. CASE PollShort
  <2>1. UNCHANGED <<made, told, cache, broadcast, log, hist>> /\ ~broadcast
        /\ phase' \in {"call", "crush"}
    BY <1>5 DEF PollShort, fileVars
  <2>2. \A k \in Kinds \ Contended : k \in told
    BY <1>5, <2>1 DEF Pending, PollShort
  <2> QED BY <2>1, <2>2 DEF ToldComplete, Rep
<1>6. CASE CallSkipped \/ UpdateDone
  <2>1. UNCHANGED <<made, told, cache, broadcast, log, hist, full>> /\ Return
        /\ phase \in {"call", "update"} /\ next \in DOMAIN Order
    BY <1>6, <1>a DEF CallSkipped, UpdateDone, fileVars
  <2>2. ASSUME NEW k \in Kinds \ Contended PROVE k \in told' \/ Pending(k)'
    <3>1. CASE k \in told
      BY <2>1, <3>1
    <3>2. CASE Pending(k)
      <4>1. full /\ Later(k, next + 1)
        BY <1>6, <2>1, <3>2, LaterFacts DEF CallSkipped, UpdateDone, Pending, Kind
      <4> QED BY <2>1, <3>2, <4>1 DEF Return, Pending, Rep
    <3> QED BY <2>1, <3>1, <3>2
  <2> QED BY <2>1, <2>2 DEF ToldComplete, Rep, Return
<1>7. CASE Call \/ FillDone
  <2>1. UNCHANGED <<told, cache, broadcast, log, hist, full, next>>
        /\ phase \in {"call", "fill"} /\ phase' \in {"fill", "refresh"}
    BY <1>7 DEF Call, FillDone, fileVars
  <2>2. told \subseteq made' /\ MadeInv'
    BY <1>7, <1>a DEF Call, FillDone, Kind
  <2> QED BY <2>1, <2>2 DEF ToldComplete, Rep, Pending
<1>8. CASE Fill
  <2>1. PICK e : cache' = [cache EXCEPT ![Kind] = @ \cup {e}]
    BY <1>8 DEF Fill
  <2>2. UNCHANGED <<made, told, broadcast, log, hist, full, next, phase>> /\ phase = "fill"
    BY <1>8 DEF Fill, fileVars
  <2>3. \A k \in told : cache'[k] = cache[k]
    BY <1>a, <2>1, <2>2 DEF IsLists
  <2> QED BY <2>2, <2>3 DEF ToldComplete, Rep, Pending, Kind
<1>9. ASSUME Purge \/ Add \/ Mod PROVE TellInv'
  <2>1. /\ UNCHANGED <<made, told, broadcast, full, next>>
        /\ phase \in {"purge", "update"} /\ phase' \in {phase, "exited"}
    BY <1>9 DEF Purge, Add, Mod
  <2>2. phase' = phase
    BY <2>1, PoolStep DEF PoolInv, NeverExits
  <2>3. /\ \A j \in Kinds \ {Kind} : Rep'[j] = Rep[j] /\ cache'[j] = cache[j]
        /\ Ids(Rep[Kind]) = Ids(cache[Kind]) => Ids(Rep'[Kind]) = Ids(cache'[Kind])
    BY <1>9, PurgeEffect, AddEffect, ModEffect
  <2>4. ToldComplete'
    BY <1>a, <2>1, <2>3 DEF ToldComplete
  <2>5. ASSUME NEW k \in Kinds \ Contended PROVE k \in told' \/ Pending(k)'
    <3>1. k = Kind => k \in told
      BY <1>a, <2>1, LaterFacts DEF Pending, Kind
    <3> QED BY <2>1, <2>2, <2>3, <3>1 DEF Pending
  <2> QED BY <2>1, <2>2, <2>4, <2>5 DEF Kind
<1>10. CASE Refresh
  <2>1. /\ UNCHANGED <<made, broadcast, full, next, cache>>
        /\ phase = "refresh" /\ phase' = "purge"
        /\ told' = IF broadcast /\ Rep[Kind] = {} THEN told \cup {Kind} ELSE told
    BY <1>10 DEF Refresh
  <2>2. /\ \A j \in Kinds \ {Kind} : Rep'[j] = Rep[j]
        /\ Ids(Rep[Kind]) = Ids(cache[Kind]) => Ids(Rep'[Kind]) = Ids(cache[Kind])
        /\ broadcast /\ Rep[Kind] = {} => Ids(Rep'[Kind]) = Ids(cache[Kind])
    BY <1>10, <2>1, RefreshEffect
  <2>3. ToldComplete'
    BY <1>a, <2>1, <2>2 DEF ToldComplete
  <2>4. ASSUME NEW k \in Kinds \ Contended PROVE k \in told' \/ Pending(k)'
    <3>1. CASE k = Kind
      BY <2>1, <3>1 DEF Pending
    <3>2. CASE k # Kind
      BY <1>a, <2>1, <2>2, <3>2, LaterFacts DEF Pending, Kind
    <3> QED BY <3>1, <3>2
  <2> QED BY <1>a, <2>1, <2>3, <2>4 DEF Kind
<1>11. CASE PurgeDone
  <2>1. UNCHANGED <<made, told, cache, broadcast, log, hist, full, next>>
        /\ phase = "purge" /\ phase' = "update"
    BY <1>11 DEF PurgeDone, fileVars
  <2> QED BY <2>1 DEF ToldComplete, Rep, Pending, Kind
<1>12. CASE BlockEnd
  <2>1. Rep' = Rep
    BY <1>12, <1>a, MarkMessage, DecodeMark, WriteEffect DEF BlockEnd
  <2>2. UNCHANGED <<made, told, cache, broadcast>> /\ phase' = "crush"
    BY <1>12 DEF BlockEnd
  <2>3. \A k \in Kinds \ Contended : k \in told
    BY <1>12, LaterFacts DEF BlockEnd, Pending
  <2> QED BY <2>1, <2>2, <2>3 DEF ToldComplete
<1>13. CASE Crush
  <2>1. UNCHANGED <<made, told, cache, log, hist>> /\ phase = "crush" /\ phase' = "poll"
    BY <1>13 DEF Crush
  <2>2. \A k \in Kinds \ Contended : k \in told
    BY <2>1 DEF Pending
  <2> QED BY <2>1, <2>2 DEF ToldComplete, Rep
<1>14. CASE ClientRead \/ ClientReset \/ UNCHANGED vars
  <2>1. UNCHANGED <<made, told, cache, broadcast, log, hist, full, next, phase>>
    BY <1>14 DEF ClientRead, ClientReset, vars, daemonVars, fileVars
  <2> QED BY <2>1 DEF ToldComplete, Rep, Pending, Kind
<1> QED BY <1>1, <1>2, <1>3, <1>4, <1>5, <1>6, <1>7, <1>8, <1>9, <1>10, <1>11, <1>12,
           <1>13, <1>14 DEF Next

LEMMA TellInvariant == Spec => []TellInv
  BY Typing, PoolInvariant, SoundInvariant, TellInit, TellStep, PTL DEF Spec

(* A list whose refresh went into an empty list of the reader stays        *)
(* complete, whatever is added, deleted or modified later in the file.     *)
THEOREM ToldStaysComplete == Spec => []ToldComplete
<1>1. TellInv => ToldComplete
  BY DEF TellInv
<1> QED BY <1>1, TellInvariant, PTL

-----------------------------------------------------------------------------
(* What the client knows at the end of a block *)

LEMMA BlockInit == Init => BlockInv
  BY DEF Init, BlockInv

(* A record other than EVENT_BLOCK_END, or one at whose place the readers  *)
(* know every list that is always available.                               *)
LEMMA WriteBlock ==
  ASSUME TypeInv, BlockInv, NEW m, IsMessage(m), NEW view, IsLists(view), Write(m, view),
         m.type = "BLOCK_END" =>
           \A k \in Kinds \ Contended : Ids(Decode(Rep, m)[k]) = Ids(view[k])
  PROVE  BlockInv'
<1>a. /\ DOMAIN log = 1 .. Len(log) /\ DOMAIN hist = 1 .. Len(hist)
      /\ Len(log) \in Nat /\ Len(hist) = Len(log) + 1
  BY DEF TypeInv, FileTyped
<1>1. /\ DOMAIN log' = 1 .. Len(log) + 1
      /\ \A i \in DOMAIN log : log'[i] = log[i]
      /\ \A i \in DOMAIN hist : hist'[i] = hist[i]
      /\ log'[Len(log) + 1] = m
      /\ hist'[Len(hist) + 1] = [rep |-> Decode(Rep, m), view |-> view]
  BY WriteEffect
<1>2. ASSUME NEW i \in DOMAIN log', log'[i].type = "BLOCK_END", NEW k \in Kinds \ Contended
      PROVE  Ids(hist'[i + 1].rep[k]) = Ids(hist'[i + 1].view[k])
  <2>1. CASE i \in DOMAIN log
    <3>1. i + 1 \in DOMAIN hist
      BY <1>a, <2>1
    <3> QED BY <1>1, <1>2, <2>1, <3>1 DEF BlockInv
  <2>2. CASE i = Len(log) + 1
    <3>1. hist'[i + 1] = [rep |-> Decode(Rep, m), view |-> view]
      BY <1>a, <1>1, <2>2
    <3>2. m.type = "BLOCK_END"
      BY <1>1, <1>2, <2>2
    <3> QED BY <3>1, <3>2
  <2> QED BY <1>a, <1>1, <2>1, <2>2
<1> QED BY <1>2 DEF BlockInv

LEMMA BlockStep == TypeInv /\ TellInv /\ BlockInv /\ [Next]_vars => BlockInv'
<1> SUFFICES ASSUME TypeInv, TellInv, BlockInv, [Next]_vars PROVE BlockInv'
  OBVIOUS
<1>a. /\ DOMAIN log = 1 .. Len(log) /\ DOMAIN hist = 1 .. Len(hist)
      /\ Len(log) \in Nat /\ Len(hist) = Len(log) + 1 /\ flushed \in 0 .. Len(log)
      /\ IsLists(cache) /\ IsLists(Rep)
  BY RepTyped DEF TypeInv, DaemonTyped, FileTyped
<1>1. CASE BlockEnd
  <2> DEFINE m == [type |-> "BLOCK_END"]
  <2>1. Write(m, cache) /\ IsMessage(m) /\ Decode(Rep, m) = Rep
    BY <1>1, <1>a, MarkMessage, DecodeMark DEF BlockEnd
  <2>2. \A k \in Kinds \ Contended : k \in told
    BY <1>1, LaterFacts DEF BlockEnd, TellInv, Pending
  <2>3. \A k \in Kinds \ Contended : Ids(Decode(Rep, m)[k]) = Ids(cache[k])
    BY <2>1, <2>2 DEF TellInv, ToldComplete
  <2> HIDE DEF m
  <2> QED BY <1>a, <2>1, <2>3, WriteBlock
<1>2. ASSUME NEW m, NEW view, IsMessage(m), IsLists(view), Write(m, view),
             m.type # "BLOCK_END"
      PROVE  BlockInv'
  BY <1>2, WriteBlock
<1>3. CASE \E view : OpenLog(view)
  BY <1>3 DEF OpenLog, BlockInv
<1>4. CASE Crash
  <2>1. /\ DOMAIN log' = 1 .. flushed
        /\ \A i \in 1 .. flushed : log'[i] = log[i]
        /\ \A i \in 1 .. flushed + 1 : hist'[i] = hist[i]
    BY <1>4, <1>a, CutTyped DEF Crash
  <2>2. ASSUME NEW i \in 1 .. flushed
        PROVE  i \in DOMAIN log /\ log'[i] = log[i] /\ hist'[i + 1] = hist[i + 1]
    <3>1. i \in DOMAIN log /\ i + 1 \in 1 .. flushed + 1
      BY <1>a
    <3> QED BY <2>1, <3>1
  <2> QED BY <2>1, <2>2 DEF BlockInv
<1>5. CASE UNCHANGED <<log, hist>>
  BY <1>5 DEF BlockInv
<1>6. CASE ClientRead \/ ClientReset
  BY <1>5, <1>6 DEF ClientRead, ClientReset, fileVars
<1> QED BY <1>1, <1>2, <1>3, <1>4, <1>5, <1>6, FileSteps

LEMMA BlockInvariant == Spec => []BlockInv
  BY Typing, TellInvariant, BlockInit, BlockStep, PTL DEF Spec

(* A client that has just decoded EVENT_BLOCK_END shows every core,        *)
(* interface and file system that the daemon had in that poll.             *)
THEOREM BlocksAreComplete == Spec => []ClientComplete
<1>1. TypeInv /\ ClientInv /\ BlockInv => ClientComplete
  <2> SUFFICES ASSUME TypeInv, ClientInv, BlockInv, ~stale, pos > 0,
                      log[pos].type = "BLOCK_END", NEW k \in Kinds \ Contended
               PROVE  Ids(snap[k]) = Ids(hist[pos + 1].view[k])
    BY DEF ClientComplete
  <2>1. pos \in DOMAIN log
    BY DEF TypeInv, FileTyped, ClientTyped
  <2> QED BY <2>1 DEF ClientInv, BlockInv
<1> QED BY <1>1, Typing, ClientInvariant, BlockInvariant, PTL
=============================================================================
