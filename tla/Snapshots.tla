----------------------------- MODULE Snapshots -----------------------------
(***************************************************************************)
(* How the client decodes one record of the log into its snapshot          *)
(* (the message and event handlers of                                      *)
(* src/src/bin/enigmatic/client/enigmatic_client.c).  A snapshot holds one *)
(* list per kind of object; a list is modelled by the set of its entries,  *)
(* so two entries may carry the same id if the log ever says so.           *)
(***************************************************************************)
EXTENDS Integers

(* The kinds of object whose ids come from the pool of uid.c.              *)
ObjectKinds == {"CPU_CORE", "SENSOR", "BATTERY", "NETWORK", "FILE_SYSTEM"}

(* Lists whose MESG_REFRESH branch copies the logged values into the       *)
(* entries it finds; the other kinds copy the other way and drop the       *)
(* logged object.                                                          *)
RefreshUpdates == {"NETWORK", "FILE_SYSTEM"}

(* Fields sent as CHANGE_FLOAT and added under FLOAT_VALID.                *)
FloatFields == {"SENSOR_VALUE", "BATTERY_PERCENT"}

FloatValid(x) == IF x < 0 THEN 0 ELSE x

(* The value of field f after a MESG_MOD of delta.  Numbers are exact: the *)
(* rounding of a float difference is left out.                             *)
Changed(f, old, delta) ==
  IF f \in FloatFields THEN FloatValid(old + delta) ELSE old + delta

(* MESG_REFRESH: an empty list takes every object; a list that is not      *)
(* empty never takes an object it does not hold already.                   *)
RefreshList(kind, list, objs) ==
  IF list = {} THEN objs
  ELSE IF kind \in RefreshUpdates
       THEN {IF \E o \in objs : o.id = e.id
             THEN [e EXCEPT !.val = (CHOOSE o \in objs : o.id = e.id).val]
             ELSE e : e \in list}
       ELSE list

(* Mutant of AddList: the record is ignored.                               *)
AddIgnored(list, obj) == list

AddList(list, obj) == list \cup {obj}

ModList(list, id, f, delta) ==
  {IF e.id = id
   THEN [e EXCEPT !.val = [@ EXCEPT ![f] = Changed(f, e.val[f], delta)]]
   ELSE e : e \in list}

DelList(list, id) == {e \in list : e.id # id}

(* The snapshot after the client has processed record m.  EVENT_BROADCAST  *)
(* and EVENT_BLOCK_END change no list; EVENT_LAST_RECORD frees them all.   *)
Decode(snap, m) ==
  CASE m.type = "REFRESH" ->
         [snap EXCEPT ![m.kind] = RefreshList(m.kind, @, m.objs)]
    [] m.type = "ADD" -> [snap EXCEPT ![m.kind] = AddList(@, m.obj)]
    [] m.type = "MOD" ->
         [snap EXCEPT ![m.kind] = ModList(@, m.id, m.field, m.delta)]
    [] m.type = "DEL" -> [snap EXCEPT ![m.kind] = DelList(@, m.id)]
    [] m.type = "LAST_RECORD" -> [k \in DOMAIN snap |-> {}]
    [] OTHER -> snap
-----------------------------------------------------------------------------
(* What a client's list says about the list of the daemon *)

Ids(list) == {e.id : e \in list}

(* What a decoded value may be, given the value in the cache: equal, or,   *)
(* for a float field that was below zero, too high because of FLOAT_VALID. *)
Shows(e, c) ==
  /\ e.key = c.key
  /\ e.id = c.id
  /\ \A f \in DOMAIN c.val :
       IF f \in FloatFields THEN e.val[f] >= c.val[f] ELSE e.val[f] = c.val[f]

(* Every entry of the list is an object of the cache, at most one each.    *)
SoundList(list, entries) ==
  /\ \A e \in list : \E c \in entries : Shows(e, c)
  /\ \A e1, e2 \in list : e1.id = e2.id => e1 = e2
=============================================================================
