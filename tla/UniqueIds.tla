----------------------------- MODULE UniqueIds -----------------------------
(***************************************************************************)
(* The pool of small integers that names monitored objects in the log      *)
(* (src/src/bin/enigmatic/uid.c).  The pool is the list                    *)
(* Enigmatic.unique_ids: a slot is created for an id the first time it is  *)
(* handed out and is never removed, only marked available again.           *)
(***************************************************************************)
EXTENDS Naturals, Sequences

Slot == [id : Nat, available : BOOLEAN]

HasAvailable(pool) == \E i \in DOMAIN pool : pool[i].available

(* The loops over the list stop at the first slot that is available, or    *)
(* that has the id.                                                        *)
FirstAvailable(pool) ==
  CHOOSE i \in DOMAIN pool :
    pool[i].available /\ \A j \in 1 .. (i - 1) : ~pool[j].available

FirstWith(pool, id) ==
  CHOOSE i \in DOMAIN pool :
    pool[i].id = id /\ \A j \in 1 .. (i - 1) : pool[j].id # id

(* One more than the id of the last slot of the list, 0 for an empty list. *)
NextAvailable(pool) == IF pool = <<>> THEN 0 ELSE pool[Len(pool)].id + 1

(* The id that unique_id_find returns ...                                  *)
FindId(pool) ==
  IF HasAvailable(pool) THEN pool[FirstAvailable(pool)].id
                        ELSE NextAvailable(pool)

(* ... and the list it leaves behind.                                      *)
Find(pool) ==
  IF HasAvailable(pool)
  THEN [pool EXCEPT ![FirstAvailable(pool)] = [@ EXCEPT !.available = FALSE]]
  ELSE Append(pool, [id |-> NextAvailable(pool), available |-> FALSE])

(* unique_id_release calls exit(2) for an id that is not in the list.      *)
Known(pool, id) == \E i \in DOMAIN pool : pool[i].id = id

(* Mutant of Release: the slot stays reserved.                             *)
ReleaseForgets(pool, id) == pool

Release(pool, id) == [pool EXCEPT ![FirstWith(pool, id)] = [@ EXCEPT !.available = TRUE]]

(* The ids handed out and not released yet.                                *)
Taken(pool) == {pool[i].id : i \in {j \in DOMAIN pool : ~pool[j].available}}
=============================================================================
