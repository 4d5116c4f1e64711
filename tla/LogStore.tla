------------------------------ MODULE LogStore ------------------------------
(***************************************************************************)
(* What the rotation of the log promises, whatever files it is made of: a  *)
(* log that is being written and, for each slot of the day, at most one    *)
(* saved log, which a reader gets whole.  A saved log is only ever         *)
(* replaced, or given up, by the rotation of a log of the same slot, or    *)
(* lost to a disk that refused a part of it.                               *)
(***************************************************************************)
CONSTANTS Slot, Record, NoSlot

VARIABLES
  live,    \* records of the log being written
  slot,    \* the slot that log was begun in; NoSlot, it is not written
  saved,   \* saved[s]: records of the log saved for s, {} if there is none
  refused  \* slots of which the disk refused a part

vars == <<live, slot, saved, refused>>

Init == live = {} /\ slot \in Slot /\ saved = [s \in Slot |-> {}] /\ refused = {}

Append ==
  /\ slot # NoSlot
  /\ \E r \in Record \ live : live' = live \cup {r}
  /\ UNCHANGED <<slot, saved, refused>>

Save ==
  /\ slot # NoSlot
  /\ saved' = [saved EXCEPT ![slot] = live]
  /\ UNCHANGED <<live, slot, refused>>

(* The log saved a day ago makes room for the one of today.                *)
GiveUp ==
  /\ slot # NoSlot
  /\ saved' = [saved EXCEPT ![slot] = {}]
  /\ UNCHANGED <<live, slot, refused>>

(* A rotation ends, or the daemon starts again.                            *)
Begin ==
  /\ live' = {}
  /\ slot' \in Slot
  /\ UNCHANGED <<saved, refused>>

(* A log that could not be begun: what it held stays, and nothing is added. *)
Stop ==
  /\ slot' = NoSlot
  /\ UNCHANGED <<live, saved, refused>>

(* The disk refuses a part of what stands for a saved log, or takes all of *)
(* it when it is written again.                                            *)
Refuse(s) == refused' = refused \cup {s} /\ UNCHANGED <<live, slot, saved>>
Accept(s) == refused' = refused \ {s} /\ UNCHANGED <<live, slot, saved>>

(* A saved log of which a part was refused is lost.                        *)
Lose(s) ==
  /\ refused' = refused \cup {s}
  /\ saved' = [saved EXCEPT ![s] = {}]
  /\ UNCHANGED <<live, slot>>

Next ==
  \/ Append \/ Save \/ GiveUp \/ Begin \/ Stop
  \/ \E s \in Slot : Refuse(s) \/ Accept(s) \/ Lose(s)

Spec == Init /\ [][Next]_vars
=============================================================================
