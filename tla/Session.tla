------------------------------ MODULE Session ------------------------------
(***************************************************************************)
(* The starts of evisum.  A start asks the instance that listens on the    *)
(* socket to open its window, and ends when it is answered; a start that   *)
(* finds no instance, or loses it, becomes one: it loads the settings,     *)
(* listens, opens its windows and runs the main loop until the last of     *)
(* them is closed.  Settings live three times: in the fields of the ui, in *)
(* config() and in the file, and a window's fields are copied only while   *)
(* the window exists.  A restart leaves the windows to open again as flags *)
(* in the file, which whoever starts next finds.                           *)
(***************************************************************************)
EXTENDS Naturals

CONSTANTS
  Processes,  \* processes of evisum
  MaxStarts,  \* bound: how often the user starts evisum
  MaxInputs,  \* bound: what the user does to the windows
  MaxCrashes  \* bound: processes that are killed

ASSUME BoundsAssumption == MaxStarts \in Nat /\ MaxInputs \in Nat /\ MaxCrashes \in Nat
ASSUME ProcessesAssumption == "none" \notin Processes

VARIABLES
  pc,         \* where each process is
  then,       \* where it goes once the file is written
  want,       \* the window its command line asks for
  inbox,      \* the clients whose hello an instance has still to handle
  serving,    \* the client whose hello it handles, or "none"
  ui,         \* the windows that exist, restart flags, settings, quitting
  config,     \* config() of each process
  file,       \* evisum.cfg; not ok while it is missing or half written
  sock,       \* the process that listens, or "none"
  chosen,     \* what the user chose last for each window
  owed,       \* windows a restart closed that are not open again
  shared,     \* whether two processes ever were instances at once
  lost,       \* whether a process was killed
  spent       \* starts, inputs and crashes so far

settings == <<ui, config, file>>
clients == <<inbox, serving>>
vars == <<pc, then, want, clients, ui, config, file, sock, chosen, owed, shared, lost,
          spent>>

-----------------------------------------------------------------------------
(* proc stands for the windows that have a restart flag and are deleted at *)
(* SIGTERM; cpu is one of them, with a visual that may be chosen; network  *)
(* has the flag and is left open at SIGTERM, view (a process) has none.    *)
Windows == {"proc", "cpu", "network", "view"}
Flagged == {"proc", "cpu", "network"}
DeletedAtExit == {"proc", "cpu"}

Geometry == [Windows -> 0 .. 1]
Default == [ok |-> TRUE, geom |-> [w \in Windows |-> 0], restart |-> {}]
Torn == [Default EXCEPT !.ok = FALSE]
NoUi == [open |-> {}, flags |-> {}, geom |-> Default.geom, quit |-> FALSE]

(* Where a process is an instance.                                         *)
Alone == {"load", "listen", "activate", "loop", "reply", "quit", "close", "saving",
          "exec"}
Instances == {p \in Processes : pc[p] \in Alone}

Uis ==
  [open : SUBSET Windows, flags : SUBSET Flagged, geom : Geometry, quit : BOOLEAN]
Configs == [ok : BOOLEAN, geom : Geometry, restart : SUBSET Flagged]
Spendings == [starts : 0 .. MaxStarts, inputs : 0 .. MaxInputs, crashes : 0 .. MaxCrashes]

Places == Alone \cup {"off", "connect", "wait"}
Thens == {"", "listen", "loop", "reply", "close", "exec"}

Consistent(p) ==
  /\ pc[p] = "saving" <=> then[p] # ""
  /\ config[p].ok
  /\ pc[p] \in {"loop", "reply"} \/ then[p] \in {"loop", "reply"} => ui[p].flags = {}

TypeOK ==
  /\ pc \in [Processes -> Places] /\ then \in [Processes -> Thens]
  /\ want \in [Processes -> Windows]
  /\ inbox \in [Processes -> SUBSET Processes]
  /\ serving \in [Processes -> Processes \cup {"none"}]
  /\ ui \in [Processes -> Uis] /\ config \in [Processes -> Configs] /\ file \in Configs
  /\ sock \in Processes \cup {"none"}
  /\ chosen \in Geometry /\ owed \subseteq Flagged
  /\ shared \in BOOLEAN /\ lost \in BOOLEAN /\ spent \in Spendings
  /\ \A p \in Processes : Consistent(p)

Init ==
  /\ pc = [p \in Processes |-> "off"] /\ then = [p \in Processes |-> ""]
  /\ want = [p \in Processes |-> "proc"]
  /\ inbox = [p \in Processes |-> {}]
  /\ serving = [p \in Processes |-> "none"]
  /\ ui = [p \in Processes |-> NoUi] /\ config = [p \in Processes |-> Default]
  /\ file = Torn
  /\ sock = "none"
  /\ chosen = Default.geom /\ owed = {} /\ shared = FALSE /\ lost = FALSE
  /\ spent = [starts |-> 0, inputs |-> 0, crashes |-> 0]

Goes(p, l) == pc' = [pc EXCEPT ![p] = l] /\ UNCHANGED then
Spends(what, max) == spent[what] < max /\ spent' = [spent EXCEPT ![what] = @ + 1]

-----------------------------------------------------------------------------
(* Settings *)

(* A window's fields are copied while it exists, a process view's always.  *)
Copied(c, u) ==
  [c EXCEPT !.geom = [w \in Windows |-> IF w \in u.open \cup {"view"}
                                        THEN u.geom[w] ELSE c.geom[w]],
            !.restart = (@ \ u.open) \cup (u.flags \cap u.open)]

(* The old file is gone as soon as the new one is opened.                  *)
Write(p, c, next) ==
  /\ config' = [config EXCEPT ![p] = c]
  /\ file' = Torn
  /\ pc' = [pc EXCEPT ![p] = "saving"] /\ then' = [then EXCEPT ![p] = next]

Save(p, u, next) == Write(p, Copied(config[p], u), next)

Saved(p) ==
  /\ pc[p] = "saving"
  /\ file' = config[p]
  /\ pc' = [pc EXCEPT ![p] = then[p]] /\ then' = [then EXCEPT ![p] = ""]
  /\ UNCHANGED <<want, clients, ui, config, sock, chosen, owed, shared, lost, spent>>

(* evisum_ui_config_load: what the fields of the ui become.                *)
Loaded(c) == [NoUi EXCEPT !.geom = c.geom, !.flags = c.restart]

(* A file that cannot be read is replaced by the defaults.                 *)
Load(p) ==
  /\ pc[p] = "load"
  /\ LET c == IF file.ok THEN file ELSE Default IN
     /\ ui' = [ui EXCEPT ![p] = Loaded(c)]
     /\ IF file.ok
        THEN config' = [config EXCEPT ![p] = c] /\ Goes(p, "listen") /\ UNCHANGED file
        ELSE Write(p, c, "listen")
  /\ UNCHANGED <<want, clients, sock, chosen, owed, shared, lost, spent>>

-----------------------------------------------------------------------------
(* Start: a client of the instance that listens, or an instance *)

Start(p) ==
  /\ pc[p] = "off" /\ Spends("starts", MaxStarts)
  /\ \E w \in Windows : want' = [want EXCEPT ![p] = w]
  /\ Goes(p, "connect")
  /\ UNCHANGED <<settings, clients, sock, chosen, owed, shared, lost>>

BecomesInstance(p) == Goes(p, "load") /\ shared' = (shared \/ Instances # {})

Connect(p) ==
  /\ pc[p] = "connect"
  /\ IF sock = "none" THEN BecomesInstance(p) /\ UNCHANGED inbox
     ELSE /\ inbox' = [inbox EXCEPT ![sock] = @ \cup {p}]
          /\ Goes(p, "wait") /\ UNCHANGED shared
  /\ UNCHANGED <<serving, settings, want, sock, chosen, owed, lost, spent>>

(* The connection ends before there is an answer.                          *)
ServerGone(p) ==
  /\ pc[p] = "wait" /\ \A q \in Processes : p \notin inbox[q] /\ serving[q] # p
  /\ BecomesInstance(p)
  /\ UNCHANGED <<settings, want, clients, sock, chosen, owed, lost, spent>>

(* Nobody looks whether the socket could be had.                           *)
Listen(p) ==
  /\ pc[p] = "listen"
  /\ sock' = IF sock = "none" THEN p ELSE sock
  /\ Goes(p, "activate")
  /\ UNCHANGED <<settings, want, clients, chosen, owed, shared, lost, spent>>

(* Mutant of Activate: the flags stay set.                                 *)
ActivateKeepingFlags(p, w, next) ==
  LET back == ui[p].flags
      u == [ui[p] EXCEPT !.open = @ \cup (IF back = {} THEN {w} ELSE back)] IN
  /\ ui' = [ui EXCEPT ![p] = u]
  /\ owed' = owed \ back
  /\ IF back # {} THEN Save(p, u, next) ELSE Goes(p, next) /\ UNCHANGED <<config, file>>

(* evisum_ui_activate: with flags set, their windows and not the one asked.*)
Activate(p, w, next) ==
  LET back == ui[p].flags
      u == [ui[p] EXCEPT !.open = @ \cup (IF back = {} THEN {w} ELSE back),
                         !.flags = {}] IN
  /\ ui' = [ui EXCEPT ![p] = u]
  /\ owed' = owed \ back
  /\ IF back # {} THEN Save(p, u, next) ELSE Goes(p, next) /\ UNCHANGED <<config, file>>

FirstActivate(p) ==
  /\ pc[p] = "activate" /\ Activate(p, want[p], "loop")
  /\ UNCHANGED <<want, clients, sock, chosen, shared, lost, spent>>

(* A hello is handled even when the loop has been told to end; the loop    *)
(* takes up the connections that have one in an order of its own.          *)
Hello(p) ==
  /\ pc[p] = "loop"
  /\ \E c \in inbox[p] :
       /\ Activate(p, want[c], "reply")
       /\ serving' = [serving EXCEPT ![p] = c]
       /\ inbox' = [inbox EXCEPT ![p] = @ \ {c}]
  /\ UNCHANGED <<want, sock, chosen, shared, lost, spent>>

(* The answer, at which the client ends.                                   *)
Reply(p) ==
  /\ pc[p] = "reply"
  /\ pc' = [q \in Processes |-> CASE q = p -> "loop"
                                   [] q = serving[p] -> "off"
                                   [] OTHER -> pc[q]]
  /\ serving' = [serving EXCEPT ![p] = "none"]
  /\ want' = [q \in Processes |-> IF q = serving[p] THEN "proc" ELSE want[q]]
  /\ UNCHANGED <<settings, then, inbox, sock, chosen, owed, shared, lost, spent>>

-----------------------------------------------------------------------------
(* The windows of an instance *)

(* What the menu of a window offers; a process view has none.              *)
Options(w) == IF w = "proc" THEN {"options"} ELSE {}
Menu(w) ==
  IF w = "view" THEN {}
  ELSE {"windows", "effects"} \cup Options(w)
         \cup (IF w = "cpu" THEN {"visuals"} ELSE {})

Offers(p, choice) == \E w \in ui[p].open : choice \in Menu(w)

Loops(p) == pc[p] = "loop" /\ ~ ui[p].quit /\ Spends("inputs", MaxInputs)

(* The main loop ends with the last window.                                *)
Without(u, w) == [u EXCEPT !.open = @ \ {w}, !.quit = u.open \subseteq {w}]

(* A process view is opened from the list of processes.                    *)
MenuClicked(p, w) ==
  /\ Loops(p) /\ w \notin ui[p].open
  /\ IF w = "view" THEN "proc" \in ui[p].open ELSE Offers(p, "windows")
  /\ ui' = [ui EXCEPT ![p].open = @ \cup {w}]
  /\ UNCHANGED <<pc, then, want, clients, config, file, sock, chosen, owed, shared, lost>>

Moved(p, w) ==
  /\ Loops(p) /\ w \in ui[p].open
  /\ ui' = [ui EXCEPT ![p].geom[w] = 1 - @]
  /\ chosen' = [chosen EXCEPT ![w] = 1 - ui[p].geom[w]]
  /\ UNCHANGED <<pc, then, want, clients, config, file, sock, owed, shared, lost>>

(* An option of the list of processes is saved as soon as it changes.      *)
OptionChanged(p) ==
  /\ Loops(p) /\ Offers(p, "options")
  /\ LET u == [ui[p] EXCEPT !.geom["proc"] = 1 - @] IN
     /\ ui' = [ui EXCEPT ![p] = u] /\ Save(p, u, "loop")
     /\ chosen' = [chosen EXCEPT !["proc"] = u.geom["proc"]]
  /\ UNCHANGED <<want, clients, sock, owed, shared, lost>>

(* Mutant of Closed: the window is forgotten before the settings are saved.*)
ClosedUnsaved(p, w) ==
  /\ Loops(p) /\ w \in ui[p].open
  /\ ui' = [ui EXCEPT ![p] = Without(ui[p], w)] /\ Save(p, ui'[p], "loop")
  /\ UNCHANGED <<want, clients, sock, chosen, owed, shared, lost>>

(* The handlers save while the window is still there.                      *)
Closed(p, w) ==
  /\ Loops(p) /\ w \in ui[p].open
  /\ ui' = [ui EXCEPT ![p] = Without(ui[p], w)] /\ Save(p, ui[p], "loop")
  /\ UNCHANGED <<want, clients, sock, chosen, owed, shared, lost>>

(* evisum_ui_cpu_win_restart: the window is deleted, while the last one    *)
(* does not end the loop, and made again.                                  *)
Reopened(u, w) == [u EXCEPT !.open = (@ \ {w}) \cup {w}]

VisualClicked(p) ==
  /\ Loops(p) /\ Offers(p, "visuals")
  /\ LET u == [ui[p] EXCEPT !.geom["cpu"] = 1 - @] IN
     /\ ui' = [ui EXCEPT ![p] = Reopened(u, "cpu")] /\ Save(p, u, "loop")
     /\ chosen' = [chosen EXCEPT !["cpu"] = u.geom["cpu"]]
  /\ UNCHANGED <<want, clients, sock, owed, shared, lost>>

(* Mutant of Restart: the settings are saved before the flags are set.     *)
RestartSavedEarly(p) ==
  /\ Loops(p) /\ Offers(p, "effects")
  /\ LET u == [ui[p] EXCEPT !.flags = @ \cup (ui[p].open \cap Flagged)] IN
     /\ ui' = [ui EXCEPT ![p] = u] /\ Save(p, ui[p], "exec")
     /\ owed' = u.flags
  /\ UNCHANGED <<want, clients, sock, chosen, shared, lost>>

(* Effects on or off: evisum_ui_restart.                                   *)
Restart(p) ==
  /\ Loops(p) /\ Offers(p, "effects")
  /\ LET u == [ui[p] EXCEPT !.flags = @ \cup (ui[p].open \cap Flagged)] IN
     /\ ui' = [ui EXCEPT ![p] = u] /\ Save(p, u, "exec")
     /\ owed' = u.flags
  /\ UNCHANGED <<want, clients, sock, chosen, shared, lost>>

(* _shutdown_cb deletes the windows it knows, and the loop ends.           *)
ExitSignal(p) ==
  /\ Loops(p)
  /\ ui' = [ui EXCEPT ![p].open = @ \ DeletedAtExit, ![p].quit = TRUE]
  /\ IF ui[p].open \cap DeletedAtExit # {} THEN Save(p, ui[p], "loop")
     ELSE UNCHANGED <<pc, then, config, file>>
  /\ UNCHANGED <<want, clients, sock, chosen, owed, shared, lost>>

-----------------------------------------------------------------------------
(* The end of an instance *)

(* Mutant of LoopEnds: the socket is closed before the settings are saved. *)
LoopEndsUnlistened(p) ==
  /\ pc[p] = "loop" /\ ui[p].quit
  /\ Save(p, ui[p], "close")
  /\ sock' = IF sock = p THEN "none" ELSE sock
  /\ inbox' = [inbox EXCEPT ![p] = {}]
  /\ UNCHANGED <<serving, ui, want, chosen, owed, shared, lost, spent>>

(* evisum_ui_shutdown *)
LoopEnds(p) ==
  /\ pc[p] = "loop" /\ ui[p].quit
  /\ Save(p, ui[p], "close")
  /\ UNCHANGED <<ui, sock, clients, want, chosen, owed, shared, lost, spent>>

ServerShutdown(p) ==
  /\ sock' = IF sock = p THEN "none" ELSE sock
  /\ inbox' = [inbox EXCEPT ![p] = {}]

Forget(p) == ui' = [ui EXCEPT ![p] = NoUi] /\ config' = [config EXCEPT ![p] = Default]

(* The process ends, or starts again as a process that has yet to connect. *)
Ends(p) ==
  /\ pc[p] \in {"close", "exec"}
  /\ ServerShutdown(p) /\ Forget(p)
  /\ IF pc[p] = "exec" THEN Goes(p, "connect") /\ UNCHANGED want
     ELSE Goes(p, "off") /\ want' = [want EXCEPT ![p] = "proc"]
  /\ UNCHANGED <<file, serving, chosen, owed, shared, lost, spent>>

(* The kernel closes the sockets of a process that is killed.              *)
Killed(p) ==
  /\ pc[p] # "off" /\ Spends("crashes", MaxCrashes)
  /\ pc' = [pc EXCEPT ![p] = "off"] /\ then' = [then EXCEPT ![p] = ""]
  /\ sock' = IF sock = p THEN "none" ELSE sock
  /\ inbox' = [q \in Processes |-> IF q = p THEN {} ELSE inbox[q] \ {p}]
  /\ serving' = [q \in Processes |-> IF q = p \/ serving[q] = p THEN "none"
                                      ELSE serving[q]]
  /\ Forget(p) /\ want' = [want EXCEPT ![p] = "proc"] /\ lost' = TRUE
  /\ UNCHANGED <<file, chosen, owed, shared>>

Program(p) ==
  \/ Saved(p) \/ Load(p) \/ Connect(p) \/ ServerGone(p) \/ Listen(p)
  \/ FirstActivate(p) \/ Hello(p) \/ Reply(p) \/ LoopEnds(p) \/ Ends(p)

User(p) ==
  \/ Start(p) \/ OptionChanged(p) \/ VisualClicked(p) \/ Restart(p) \/ ExitSignal(p)
  \/ \E w \in Windows : MenuClicked(p, w) \/ Moved(p, w) \/ Closed(p, w)

Next == \E p \in Processes : Program(p) \/ User(p) \/ Killed(p)

(* Each process is scheduled by the system; no user has to do anything.    *)
Spec == Init /\ [][Next]_vars /\ \A p \in Processes : WF_vars(Program(p))

-----------------------------------------------------------------------------
(* Properties *)

(* A window that is open has the size, place and choices it was last given *)
(* in whatever instance that was, unless two instances overwrite each      *)
(* other's file or one was killed (evisum_ui_config_save before the window *)
(* is forgotten, evisum_server_shutdown after it).                         *)
KeepsChosen ==
  \A p \in Processes : \A w \in ui[p].open :
    ui[p].geom[w] = chosen[w] \/ shared \/ lost

(* What holds of the instances and their windows at every step.            *)
SessionInv == TypeOK /\ KeepsChosen

(* A second instance comes only from starts that overlap: the other has    *)
(* found no server and does not listen yet, or listens since the one that  *)
(* both of them knew is gone (evisum_server_client_add, elm_main).         *)
OverlapShares ==
  [][~ shared /\ shared' =>
       \/ \E p \in Processes : \/ pc[p] \in {"load", "listen"}
                               \/ pc[p] = "saving" /\ then[p] = "listen"
       \/ sock # "none" /\ \E p \in Processes : pc[p] = "wait" /\ pc'[p] = "load"]_vars

(* A start that ends answered finds its window in the instance that        *)
(* answered it (_evisum_server_server_client_data_cb).                     *)
AnsweredIsOpen ==
  [][\A p \in Processes :
       pc[p] = "wait" /\ pc'[p] = "off" /\ spent' = spent =>
         \E q \in Processes : pc[q] = "reply" /\ want[p] \in ui[q].open]_vars

(* The windows a restart closed come back, in the process that restarts or *)
(* in one that starts meanwhile (evisum_ui_restart, evisum_ui_activate).   *)
Restored == owed # {} ~> owed = {} \/ shared \/ lost

=============================================================================
