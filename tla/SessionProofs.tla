---------------------------- MODULE SessionProofs ----------------------------
(***************************************************************************)
(* Windows keep what was chosen for them, a second instance comes only     *)
(* from starts that overlap, and a start that is answered finds its window *)
(* open: for any number of processes, starts, inputs and crashes.          *)
(*                                                                         *)
(* The inductive invariant: SoleInv, while nothing was shared there is one *)
(* instance, and from Listen on it has the socket; ClientsInv, each client *)
(* waits in one place, and the one that is answered has its window;        *)
(* SettingsInv, where what the user chose is: in the ui of the instance,   *)
(* in its config() for the windows that are closed, or in the file.        *)
(***************************************************************************)
EXTENDS Session, TLAPS

(* The process is an instance that does not listen yet.                    *)
Starting(p) == pc[p] \in {"load", "listen"} \/ (pc[p] = "saving" /\ then[p] = "listen")

SoleInv ==
  /\ ~ shared => \A p, q \in Instances : p = q
  /\ ~ shared => \A p \in Instances : Starting(p) \/ sock = p
  /\ sock # "none" => sock \in Instances /\ ~ Starting(sock)

ClientsInv ==
  \A p \in Processes :
    /\ \A c \in inbox[p] : pc[c] = "wait" /\ \A q \in Processes :
                             serving[q] # c /\ (c \in inbox[q] => p = q)
    /\ serving[p] # "none" =>
         /\ pc[p] = "reply" /\ pc[serving[p]] = "wait"
         /\ want[serving[p]] \in ui[p].open
         /\ \A q \in Processes : serving[q] = serving[p] => p = q
    /\ p \notin Instances => ui[p].open = {}

(* Where the settings of an instance are safe.                             *)
AtRest(c) == IF c.ok THEN c.geom = chosen ELSE chosen = Default.geom
SettingsOf(p) ==
  IF pc[p] = "load" THEN ui[p].open = {} /\ AtRest(file)
  ELSE /\ ui[p].geom = chosen
       /\ \A w \in Windows \ (ui[p].open \cup {"view"}) : config[p].geom[w] = chosen[w]
       /\ pc[p] = "saving" /\ then[p] \in {"close", "exec"} => config[p].geom = chosen
       /\ pc[p] \in {"close", "exec"} => file.ok /\ file.geom = chosen
SettingsInv ==
  ~ shared /\ ~ lost =>
    /\ Instances = {} => AtRest(file)
    /\ \A p \in Instances : SettingsOf(p)

IInv == TypeOK /\ SoleInv /\ ClientsInv /\ SettingsInv

-----------------------------------------------------------------------------
(* What the records have.                                                  *)
LEMMA RecordTypes ==
  /\ \A u \in Uis : /\ u.open \subseteq Windows /\ u.flags \subseteq Flagged
                    /\ u.geom \in Geometry /\ u.quit \in BOOLEAN
  /\ \A c \in Configs : c.ok \in BOOLEAN /\ c.geom \in Geometry /\ c.restart \subseteq Flagged
  /\ Default \in Configs /\ Default.ok
  /\ Torn \in Configs /\ ~ Torn.ok
  /\ NoUi \in Uis /\ NoUi.open = {} /\ NoUi.flags = {}
<1>1. [w \in Windows |-> 0] \in Geometry
  BY DEF Geometry
<1>2. Default \in Configs /\ Default.ok /\ Torn \in Configs /\ ~ Torn.ok
  BY <1>1 DEF Default, Torn, Configs
<1>3. NoUi \in Uis /\ NoUi.open = {} /\ NoUi.flags = {}
  BY <1>1 DEF NoUi, Default, Uis
<1> QED
  BY <1>2, <1>3 DEF Uis, Configs

(* The parts of the invariant, and the types that come with them.          *)
LEMMA Unfolded ==
  ASSUME IInv
  PROVE  /\ TypeOK /\ SoleInv /\ ClientsInv /\ SettingsInv
         /\ pc \in [Processes -> Places] /\ then \in [Processes -> Thens]
         /\ ui \in [Processes -> Uis] /\ config \in [Processes -> Configs]
         /\ file \in Configs /\ chosen \in Geometry
         /\ \A p \in Processes :
              /\ ui[p].open \subseteq Windows /\ ui[p].geom \in Geometry
              /\ ui[p].flags \subseteq Flagged
              /\ config[p].geom \in Geometry /\ config[p].ok /\ Consistent(p)
              /\ p \in Instances <=> pc[p] \in Alone
              /\ pc[p] # "reply" => serving[p] = "none"
<1>1. TypeOK /\ SoleInv /\ ClientsInv /\ SettingsInv
  BY DEF IInv
<1>2. /\ pc \in [Processes -> Places] /\ then \in [Processes -> Thens]
      /\ ui \in [Processes -> Uis] /\ config \in [Processes -> Configs]
      /\ file \in Configs /\ chosen \in Geometry
      /\ \A p \in Processes : Consistent(p) /\ config[p].ok
  BY <1>1 DEF TypeOK, Consistent
<1>3. \A p \in Processes : /\ ui[p].open \subseteq Windows /\ ui[p].geom \in Geometry
                           /\ ui[p].flags \subseteq Flagged /\ config[p].geom \in Geometry
  BY <1>2, RecordTypes
<1>4. \A p \in Processes : p \in Instances <=> pc[p] \in Alone
  BY DEF Instances
<1>5. \A p \in Processes : pc[p] # "reply" => serving[p] = "none"
  BY <1>1 DEF ClientsInv
<1> QED
  BY <1>1, <1>2, <1>3, <1>4, <1>5

-----------------------------------------------------------------------------
(* Where a process goes, and what it writes *)

(* A process that goes on to another place.                                *)
LEMMA GoesEffect ==
  ASSUME IInv, NEW p \in Processes, NEW l \in Places, Goes(p, l)
  PROVE  /\ pc' \in [Processes -> Places] /\ then' = then /\ pc'[p] = l
         /\ \A q \in Processes : q # p => pc'[q] = pc[q]
  BY Unfolded DEF Goes

(* One that begins to write its settings.                                  *)
LEMMA WriteEffect ==
  ASSUME IInv, NEW p \in Processes, NEW c \in Configs, NEW next \in Thens, Write(p, c, next)
  PROVE  /\ pc' \in [Processes -> Places] /\ then' \in [Processes -> Thens]
         /\ config' \in [Processes -> Configs] /\ file' = Torn
         /\ pc'[p] = "saving" /\ then'[p] = next /\ config'[p] = c
         /\ \A q \in Processes : q # p => /\ pc'[q] = pc[q] /\ then'[q] = then[q]
                                          /\ config'[q] = config[q]
<1>1. "saving" \in Places
  BY DEF Places, Alone
<1> QED
  BY <1>1, Unfolded DEF Write

(* evisum_ui_config_save: the fields of a window that exists are copied.   *)
LEMMA CopiedEffect ==
  ASSUME NEW c \in Configs, NEW u \in Uis, c.ok
  PROVE  /\ Copied(c, u) \in Configs /\ Copied(c, u).ok
         /\ \A w \in Windows : Copied(c, u).geom[w] =
              IF w \in u.open \cup {"view"} THEN u.geom[w] ELSE c.geom[w]
<1> DEFINE g == [w \in Windows |-> IF w \in u.open \cup {"view"} THEN u.geom[w] ELSE c.geom[w]]
           r == (c.restart \ u.open) \cup (u.flags \cap u.open)
<1>1. g \in Geometry /\ r \subseteq Flagged
  BY RecordTypes DEF Geometry
<1>2. Copied(c, u) = [c EXCEPT !.geom = g, !.restart = r]
  BY DEF Copied
<1>3. \A w \in Windows : g[w] = IF w \in u.open \cup {"view"} THEN u.geom[w] ELSE c.geom[w]
  OBVIOUS
<1> HIDE DEF g, r
<1>4. Copied(c, u) \in Configs /\ Copied(c, u).ok /\ Copied(c, u).geom = g
  BY <1>1, <1>2 DEF Configs
<1> QED
  BY <1>3, <1>4

(* What is saved is what the user chose, if the rest was saved before.     *)
LEMMA CopiedIsChosen ==
  ASSUME NEW c \in Configs, NEW u \in Uis, c.ok, NEW g \in Geometry, u.geom = g,
         \A w \in Windows \ (u.open \cup {"view"}) : c.geom[w] = g[w]
  PROVE  Copied(c, u).geom = g
<1>1. \A w \in Windows : Copied(c, u).geom[w] = g[w]
  BY CopiedEffect
<1>2. Copied(c, u).geom \in Geometry
  BY CopiedEffect, RecordTypes
<1> QED
  BY <1>1, <1>2 DEF Geometry

(* A step of an instance that stays one, and answers nobody.               *)
LEMMA InstanceKeeps ==
  ASSUME IInv, NEW p \in Instances, UNCHANGED <<want, inbox, serving, shared, lost>>,
         \A q \in Processes : q # p => pc'[q] = pc[q] /\ then'[q] = then[q] /\ ui'[q] = ui[q],
         pc'[p] \in Alone, pc[p] # "reply",
         ~ shared /\ ~ lost /\ SettingsOf(p) => SettingsOf(p)'
  PROVE  ClientsInv' /\ SettingsInv'
<1>1. p \in Processes /\ serving[p] = "none" /\ pc[p] \in Alone
  BY Unfolded DEF Instances
<1>2. Instances' = Instances
  BY <1>1 DEF Instances
<1>3. ClientsInv'
  <2>1. pc[p] # "wait"
    BY <1>1 DEF Alone
  <2>2. \A c \in Processes : pc[c] = "wait" => pc'[c] = "wait"
    BY <2>1
  <2>3. \A q \in Processes : inbox[q] \subseteq Processes /\ serving[q] \in Processes \cup {"none"}
    BY Unfolded DEF TypeOK
  <2> QED
    BY <1>1, <1>2, <2>2, <2>3, Unfolded DEF ClientsInv
<1>4. SettingsInv'
  <2>1. ~ shared => \A q \in Instances : q = p
    BY Unfolded DEF SoleInv
  <2> QED
    BY <1>2, <2>1, Unfolded DEF SettingsInv
<1> QED
  BY <1>3, <1>4

(* The one instance stays one.                                             *)
LEMMA StaysInstance ==
  ASSUME IInv, NEW p \in Instances, UNCHANGED <<sock, shared>>,
         \A q \in Processes : q # p => pc'[q] = pc[q] /\ then'[q] = then[q],
         pc'[p] \in Alone, Starting(p)' <=> Starting(p)
  PROVE  SoleInv'
<1>1. p \in Processes /\ pc[p] \in Alone
  BY DEF Instances
<1>2. Instances' = Instances
  BY <1>1 DEF Instances
<1>3. \A q \in Processes : Starting(q)' <=> Starting(q)
  BY DEF Starting
<1> QED
  BY <1>1, <1>2, <1>3, Unfolded DEF SoleInv, Instances

-----------------------------------------------------------------------------
(* The steps of an instance that stays one *)

LEMMA SavedKeeps ==
  ASSUME IInv, NEW p \in Processes, Saved(p)
  PROVE  IInv'
<1>1. /\ want' = want /\ inbox' = inbox /\ serving' = serving /\ ui' = ui /\ config' = config
      /\ sock' = sock /\ chosen' = chosen /\ owed' = owed /\ shared' = shared
      /\ lost' = lost /\ spent' = spent /\ file' = config[p] /\ pc[p] = "saving"
  BY DEF Saved, clients
<1>2. then[p] \in {"listen", "loop", "reply", "close", "exec"}
  BY <1>1, Unfolded DEF Consistent, Thens
<1>3. /\ pc'[p] = then[p] /\ then'[p] = ""
      /\ \A q \in Processes : q # p => pc'[q] = pc[q] /\ then'[q] = then[q]
  BY Unfolded DEF Saved
<1>4. pc' \in [Processes -> Places] /\ then' \in [Processes -> Thens]
  BY <1>2, Unfolded DEF Saved, Places, Alone, Thens
<1>5. TypeOK'
  <2>1. \A q \in Processes : Consistent(q)'
    BY <1>1, <1>2, <1>3, <1>4, Unfolded DEF Consistent
  <2> QED
    BY <1>1, <1>2, <1>3, <1>4, Unfolded, <2>1 DEF TypeOK
<1>6. p \in Instances /\ pc'[p] \in Alone /\ (Starting(p)' <=> Starting(p))
  BY <1>1, <1>2, <1>3, Unfolded DEF Alone, Starting
<1>7. SettingsOf(p) => SettingsOf(p)'
  BY <1>1, <1>2, <1>3, Unfolded DEF SettingsOf
<1> QED
  BY <1>1, <1>3, <1>5, <1>6, <1>7, InstanceKeeps, StaysInstance DEF IInv

LEMMA LoadKeeps ==
  ASSUME IInv, NEW p \in Processes, Load(p)
  PROVE  IInv'
<1> DEFINE c == IF file.ok THEN file ELSE Default
<1>1. /\ want' = want /\ inbox' = inbox /\ serving' = serving
      /\ sock' = sock /\ chosen' = chosen /\ owed' = owed /\ shared' = shared
      /\ lost' = lost /\ spent' = spent /\ pc[p] = "load"
      /\ ui' = [ui EXCEPT ![p] = Loaded(c)]
  BY DEF Load, clients
<1>2. c \in Configs /\ c.ok
  BY Unfolded, RecordTypes
<1>3. /\ Loaded(c) \in Uis /\ Loaded(c).geom = c.geom /\ Loaded(c).open = {}
  <2> HIDE DEF c
  <2> QED
    BY <1>2, RecordTypes DEF Loaded, Uis
<1>4. /\ ui' \in [Processes -> Uis] /\ ui'[p].geom = c.geom /\ ui'[p].open = {}
      /\ \A q \in Processes : q # p => ui'[q] = ui[q]
  BY <1>1, <1>3, Unfolded
<1>5. /\ pc' \in [Processes -> Places] /\ then' \in [Processes -> Thens]
      /\ config' \in [Processes -> Configs] /\ config'[p] = c /\ file' \in Configs
      /\ \A q \in Processes : q # p => pc'[q] = pc[q] /\ then'[q] = then[q] /\ config'[q] = config[q]
      /\ \/ pc'[p] = "listen" /\ then'[p] = then[p] /\ file' = file
         \/ pc'[p] = "saving" /\ then'[p] = "listen"
  <2>1. CASE file.ok
    <3>1. config' = [config EXCEPT ![p] = c] /\ Goes(p, "listen") /\ file' = file
      BY <2>1 DEF Load
    <3>2. "listen" \in Places
      BY DEF Places, Alone
    <3> QED
      BY <1>2, <3>1, <3>2, GoesEffect, Unfolded
  <2>2. CASE ~ file.ok
    <3>1. Write(p, c, "listen") /\ "listen" \in Thens
      BY <2>2 DEF Load, Thens
    <3> QED
      BY <1>2, <3>1, WriteEffect, RecordTypes
  <2> QED
    BY <2>1, <2>2
<1>6. TypeOK'
  <2> HIDE DEF c
  <2>2. Consistent(p)'
    BY <1>1, <1>2, <1>5, Unfolded DEF Consistent
  <2>3. ASSUME NEW q \in Processes, q # p PROVE Consistent(q)'
    <3>1. pc'[q] = pc[q] /\ then'[q] = then[q] /\ config'[q] = config[q] /\ ui'[q] = ui[q]
      BY <1>4, <1>5, <2>3
    <3> QED
      BY <3>1, Unfolded DEF Consistent
  <2>1. \A q \in Processes : Consistent(q)'
    BY <2>2, <2>3
  <2> QED
    BY <1>1, <1>2, <1>4, <1>5, Unfolded, <2>1 DEF TypeOK
<1>7. p \in Instances /\ pc'[p] \in Alone /\ (Starting(p)' <=> Starting(p))
  BY <1>1, <1>5, Unfolded DEF Alone, Starting
<1>8. SettingsOf(p) => SettingsOf(p)'
  BY <1>1, <1>4, <1>5 DEF SettingsOf, AtRest
<1> QED
  BY <1>1, <1>4, <1>5, <1>6, <1>7, <1>8, InstanceKeeps, StaysInstance DEF IInv

(* What is saved: the windows that are open, as they are.                  *)
LEMMA SaveEffect ==
  ASSUME IInv, NEW p \in Processes, NEW u \in Uis, NEW next \in Thens, Save(p, u, next)
  PROVE  /\ pc' \in [Processes -> Places] /\ then' \in [Processes -> Thens]
         /\ config' \in [Processes -> Configs] /\ file' \in Configs
         /\ pc'[p] = "saving" /\ then'[p] = next
         /\ config'[p] = Copied(config[p], u) /\ config'[p].ok
         /\ \A w \in Windows \ (u.open \cup {"view"}) :
              config'[p].geom[w] = config[p].geom[w]
         /\ \A q \in Processes : q # p => /\ pc'[q] = pc[q] /\ then'[q] = then[q]
                                          /\ config'[q] = config[q]
<1>1. config[p] \in Configs /\ config[p].ok
  BY Unfolded
<1>2. /\ Copied(config[p], u) \in Configs /\ Copied(config[p], u).ok
      /\ \A w \in Windows \ (u.open \cup {"view"}) :
           Copied(config[p], u).geom[w] = config[p].geom[w]
  BY <1>1, CopiedEffect
<1>3. Write(p, Copied(config[p], u), next)
  BY DEF Save
<1> QED
  BY <1>2, <1>3, WriteEffect, RecordTypes

(* evisum_ui_activate opens the window asked for if no flag is set.        *)
LEMMA ActivateEffect ==
  ASSUME IInv, NEW p \in Processes, NEW w \in Windows, NEW next \in {"loop", "reply"},
         Activate(p, w, next)
  PROVE  /\ pc' \in [Processes -> Places] /\ then' \in [Processes -> Thens]
         /\ ui' \in [Processes -> Uis] /\ config' \in [Processes -> Configs]
         /\ file' \in Configs /\ owed' \subseteq owed
         /\ ui'[p].flags = {} /\ ui'[p].geom = ui[p].geom /\ ui[p].open \subseteq ui'[p].open
         /\ config'[p].ok
         /\ \A v \in Windows \ (ui'[p].open \cup {"view"}) :
              config'[p].geom[v] = config[p].geom[v]
         /\ \A q \in Processes : q # p => /\ pc'[q] = pc[q] /\ then'[q] = then[q]
                                          /\ config'[q] = config[q] /\ ui'[q] = ui[q]
         /\ \/ pc'[p] = next /\ then'[p] = then[p]
            \/ pc'[p] = "saving" /\ then'[p] = next
         /\ ui[p].flags = {} => w \in ui'[p].open /\ pc'[p] = next
<1> DEFINE back == ui[p].flags
           open == ui[p].open \cup (IF back = {} THEN {w} ELSE back)
           u == [ui[p] EXCEPT !.open = open, !.flags = {}]
<1>1. /\ ui' = [ui EXCEPT ![p] = u] /\ owed' = owed \ back
      /\ IF back # {} THEN Save(p, u, next) ELSE Goes(p, next) /\ UNCHANGED <<config, file>>
  BY DEF Activate
<1>2. open \subseteq Windows
  BY Unfolded DEF Flagged, Windows
<1>3. ui[p].open \subseteq open /\ (back = {} => w \in open)
  OBVIOUS
<1> HIDE DEF back, open
<1>4. u \in Uis /\ u.open = open /\ u.flags = {} /\ u.geom = ui[p].geom
  BY <1>2, Unfolded DEF Uis
<1> HIDE DEF u
<1>5. ui' \in [Processes -> Uis] /\ ui'[p] = u /\ \A q \in Processes : q # p => ui'[q] = ui[q]
  BY <1>1, <1>4, Unfolded
<1>6. next \in Thens /\ next \in Places
  BY DEF Thens, Places, Alone
<1>7. CASE back = {}
  <2>1. Goes(p, next) /\ config' = config /\ file' = file
    BY <1>1, <1>7
  <2> QED
    BY <1>1, <1>3, <1>4, <1>5, <1>6, <1>7, <2>1, GoesEffect, Unfolded
<1>8. CASE back # {}
  <2>1. Save(p, u, next)
    BY <1>1, <1>8
  <2> QED
    BY <1>1, <1>3, <1>4, <1>5, <1>6, <1>8, <2>1, SaveEffect DEF back
<1> QED
  BY <1>7, <1>8

LEMMA FirstActivateKeeps ==
  ASSUME IInv, NEW p \in Processes, FirstActivate(p)
  PROVE  IInv'
<1>1. /\ want' = want /\ inbox' = inbox /\ serving' = serving /\ sock' = sock
      /\ chosen' = chosen /\ shared' = shared /\ lost' = lost /\ spent' = spent
      /\ pc[p] = "activate" /\ Activate(p, want[p], "loop") /\ want[p] \in Windows
  BY Unfolded DEF FirstActivate, clients, TypeOK
<1>2. /\ pc' \in [Processes -> Places] /\ then' \in [Processes -> Thens]
      /\ ui' \in [Processes -> Uis] /\ config' \in [Processes -> Configs]
      /\ file' \in Configs /\ owed' \subseteq owed
      /\ ui'[p].flags = {} /\ ui'[p].geom = ui[p].geom /\ ui[p].open \subseteq ui'[p].open
      /\ config'[p].ok
      /\ \A v \in Windows \ (ui'[p].open \cup {"view"}) :
           config'[p].geom[v] = config[p].geom[v]
      /\ \A q \in Processes : q # p => /\ pc'[q] = pc[q] /\ then'[q] = then[q]
                                       /\ config'[q] = config[q] /\ ui'[q] = ui[q]
      /\ \/ pc'[p] = "loop" /\ then'[p] = then[p]
         \/ pc'[p] = "saving" /\ then'[p] = "loop"
  BY <1>1, ActivateEffect
<1>3. TypeOK'
  <2>1. Consistent(p)'
    <3>1. then[p] = ""
      BY <1>1, Unfolded DEF Consistent
    <3> QED
      BY <1>2, <3>1 DEF Consistent
  <2>2. \A q \in Processes : q # p => Consistent(q)'
    <3>1. \A q \in Processes : Consistent(q)
      BY Unfolded
    <3>2. \A q \in Processes : q # p => /\ pc'[q] = pc[q] /\ then'[q] = then[q]
                                       /\ config'[q] = config[q] /\ ui'[q] = ui[q]
      BY <1>2
    <3> QED
      BY <3>1, <3>2 DEF Consistent
  <2> QED
    BY <1>1, <1>2, Unfolded, <2>1, <2>2 DEF TypeOK
<1>4. p \in Instances /\ pc'[p] \in Alone /\ (Starting(p)' <=> Starting(p))
  BY <1>1, <1>2, Unfolded DEF Alone, Starting
<1>5. SettingsOf(p) => SettingsOf(p)'
  BY <1>1, <1>2 DEF SettingsOf
<1> QED
  BY <1>1, <1>2, <1>3, <1>4, <1>5, InstanceKeeps, StaysInstance DEF IInv

LEMMA ListenKeeps ==
  ASSUME IInv, NEW p \in Processes, Listen(p)
  PROVE  IInv'
<1>1. /\ ui' = ui /\ config' = config /\ file' = file /\ want' = want /\ inbox' = inbox
      /\ serving' = serving /\ chosen' = chosen /\ owed' = owed /\ shared' = shared
      /\ lost' = lost /\ spent' = spent /\ pc[p] = "listen"
      /\ sock' = IF sock = "none" THEN p ELSE sock
      /\ Goes(p, "activate")
  BY DEF Listen, settings, clients
<1>2. /\ pc' \in [Processes -> Places] /\ then' = then /\ pc'[p] = "activate"
      /\ \A q \in Processes : q # p => pc'[q] = pc[q]
  BY <1>1, GoesEffect DEF Places, Alone
<1>3. TypeOK'
  <2>1. \A q \in Processes : Consistent(q)'
    BY <1>1, <1>2, Unfolded DEF Consistent
  <2> QED
    BY <1>1, <1>2, Unfolded, <2>1 DEF TypeOK
<1>4. p \in Instances /\ pc'[p] \in Alone /\ ~ Starting(p)' /\ Starting(p)
  BY <1>1, <1>2, Unfolded DEF Alone, Starting
<1>5. SettingsOf(p) => SettingsOf(p)'
  BY <1>1, <1>2 DEF SettingsOf
<1>6. SoleInv'
  <2>1. Instances' = Instances
    BY <1>2, <1>4 DEF Instances
  <2>2. \A q \in Processes : q # p => (Starting(q)' <=> Starting(q))
    BY <1>2 DEF Starting
  <2>3. ~ shared => \A q \in Instances : q = p
    BY <1>4, Unfolded DEF SoleInv
  <2>4. sock # "none" => sock \in Instances /\ ~ Starting(sock) /\ sock # p
    BY <1>4, Unfolded DEF SoleInv
  <2>5. p # "none" /\ \A q \in Instances : q \in Processes
    BY ProcessesAssumption DEF Instances
  <2> QED
    BY <1>1, <1>4, <2>1, <2>2, <2>3, <2>4, <2>5 DEF SoleInv
<1> QED
  BY <1>1, <1>2, <1>3, <1>4, <1>5, <1>6, InstanceKeeps DEF IInv

-----------------------------------------------------------------------------
(* The main loop of an instance *)

(* Bounds are kept.                                                        *)
LEMMA Spent ==
  ASSUME IInv, NEW what \in {"starts", "inputs", "crashes"}, NEW max \in Nat,
         Spends(what, max),
         max = IF what = "starts" THEN MaxStarts
               ELSE IF what = "inputs" THEN MaxInputs ELSE MaxCrashes
  PROVE  spent' \in Spendings /\ spent' # spent
<1>1. spent \in Spendings
  BY Unfolded DEF TypeOK
<1>2. spent.starts \in Nat /\ spent.inputs \in Nat /\ spent.crashes \in Nat
  BY <1>1, BoundsAssumption DEF Spendings
<1>3. spent[what] < max /\ spent' = [spent EXCEPT ![what] = @ + 1]
  BY DEF Spends
<1>4. spent'[what] = spent[what] + 1 /\ spent[what] \in Nat
  BY <1>1, <1>2, <1>3 DEF Spendings
<1>5. spent' # spent
  BY <1>4
<1>6. spent' \in Spendings
  BY <1>1, <1>2, <1>3, BoundsAssumption DEF Spendings
<1> QED
  BY <1>5, <1>6

(* The size, place or choice of a window changes.                          *)
LEMMA Flipped ==
  ASSUME NEW g \in Geometry, NEW w \in Windows
  PROVE  /\ [g EXCEPT ![w] = 1 - g[w]] \in Geometry
         /\ \A v \in Windows : v # w => [g EXCEPT ![w] = 1 - g[w]][v] = g[v]
  BY DEF Geometry

LEMMA LoopKeeps ==
  ASSUME IInv, NEW p \in Processes, pc[p] = "loop",
         UNCHANGED <<want, inbox, serving, sock, shared, lost>>,
         pc' \in [Processes -> Places], then' \in [Processes -> Thens],
         ui' \in [Processes -> Uis], config' \in [Processes -> Configs], file' \in Configs,
         chosen' \in Geometry, owed' \subseteq Flagged, spent' \in Spendings,
         \A q \in Processes : q # p => /\ pc'[q] = pc[q] /\ then'[q] = then[q]
                                       /\ config'[q] = config[q] /\ ui'[q] = ui[q],
         config'[p].ok,
         \/ pc'[p] = "loop" /\ then'[p] = "" /\ ui'[p].flags = {}
         \/ pc'[p] = "saving" /\ then'[p] = "loop" /\ ui'[p].flags = {}
         \/ pc'[p] = "saving" /\ then'[p] \in {"close", "exec"},
         ~ shared /\ ~ lost /\ SettingsOf(p) => SettingsOf(p)'
  PROVE  IInv'
<1>1. TypeOK'
  <2>1. Consistent(p)'
    BY DEF Consistent
  <2>2. \A q \in Processes : q # p => Consistent(q)'
    <3>1. \A q \in Processes : Consistent(q)
      BY Unfolded
    <3> QED
      BY <3>1 DEF Consistent
  <2> QED
    BY Unfolded, <2>1, <2>2 DEF TypeOK
<1>2. p \in Instances /\ pc'[p] \in Alone /\ (Starting(p)' <=> Starting(p))
  BY Unfolded DEF Alone, Starting
<1> QED
  BY <1>1, <1>2, InstanceKeeps, StaysInstance DEF IInv

(* Where the settings are once the loop has written them.                  *)
LEMMA SaveKeeps ==
  ASSUME IInv, NEW p \in Processes, NEW u \in Uis, NEW next \in Thens,
         pc[p] = "loop", Save(p, u, next), u.open = ui[p].open,
         ui'[p].geom = u.geom, u.geom = chosen',
         \A w \in Windows \ u.open : chosen'[w] = chosen[w],
         SettingsOf(p)
  PROVE  SettingsOf(p)'
<1>1. pc'[p] = "saving" /\ config'[p] = Copied(config[p], u)
  BY SaveEffect
<1>2. u.geom \in Geometry /\ config[p] \in Configs /\ config[p].ok
  BY Unfolded, RecordTypes
<1>3. \A w \in Windows \ (u.open \cup {"view"}) : config[p].geom[w] = u.geom[w]
  BY DEF SettingsOf
<1>4. Copied(config[p], u).geom = u.geom
  BY <1>2, <1>3, CopiedIsChosen
<1> QED
  BY <1>1, <1>4 DEF SettingsOf

LEMMA LoopEndsKeeps ==
  ASSUME IInv, NEW p \in Processes, LoopEnds(p)
  PROVE  IInv'
<1>1. /\ want' = want /\ inbox' = inbox /\ serving' = serving /\ ui' = ui /\ sock' = sock
      /\ chosen' = chosen /\ owed' = owed /\ shared' = shared /\ lost' = lost
      /\ spent' = spent /\ pc[p] = "loop" /\ Save(p, ui[p], "close")
  BY DEF LoopEnds, clients
<1>2. "close" \in Thens /\ ui[p] \in Uis
  BY Unfolded DEF Thens
<1>3. /\ pc' \in [Processes -> Places] /\ then' \in [Processes -> Thens]
      /\ config' \in [Processes -> Configs] /\ file' \in Configs
      /\ pc'[p] = "saving" /\ then'[p] = "close" /\ config'[p].ok
      /\ \A q \in Processes : q # p => /\ pc'[q] = pc[q] /\ then'[q] = then[q]
                                       /\ config'[q] = config[q]
  BY <1>1, <1>2, SaveEffect
<1>4. SettingsOf(p) => SettingsOf(p)'
  <2> SUFFICES ASSUME SettingsOf(p) PROVE SettingsOf(p)'
    OBVIOUS
  <2>1. ui[p].geom = chosen
    BY <1>1 DEF SettingsOf
  <2> QED
    BY <1>1, <1>2, <2>1, SaveKeeps
<1>5. owed \subseteq Flagged /\ spent \in Spendings
  BY Unfolded DEF TypeOK
<1> QED
  BY <1>1, <1>3, <1>4, <1>5, LoopKeeps, Unfolded

LEMMA RestartKeeps ==
  ASSUME IInv, NEW p \in Processes, Restart(p)
  PROVE  IInv'
<1> DEFINE fl == ui[p].flags \cup (ui[p].open \cap Flagged)
           u == [ui[p] EXCEPT !.flags = fl]
<1>1. /\ want' = want /\ inbox' = inbox /\ serving' = serving /\ sock' = sock
      /\ chosen' = chosen /\ shared' = shared /\ lost' = lost /\ pc[p] = "loop"
      /\ Spends("inputs", MaxInputs)
      /\ ui' = [ui EXCEPT ![p] = u] /\ Save(p, u, "exec") /\ owed' = u.flags
  BY DEF Restart, Loops, clients
<1>2. fl \subseteq Flagged
  BY Unfolded
<1> HIDE DEF fl
<1>3. u \in Uis /\ u.open = ui[p].open /\ u.geom = ui[p].geom /\ u.flags = fl
  BY <1>2, Unfolded DEF Uis
<1> HIDE DEF u
<1>4. "exec" \in Thens
  BY DEF Thens
<1>5. /\ pc' \in [Processes -> Places] /\ then' \in [Processes -> Thens]
      /\ config' \in [Processes -> Configs] /\ file' \in Configs
      /\ pc'[p] = "saving" /\ then'[p] = "exec" /\ config'[p].ok
      /\ \A q \in Processes : q # p => /\ pc'[q] = pc[q] /\ then'[q] = then[q]
                                       /\ config'[q] = config[q]
  BY <1>1, <1>3, <1>4, SaveEffect
<1>6. ui' \in [Processes -> Uis] /\ ui'[p] = u /\ \A q \in Processes : q # p => ui'[q] = ui[q]
  BY <1>1, <1>3, Unfolded
<1>7. SettingsOf(p) => SettingsOf(p)'
  <2> SUFFICES ASSUME SettingsOf(p) PROVE SettingsOf(p)'
    OBVIOUS
  <2>1. u.geom = chosen
    BY <1>1, <1>3 DEF SettingsOf
  <2> QED
    BY <1>1, <1>3, <1>4, <1>6, <2>1, SaveKeeps
<1>8. spent' \in Spendings
  BY <1>1, BoundsAssumption, Spent
<1>9. chosen' \in Geometry /\ owed' \subseteq Flagged
  BY <1>1, <1>2, <1>3, Unfolded
<1>10. \A q \in Processes : q # p => /\ pc'[q] = pc[q] /\ then'[q] = then[q]
                                    /\ config'[q] = config[q] /\ ui'[q] = ui[q]
  BY <1>5, <1>6
<1> QED
  BY <1>1, <1>5, <1>6, <1>7, <1>8, <1>9, <1>10, LoopKeeps

LEMMA ClosedKeeps ==
  ASSUME IInv, NEW p \in Processes, NEW w \in Windows, Closed(p, w)
  PROVE  IInv'
<1> DEFINE u == Without(ui[p], w)
<1>1. /\ want' = want /\ inbox' = inbox /\ serving' = serving /\ sock' = sock
      /\ chosen' = chosen /\ owed' = owed /\ shared' = shared /\ lost' = lost
      /\ pc[p] = "loop" /\ Spends("inputs", MaxInputs)
      /\ ui' = [ui EXCEPT ![p] = u] /\ Save(p, ui[p], "loop")
  BY DEF Closed, Loops, clients
<1>2. u \in Uis /\ u.geom = ui[p].geom /\ u.flags = ui[p].flags
  <2>1. ui[p] \in Uis
    BY Unfolded
  <2> QED
    BY <2>1 DEF Uis, Without
<1> HIDE DEF u
<1>3. "loop" \in Thens /\ ui[p] \in Uis /\ ui[p].flags = {}
  BY <1>1, Unfolded DEF Thens, Consistent
<1>4. /\ pc' \in [Processes -> Places] /\ then' \in [Processes -> Thens]
      /\ config' \in [Processes -> Configs] /\ file' \in Configs
      /\ pc'[p] = "saving" /\ then'[p] = "loop" /\ config'[p].ok
      /\ \A q \in Processes : q # p => /\ pc'[q] = pc[q] /\ then'[q] = then[q]
                                       /\ config'[q] = config[q]
  BY <1>1, <1>3, SaveEffect
<1>5. ui' \in [Processes -> Uis] /\ ui'[p] = u /\ \A q \in Processes : q # p => ui'[q] = ui[q]
  BY <1>1, <1>2, Unfolded
<1>6. SettingsOf(p) => SettingsOf(p)'
  <2> SUFFICES ASSUME SettingsOf(p) PROVE SettingsOf(p)'
    OBVIOUS
  <2>1. ui[p].geom = chosen
    BY <1>1 DEF SettingsOf
  <2> QED
    BY <1>1, <1>2, <1>3, <1>5, <2>1, SaveKeeps
<1>7. spent' \in Spendings /\ owed \subseteq Flagged
  BY <1>1, BoundsAssumption, Spent, Unfolded DEF TypeOK
<1>8. /\ chosen' \in Geometry /\ owed' \subseteq Flagged /\ ui'[p].flags = {}
      /\ \A q \in Processes : q # p => /\ pc'[q] = pc[q] /\ then'[q] = then[q]
                                       /\ config'[q] = config[q] /\ ui'[q] = ui[q]
  BY <1>1, <1>2, <1>3, <1>4, <1>5, <1>7, Unfolded
<1> QED
  BY <1>1, <1>4, <1>5, <1>6, <1>7, <1>8, LoopKeeps

LEMMA OptionChangedKeeps ==
  ASSUME IInv, NEW p \in Processes, OptionChanged(p)
  PROVE  IInv'
<1> DEFINE g == [ui[p].geom EXCEPT !["proc"] = 1 - ui[p].geom["proc"]]
           u == [ui[p] EXCEPT !.geom["proc"] = 1 - @]
<1>1. /\ want' = want /\ inbox' = inbox /\ serving' = serving /\ sock' = sock
      /\ owed' = owed /\ shared' = shared /\ lost' = lost
      /\ pc[p] = "loop" /\ Spends("inputs", MaxInputs) /\ Offers(p, "options")
      /\ ui' = [ui EXCEPT ![p] = u] /\ Save(p, u, "loop")
      /\ chosen' = [chosen EXCEPT !["proc"] = u.geom["proc"]]
  BY DEF OptionChanged, Loops, clients
<1>2. "proc" \in ui[p].open /\ "proc" \in Windows
  BY <1>1, Unfolded DEF Offers, Menu, Options, Windows
<1>3. g \in Geometry /\ g["proc"] \in 0 .. 1
  BY <1>2, Unfolded, Flipped DEF Geometry
<1>4. /\ u \in Uis /\ u.geom = g /\ u.flags = ui[p].flags /\ u.open = ui[p].open
  <2>1. ui[p] \in Uis /\ u = [ui[p] EXCEPT !.geom = g]
    BY Unfolded DEF Uis
  <2> HIDE DEF g, u
  <2> QED
    BY <1>3, <2>1 DEF Uis
<1>5. chosen' \in Geometry /\ \A v \in Windows : v # "proc" => chosen'[v] = chosen[v]
  BY <1>1, <1>3, <1>4, Unfolded DEF Geometry
<1>6. ui[p].geom = chosen => chosen' = g
  BY <1>1, <1>2, <1>4, Unfolded DEF Geometry
<1> HIDE DEF u, g
<1>7. "loop" \in Thens /\ ui[p].flags = {}
  BY <1>1, Unfolded DEF Thens, Consistent
<1>8. /\ pc' \in [Processes -> Places] /\ then' \in [Processes -> Thens]
      /\ config' \in [Processes -> Configs] /\ file' \in Configs
      /\ pc'[p] = "saving" /\ then'[p] = "loop" /\ config'[p].ok
      /\ \A q \in Processes : q # p => /\ pc'[q] = pc[q] /\ then'[q] = then[q]
                                       /\ config'[q] = config[q]
  BY <1>1, <1>4, <1>7, SaveEffect
<1>9. ui' \in [Processes -> Uis] /\ ui'[p] = u /\ \A q \in Processes : q # p => ui'[q] = ui[q]
  BY <1>1, <1>4, Unfolded
<1>10. SettingsOf(p) => SettingsOf(p)'
  <2> SUFFICES ASSUME SettingsOf(p) PROVE SettingsOf(p)'
    OBVIOUS
  <2>1. ui[p].geom = chosen
    BY <1>1 DEF SettingsOf
  <2>2. \A v \in Windows \ u.open : chosen'[v] = chosen[v]
    BY <1>2, <1>4, <1>5
  <2> QED
    BY <1>1, <1>4, <1>6, <1>7, <1>9, <2>1, <2>2, SaveKeeps
<1>11. spent' \in Spendings /\ owed \subseteq Flagged
  BY <1>1, BoundsAssumption, Spent, Unfolded DEF TypeOK
<1>12. /\ chosen' \in Geometry /\ owed' \subseteq Flagged /\ ui'[p].flags = {}
      /\ \A q \in Processes : q # p => /\ pc'[q] = pc[q] /\ then'[q] = then[q]
                                       /\ config'[q] = config[q] /\ ui'[q] = ui[q]
  BY <1>1, <1>4, <1>5, <1>7, <1>8, <1>9, <1>11, Unfolded
<1> QED
  BY <1>1, <1>5, <1>8, <1>9, <1>10, <1>11, <1>12, LoopKeeps

(* The window of the CPU is made again: the same windows are open.         *)
LEMMA VisualClickedKeeps ==
  ASSUME IInv, NEW p \in Processes, VisualClicked(p)
  PROVE  IInv'
<1> DEFINE g == [ui[p].geom EXCEPT !["cpu"] = 1 - ui[p].geom["cpu"]]
           u == [ui[p] EXCEPT !.geom["cpu"] = 1 - @]
           r == Reopened(u, "cpu")
<1>1. /\ want' = want /\ inbox' = inbox /\ serving' = serving /\ sock' = sock
      /\ owed' = owed /\ shared' = shared /\ lost' = lost
      /\ pc[p] = "loop" /\ Spends("inputs", MaxInputs) /\ Offers(p, "visuals")
      /\ ui' = [ui EXCEPT ![p] = r] /\ Save(p, u, "loop")
      /\ chosen' = [chosen EXCEPT !["cpu"] = u.geom["cpu"]]
  BY DEF VisualClicked, Loops, clients
<1>2. "cpu" \in ui[p].open /\ "cpu" \in Windows
  BY <1>1, Unfolded DEF Offers, Menu, Options, Windows
<1>3. g \in Geometry /\ g["cpu"] \in 0 .. 1
  BY <1>2, Unfolded, Flipped DEF Geometry
<1>4. /\ u \in Uis /\ u.geom = g /\ u.flags = ui[p].flags /\ u.open = ui[p].open
  <2>1. ui[p] \in Uis /\ u = [ui[p] EXCEPT !.geom = g]
    BY Unfolded DEF Uis
  <2> HIDE DEF g, u
  <2> QED
    BY <1>3, <2>1 DEF Uis
<1>5. chosen' \in Geometry /\ \A v \in Windows : v # "cpu" => chosen'[v] = chosen[v]
  BY <1>1, <1>3, <1>4, Unfolded DEF Geometry
<1>6. ui[p].geom = chosen => chosen' = g
  BY <1>1, <1>2, <1>4, Unfolded DEF Geometry
<1> HIDE DEF u, g
<1>7. "loop" \in Thens /\ ui[p].flags = {}
  BY <1>1, Unfolded DEF Thens, Consistent
<1>8. r \in Uis /\ r.geom = u.geom /\ r.flags = {} /\ r.open = u.open
  BY <1>2, <1>4, <1>7 DEF Reopened, Uis
<1> HIDE DEF r
<1>9. /\ pc' \in [Processes -> Places] /\ then' \in [Processes -> Thens]
      /\ config' \in [Processes -> Configs] /\ file' \in Configs
      /\ pc'[p] = "saving" /\ then'[p] = "loop" /\ config'[p].ok
      /\ \A q \in Processes : q # p => /\ pc'[q] = pc[q] /\ then'[q] = then[q]
                                       /\ config'[q] = config[q]
  BY <1>1, <1>4, <1>7, SaveEffect
<1>10. ui' \in [Processes -> Uis] /\ ui'[p] = r /\ \A q \in Processes : q # p => ui'[q] = ui[q]
  BY <1>1, <1>8, Unfolded
<1>11. SettingsOf(p) => SettingsOf(p)'
  <2> SUFFICES ASSUME SettingsOf(p) PROVE SettingsOf(p)'
    OBVIOUS
  <2>1. ui[p].geom = chosen
    BY <1>1 DEF SettingsOf
  <2>2. \A v \in Windows \ u.open : chosen'[v] = chosen[v]
    BY <1>2, <1>4, <1>5
  <2> QED
    BY <1>1, <1>4, <1>6, <1>7, <1>8, <1>10, <2>1, <2>2, SaveKeeps
<1>12. spent' \in Spendings /\ owed \subseteq Flagged
  BY <1>1, BoundsAssumption, Spent, Unfolded DEF TypeOK
<1>13. /\ chosen' \in Geometry /\ owed' \subseteq Flagged /\ ui'[p].flags = {}
      /\ \A q \in Processes : q # p => /\ pc'[q] = pc[q] /\ then'[q] = then[q]
                                       /\ config'[q] = config[q] /\ ui'[q] = ui[q]
  BY <1>1, <1>5, <1>8, <1>9, <1>10, <1>12, Unfolded
<1> QED
  BY <1>1, <1>5, <1>9, <1>10, <1>11, <1>12, <1>13, LoopKeeps

LEMMA MovedKeeps ==
  ASSUME IInv, NEW p \in Processes, NEW w \in Windows, Moved(p, w)
  PROVE  IInv'
<1> DEFINE g == [ui[p].geom EXCEPT ![w] = 1 - ui[p].geom[w]]
           u == [ui[p] EXCEPT !.geom[w] = 1 - @]
<1>1. /\ want' = want /\ inbox' = inbox /\ serving' = serving /\ sock' = sock
      /\ owed' = owed /\ shared' = shared /\ lost' = lost /\ pc' = pc /\ then' = then
      /\ config' = config /\ file' = file
      /\ pc[p] = "loop" /\ Spends("inputs", MaxInputs) /\ w \in ui[p].open
      /\ ui' = [ui EXCEPT ![p] = u]
      /\ chosen' = [chosen EXCEPT ![w] = 1 - ui[p].geom[w]]
  BY DEF Moved, Loops, clients
<1>2. g \in Geometry /\ g[w] = 1 - ui[p].geom[w] /\ g[w] \in 0 .. 1
  BY Unfolded, Flipped DEF Geometry
<1>3. /\ u \in Uis /\ u.geom = g /\ u.flags = ui[p].flags /\ u.open = ui[p].open
  <2>1. ui[p] \in Uis /\ u = [ui[p] EXCEPT !.geom = g]
    BY Unfolded DEF Uis
  <2> HIDE DEF g, u
  <2> QED
    BY <1>2, <2>1 DEF Uis
<1>4. chosen' \in Geometry /\ \A v \in Windows : v # w => chosen'[v] = chosen[v]
  BY <1>1, <1>2, Unfolded DEF Geometry
<1>5. ui[p].geom = chosen => chosen' = g
  BY <1>1, <1>2, Unfolded DEF Geometry
<1> HIDE DEF u, g
<1>6. then[p] = "" /\ ui[p].flags = {}
  BY <1>1, Unfolded DEF Consistent
<1>7. ui' \in [Processes -> Uis] /\ ui'[p] = u /\ \A q \in Processes : q # p => ui'[q] = ui[q]
  BY <1>1, <1>3, Unfolded
<1>8. SettingsOf(p) => SettingsOf(p)'
  <2> SUFFICES ASSUME SettingsOf(p) PROVE SettingsOf(p)'
    OBVIOUS
  <2>1. \A v \in Windows \ u.open : chosen'[v] = chosen[v]
    BY <1>1, <1>3, <1>4
  <2>2. /\ ui[p].geom = chosen
        /\ \A v \in Windows \ (ui[p].open \cup {"view"}) : config[p].geom[v] = chosen[v]
    BY <1>1 DEF SettingsOf
  <2>3. ui'[p].geom = chosen' /\ ui'[p].open = ui[p].open
    BY <1>3, <1>5, <1>7, <2>2
  <2>4. \A v \in Windows \ (ui'[p].open \cup {"view"}) : config'[p].geom[v] = chosen'[v]
    BY <1>1, <1>3, <2>1, <2>2, <2>3
  <2>5. pc'[p] = "loop"
    BY <1>1
  <2> QED
    BY <2>3, <2>4, <2>5 DEF SettingsOf
<1>9. spent' \in Spendings /\ owed \subseteq Flagged
  BY <1>1, BoundsAssumption, Spent, Unfolded DEF TypeOK
<1>10. ui'[p].flags = {} /\ config'[p].ok
  BY <1>1, <1>3, <1>6, <1>7, Unfolded
<1> QED
  BY <1>1, <1>4, <1>6, <1>7, <1>8, <1>9, <1>10, LoopKeeps, Unfolded

LEMMA MenuClickedKeeps ==
  ASSUME IInv, NEW p \in Processes, NEW w \in Windows, MenuClicked(p, w)
  PROVE  IInv'
<1> DEFINE u == [ui[p] EXCEPT !.open = @ \cup {w}]
<1>1. /\ want' = want /\ inbox' = inbox /\ serving' = serving /\ sock' = sock
      /\ owed' = owed /\ shared' = shared /\ lost' = lost /\ pc' = pc /\ then' = then
      /\ config' = config /\ file' = file /\ chosen' = chosen
      /\ pc[p] = "loop" /\ Spends("inputs", MaxInputs)
      /\ ui' = [ui EXCEPT ![p] = u]
  BY DEF MenuClicked, Loops, clients
<1>2. /\ u \in Uis /\ u.geom = ui[p].geom /\ u.flags = ui[p].flags
      /\ u.open = ui[p].open \cup {w}
  BY Unfolded DEF Uis
<1> HIDE DEF u
<1>3. then[p] = "" /\ ui[p].flags = {}
  BY <1>1, Unfolded DEF Consistent
<1>4. ui' \in [Processes -> Uis] /\ ui'[p] = u /\ \A q \in Processes : q # p => ui'[q] = ui[q]
  BY <1>1, <1>2, Unfolded
<1>5. SettingsOf(p) => SettingsOf(p)'
  BY <1>1, <1>2, <1>4 DEF SettingsOf
<1>6. spent' \in Spendings /\ owed \subseteq Flagged
  BY <1>1, BoundsAssumption, Spent, Unfolded DEF TypeOK
<1>7. ui'[p].flags = {} /\ config'[p].ok
  BY <1>1, <1>2, <1>3, <1>4, Unfolded
<1> QED
  BY <1>1, <1>3, <1>4, <1>5, <1>6, <1>7, LoopKeeps, Unfolded

LEMMA ExitSignalKeeps ==
  ASSUME IInv, NEW p \in Processes, ExitSignal(p)
  PROVE  IInv'
<1> DEFINE u == [ui[p] EXCEPT !.open = @ \ DeletedAtExit, !.quit = TRUE]
<1>1. /\ want' = want /\ inbox' = inbox /\ serving' = serving /\ sock' = sock
      /\ owed' = owed /\ shared' = shared /\ lost' = lost /\ chosen' = chosen
      /\ pc[p] = "loop" /\ Spends("inputs", MaxInputs)
      /\ IF ui[p].open \cap DeletedAtExit # {} THEN Save(p, ui[p], "loop")
         ELSE pc' = pc /\ then' = then /\ config' = config /\ file' = file
  BY DEF ExitSignal, Loops, clients
<1>2. u \in Uis /\ u.geom = ui[p].geom /\ u.flags = ui[p].flags
      /\ u.open = ui[p].open \ DeletedAtExit
  BY Unfolded DEF Uis
<1>3. ui' = [ui EXCEPT ![p] = u]
  BY DEF ExitSignal
<1> HIDE DEF u
<1>4. "loop" \in Thens /\ then[p] = "" /\ ui[p] \in Uis /\ ui[p].flags = {}
  BY <1>1, Unfolded DEF Thens, Consistent
<1>5. ui' \in [Processes -> Uis] /\ ui'[p] = u /\ \A q \in Processes : q # p => ui'[q] = ui[q]
  BY <1>2, <1>3, Unfolded
<1>6. /\ pc' \in [Processes -> Places] /\ then' \in [Processes -> Thens]
      /\ config' \in [Processes -> Configs] /\ file' \in Configs /\ config'[p].ok
      /\ \/ pc'[p] = "loop" /\ then'[p] = ""
         \/ pc'[p] = "saving" /\ then'[p] = "loop"
      /\ \A q \in Processes : q # p => /\ pc'[q] = pc[q] /\ then'[q] = then[q]
                                       /\ config'[q] = config[q]
      /\ SettingsOf(p) => SettingsOf(p)'
  <2>1. CASE ui[p].open \cap DeletedAtExit # {}
    <3>1. Save(p, ui[p], "loop")
      BY <1>1, <2>1
    <3>2. SettingsOf(p) => SettingsOf(p)'
      <4> SUFFICES ASSUME SettingsOf(p) PROVE SettingsOf(p)'
        OBVIOUS
      <4>1. ui[p].geom = chosen
        BY <1>1 DEF SettingsOf
      <4> QED
        BY <1>1, <1>2, <1>4, <1>5, <3>1, <4>1, SaveKeeps
    <3> QED
      BY <1>4, <3>1, <3>2, SaveEffect
  <2>2. CASE ui[p].open \cap DeletedAtExit = {}
    <3>1. pc' = pc /\ then' = then /\ config' = config /\ file' = file
      BY <1>1, <2>2
    <3>2. u.open = ui[p].open
      BY <1>2, <2>2
    <3>3. SettingsOf(p) => SettingsOf(p)'
      BY <1>1, <1>2, <1>5, <3>1, <3>2 DEF SettingsOf
    <3> QED
      BY <1>1, <1>4, <3>1, <3>3, Unfolded
  <2> QED
    BY <2>1, <2>2
<1>7. spent' \in Spendings /\ owed' \subseteq Flagged /\ chosen' \in Geometry
      /\ ui'[p].flags = {}
  BY <1>1, <1>2, <1>4, <1>5, BoundsAssumption, Spent, Unfolded DEF TypeOK
<1> QED
  BY <1>1, <1>5, <1>6, <1>7, LoopKeeps

-----------------------------------------------------------------------------
(* Clients: connections, greetings and answers *)

(* A step that leaves the instances and their settings alone.              *)
LEMMA OutsideKeeps ==
  ASSUME IInv, NEW p \in Processes, pc[p] \notin Alone, pc'[p] \notin Alone,
         UNCHANGED <<ui, config, file, sock, chosen, shared, lost, then>>,
         \A q \in Processes : q # p => pc'[q] = pc[q]
  PROVE  SoleInv' /\ SettingsInv'
<1>1. p \notin Instances /\ Instances' = Instances
  BY DEF Instances
<1>2. \A q \in Instances : pc'[q] = pc[q] /\ q \in Processes
  BY <1>1 DEF Instances
<1>3. \A q \in Instances : Starting(q)' <=> Starting(q)
  BY <1>2 DEF Starting
<1>4. SoleInv'
  BY <1>1, <1>3, Unfolded DEF SoleInv
<1>5. \A q \in Instances : SettingsOf(q) => SettingsOf(q)'
  BY <1>2 DEF SettingsOf, AtRest
<1>6. SettingsInv'
  BY <1>1, <1>5, Unfolded DEF SettingsInv, AtRest
<1> QED
  BY <1>4, <1>6

LEMMA StartKeeps ==
  ASSUME IInv, NEW p \in Processes, Start(p)
  PROVE  IInv'
<1>1. /\ ui' = ui /\ config' = config /\ file' = file /\ inbox' = inbox
      /\ serving' = serving /\ sock' = sock /\ chosen' = chosen /\ owed' = owed
      /\ shared' = shared /\ lost' = lost /\ pc[p] = "off"
      /\ Spends("starts", MaxStarts) /\ Goes(p, "connect")
  BY DEF Start, settings, clients
<1>2. PICK w \in Windows : want' = [want EXCEPT ![p] = w]
  BY DEF Start
<1>3. /\ pc' \in [Processes -> Places] /\ then' = then /\ pc'[p] = "connect"
      /\ \A q \in Processes : q # p => pc'[q] = pc[q]
  BY <1>1, GoesEffect DEF Places
<1>4. want' \in [Processes -> Windows] /\ \A q \in Processes : q # p => want'[q] = want[q]
  BY <1>2, Unfolded DEF TypeOK
<1>5. spent' \in Spendings
  BY <1>1, BoundsAssumption, Spent
<1>6. TypeOK'
  <2>1. \A q \in Processes : Consistent(q)'
    BY <1>1, <1>3, Unfolded DEF Consistent
  <2> QED
    BY <1>1, <1>3, <1>4, <1>5, <2>1, Unfolded DEF TypeOK
<1>7. pc[p] \notin Alone /\ pc'[p] \notin Alone
  BY <1>1, <1>3 DEF Alone
<1>8. ClientsInv'
  <2>1. Instances' = Instances
    BY <1>3, <1>7 DEF Instances
  <2>2. \A q \in Processes : inbox[q] \subseteq Processes /\ serving[q] \in Processes \cup {"none"}
    BY Unfolded DEF TypeOK
  <2>3. \A q \in Processes : pc[q] \in {"wait", "reply"} => pc'[q] = pc[q] /\ want'[q] = want[q]
    BY <1>1, <1>3, <1>4
  <2> QED
    BY <1>1, <2>1, <2>2, <2>3, Unfolded DEF ClientsInv
<1> QED
  BY <1>1, <1>3, <1>6, <1>7, <1>8, OutsideKeeps DEF IInv

(* A start that finds no instance, or loses it.                            *)
LEMMA BecomesKeeps ==
  ASSUME IInv, NEW p \in Processes, BecomesInstance(p), pc[p] \in {"connect", "wait"},
         \A q \in Processes : p \notin inbox[q] /\ serving[q] # p,
         UNCHANGED <<inbox, serving, ui, config, file, want, sock, chosen, owed, lost, spent>>
  PROVE  IInv'
<1>1. Goes(p, "load") /\ shared' = (shared \/ Instances # {})
  BY DEF BecomesInstance
<1>2. /\ pc' \in [Processes -> Places] /\ then' = then /\ pc'[p] = "load"
      /\ \A q \in Processes : q # p => pc'[q] = pc[q]
  BY <1>1, GoesEffect DEF Places, Alone
<1>3. shared' \in BOOLEAN
  BY <1>1, Unfolded DEF TypeOK
<1>4. TypeOK'
  <2>1. \A q \in Processes : Consistent(q)'
    BY <1>2, Unfolded DEF Consistent
  <2> QED
    BY <1>2, <1>3, <2>1, Unfolded DEF TypeOK
<1>5. Instances' = Instances \cup {p} /\ p \notin Instances
  BY <1>2 DEF Instances, Alone
<1>6. \A q \in Processes : q # p => (Starting(q)' <=> Starting(q))
  BY <1>2 DEF Starting
<1>7. Starting(p)'
  BY <1>2 DEF Starting
<1>8. SoleInv'
  <2>1. ~ shared' => Instances' = {p}
    BY <1>1, <1>5
  <2>2. sock # "none" => sock \in Instances /\ sock \in Processes /\ ~ Starting(sock)
    BY Unfolded DEF SoleInv, Instances
  <2> QED
    BY <1>5, <1>6, <1>7, <2>1, <2>2 DEF SoleInv
<1>9. ClientsInv'
  <2>1. \A q \in Processes : inbox[q] \subseteq Processes /\ serving[q] \in Processes \cup {"none"}
    BY Unfolded DEF TypeOK
  <2> QED
    BY <1>2, <1>5, <2>1, Unfolded DEF ClientsInv
<1>10. SettingsInv'
  <2>1. ~ shared' /\ ~ lost => AtRest(file) /\ Instances' = {p}
    BY <1>1, <1>5, Unfolded DEF SettingsInv
  <2>2. ui[p].open = {}
    BY <1>5, Unfolded DEF ClientsInv
  <2> QED
    BY <1>2, <2>1, <2>2 DEF SettingsInv, SettingsOf, AtRest
<1> QED
  BY <1>4, <1>8, <1>9, <1>10 DEF IInv

LEMMA ServerGoneKeeps ==
  ASSUME IInv, NEW p \in Processes, ServerGone(p)
  PROVE  IInv'
  BY BecomesKeeps DEF ServerGone, settings, clients

LEMMA ConnectKeeps ==
  ASSUME IInv, NEW p \in Processes, Connect(p)
  PROVE  IInv'
<1>1. /\ serving' = serving /\ ui' = ui /\ config' = config /\ file' = file /\ want' = want
      /\ sock' = sock /\ chosen' = chosen /\ owed' = owed /\ lost' = lost /\ spent' = spent
      /\ pc[p] = "connect"
  BY DEF Connect, settings
<1>2. \A q \in Processes : p \notin inbox[q] /\ serving[q] # p
  <2>1. p # "none"
    BY ProcessesAssumption
  <2> QED
    BY <1>1, <2>1, Unfolded DEF ClientsInv
<1>3. CASE sock = "none"
  <2>1. BecomesInstance(p) /\ inbox' = inbox
    BY <1>3 DEF Connect
  <2> QED
    BY <1>1, <1>2, <2>1, BecomesKeeps
<1>4. CASE sock # "none"
  <2>1. /\ inbox' = [inbox EXCEPT ![sock] = @ \cup {p}] /\ Goes(p, "wait")
        /\ shared' = shared
    BY <1>4 DEF Connect
  <2>2. sock \in Processes
    BY <1>4, Unfolded DEF TypeOK
  <2>3. /\ pc' \in [Processes -> Places] /\ then' = then /\ pc'[p] = "wait"
        /\ \A q \in Processes : q # p => pc'[q] = pc[q]
    BY <2>1, GoesEffect DEF Places
  <2>4. /\ inbox' \in [Processes -> SUBSET Processes] /\ inbox'[sock] = inbox[sock] \cup {p}
        /\ \A q \in Processes : q # sock => inbox'[q] = inbox[q]
    BY <2>1, <2>2, Unfolded DEF TypeOK
  <2>5. TypeOK'
    <3>1. \A q \in Processes : Consistent(q)'
      BY <1>1, <2>3, Unfolded DEF Consistent
    <3> QED
      BY <1>1, <2>1, <2>3, <2>4, <3>1, Unfolded DEF TypeOK
  <2>6. pc[p] \notin Alone /\ pc'[p] \notin Alone
    BY <1>1, <2>3 DEF Alone
  <2>7. ClientsInv'
    <3>1. Instances' = Instances
      BY <2>3, <2>6 DEF Instances
    <3>2. \A q \in Processes : inbox[q] \subseteq Processes /\ serving[q] \in Processes \cup {"none"}
      BY Unfolded DEF TypeOK
    <3>3. \A q \in Processes : pc[q] \in {"wait", "reply"} => pc'[q] = pc[q]
      BY <1>1, <2>3
    <3>4. ASSUME NEW q \in Processes, NEW c \in inbox'[q]
          PROVE  pc'[c] = "wait" /\ \A r \in Processes :
                   serving'[r] # c /\ (c \in inbox'[r] => q = r)
      <4>1. CASE c = p
        BY <1>1, <1>2, <2>2, <2>3, <2>4, <4>1
      <4>2. CASE c # p
        <5>1. c \in inbox[q] /\ \A r \in Processes : c \in inbox'[r] => c \in inbox[r]
          BY <2>4, <4>2
        <5> QED
          BY <1>1, <3>2, <3>3, <5>1, Unfolded DEF ClientsInv
      <4> QED
        BY <4>1, <4>2
    <3> QED
      BY <1>1, <3>1, <3>2, <3>3, <3>4, Unfolded DEF ClientsInv
  <2> QED
    BY <1>1, <2>1, <2>3, <2>5, <2>6, <2>7, OutsideKeeps DEF IInv
<1> QED
  BY <1>3, <1>4

(* The instances and their settings, when who is one does not change.      *)
LEMMA InstancesKeep ==
  ASSUME IInv, NEW p \in Instances, UNCHANGED <<sock, shared, lost>>,
         Instances' = Instances,
         \A q \in Instances : q # p => pc'[q] = pc[q] /\ then'[q] = then[q],
         ~ Starting(p)' /\ ~ Starting(p),
         SettingsOf(p) => SettingsOf(p)'
  PROVE  SoleInv' /\ SettingsInv'
<1>1. \A q \in Instances : Starting(q)' <=> Starting(q)
  BY DEF Starting
<1>2. SoleInv'
  BY <1>1, Unfolded DEF SoleInv
<1>3. ~ shared => \A q \in Instances : q = p
  BY Unfolded DEF SoleInv
<1>4. SettingsInv'
  BY <1>3, Unfolded DEF SettingsInv
<1> QED
  BY <1>2, <1>4

LEMMA HelloKeeps ==
  ASSUME IInv, NEW p \in Processes, Hello(p)
  PROVE  IInv'
<1>1. /\ want' = want /\ sock' = sock /\ chosen' = chosen /\ shared' = shared
      /\ lost' = lost /\ spent' = spent /\ pc[p] = "loop"
  BY DEF Hello
<1>2. PICK c \in inbox[p] : /\ Activate(p, want[c], "reply")
                            /\ serving' = [serving EXCEPT ![p] = c]
                            /\ inbox' = [inbox EXCEPT ![p] = @ \ {c}]
  BY DEF Hello
<1>3. /\ c \in Processes /\ pc[c] = "wait" /\ want[c] \in Windows
      /\ \A q \in Processes : serving[q] # c /\ (c \in inbox[q] => p = q)
  BY <1>2, Unfolded DEF ClientsInv, TypeOK
<1>4. ui[p].flags = {} /\ then[p] = ""
  BY <1>1, Unfolded DEF Consistent
<1>5. /\ pc' \in [Processes -> Places] /\ then' \in [Processes -> Thens]
      /\ ui' \in [Processes -> Uis] /\ config' \in [Processes -> Configs]
      /\ file' \in Configs /\ owed' \subseteq owed
      /\ ui'[p].flags = {} /\ ui'[p].geom = ui[p].geom /\ ui[p].open \subseteq ui'[p].open
      /\ config'[p].ok
      /\ \A v \in Windows \ (ui'[p].open \cup {"view"}) :
           config'[p].geom[v] = config[p].geom[v]
      /\ \A q \in Processes : q # p => /\ pc'[q] = pc[q] /\ then'[q] = then[q]
                                       /\ config'[q] = config[q] /\ ui'[q] = ui[q]
      /\ want[c] \in ui'[p].open /\ pc'[p] = "reply" /\ then'[p] = ""
  BY <1>2, <1>3, <1>4, ActivateEffect
<1>6. /\ serving' \in [Processes -> Processes \cup {"none"}] /\ serving'[p] = c
      /\ inbox' \in [Processes -> SUBSET Processes] /\ inbox'[p] = inbox[p] \ {c}
      /\ \A q \in Processes : q # p => serving'[q] = serving[q] /\ inbox'[q] = inbox[q]
  BY <1>2, <1>3, Unfolded DEF TypeOK
<1>7. TypeOK'
  <2>1. Consistent(p)'
    BY <1>5 DEF Consistent
  <2>2. \A q \in Processes : q # p => Consistent(q)'
    <3>1. \A q \in Processes : Consistent(q)
      BY Unfolded
    <3>2. \A q \in Processes : q # p => /\ pc'[q] = pc[q] /\ then'[q] = then[q]
                                       /\ config'[q] = config[q] /\ ui'[q] = ui[q]
      BY <1>5
    <3> QED
      BY <3>1, <3>2 DEF Consistent
  <2> QED
    BY <1>1, <1>5, <1>6, <2>1, <2>2, Unfolded DEF TypeOK
<1>8. p \in Instances /\ Instances' = Instances /\ ~ Starting(p)' /\ ~ Starting(p)
  <2>1. p \in Instances /\ Instances' = Instances
    BY <1>1, <1>5 DEF Instances, Alone
  <2> QED
    BY <1>1, <1>5, <2>1 DEF Starting
<1>9. SettingsOf(p) => SettingsOf(p)'
  <2> SUFFICES ASSUME SettingsOf(p) PROVE SettingsOf(p)'
    OBVIOUS
  <2>1. /\ ui[p].geom = chosen
        /\ \A v \in Windows \ (ui[p].open \cup {"view"}) : config[p].geom[v] = chosen[v]
    BY <1>1 DEF SettingsOf
  <2>2. ui'[p].geom = chosen'
    BY <1>1, <1>5, <2>1
  <2>3. \A v \in Windows \ (ui'[p].open \cup {"view"}) : config'[p].geom[v] = chosen'[v]
    BY <1>1, <1>5, <2>1
  <2> QED
    BY <1>5, <2>2, <2>3 DEF SettingsOf
<1>10. SoleInv' /\ SettingsInv'
  <2>1. \A q \in Instances : q # p => pc'[q] = pc[q] /\ then'[q] = then[q]
    BY <1>5 DEF Instances
  <2> QED
    BY <1>1, <1>8, <1>9, <2>1, InstancesKeep
<1>11. ClientsInv'
  <2>1. \A q \in Processes : inbox[q] \subseteq Processes /\ serving[q] \in Processes \cup {"none"}
    BY Unfolded DEF TypeOK
  <2>2. \A q \in Processes : pc[q] = "wait" => pc'[q] = "wait"
    BY <1>1, <1>5
  <2>3. ASSUME NEW q \in Processes, NEW d \in inbox'[q]
        PROVE  pc'[d] = "wait" /\ \A r \in Processes :
                 serving'[r] # d /\ (d \in inbox'[r] => q = r)
    <3>1. d \in inbox[q] /\ d # c /\ d \in Processes
      BY <1>3, <1>6, <2>1
    <3>2. pc'[d] = "wait" /\ \A r \in Processes : serving'[r] # d
      BY <1>6, <2>2, <3>1, Unfolded DEF ClientsInv
    <3>3. \A r \in Processes : d \in inbox'[r] => d \in inbox[r]
      BY <1>6
    <3> QED
      BY <3>1, <3>2, <3>3, Unfolded DEF ClientsInv
  <2>4. ASSUME NEW q \in Processes, serving'[q] # "none"
        PROVE  /\ pc'[q] = "reply" /\ pc'[serving'[q]] = "wait"
               /\ want'[serving'[q]] \in ui'[q].open
               /\ \A r \in Processes : serving'[r] = serving'[q] => q = r
    <3>1. CASE q = p
      <4>1. serving'[q] = c /\ \A r \in Processes : r # p => serving'[r] # c
        BY <1>3, <1>6, <3>1
      <4> QED
        BY <1>1, <1>3, <1>5, <2>2, <3>1, <4>1
    <3>2. CASE q # p
      <4>1. serving'[q] = serving[q] /\ serving[q] # c /\ serving[q] \in Processes
        BY <1>3, <1>6, <2>1, <2>4, <3>2
      <4>2. /\ pc[q] = "reply" /\ pc[serving[q]] = "wait" /\ want[serving[q]] \in ui[q].open
            /\ \A r \in Processes : serving[r] = serving[q] => q = r
        BY <2>4, <4>1, Unfolded DEF ClientsInv
      <4>3. \A r \in Processes : serving'[r] = serving[q] => q = r
        BY <1>6, <4>1, <4>2
      <4> QED
        <5>1. pc'[q] = "reply" /\ want'[serving'[q]] \in ui'[q].open
          BY <1>1, <1>5, <3>2, <4>1, <4>2
        <5>2. pc'[serving'[q]] = "wait"
          BY <2>2, <4>1, <4>2
        <5>3. \A r \in Processes : serving'[r] = serving'[q] => q = r
          BY <4>1, <4>3
        <5> QED
          BY <5>1, <5>2, <5>3
    <3> QED
      BY <3>1, <3>2
  <2>5. ASSUME NEW q \in Processes, q \notin Instances PROVE ui'[q].open = {}
    BY <1>5, <1>8, <2>5, Unfolded DEF ClientsInv
  <2> QED
    BY <1>8, <2>3, <2>4, <2>5 DEF ClientsInv
<1> QED
  BY <1>7, <1>10, <1>11 DEF IInv

LEMMA ReplyKeeps ==
  ASSUME IInv, NEW p \in Processes, Reply(p)
  PROVE  IInv'
<1>1. /\ ui' = ui /\ config' = config /\ file' = file /\ then' = then /\ inbox' = inbox
      /\ sock' = sock /\ chosen' = chosen /\ owed' = owed /\ shared' = shared
      /\ lost' = lost /\ spent' = spent /\ pc[p] = "reply"
  BY DEF Reply, settings
<1>2. /\ \A q \in Processes : inbox[q] \subseteq Processes /\ serving[q] \in Processes \cup {"none"}
      /\ want \in [Processes -> Windows]
  BY Unfolded DEF TypeOK
<1>3. serving[p] \in Processes => pc[serving[p]] = "wait"
  BY ProcessesAssumption, Unfolded DEF ClientsInv
<1>4. /\ pc' = [q \in Processes |-> CASE q = p -> "loop"
                                       [] q = serving[p] -> "off"
                                       [] OTHER -> pc[q]]
      /\ serving' = [serving EXCEPT ![p] = "none"]
      /\ want' = [q \in Processes |-> IF q = serving[p] THEN "proc" ELSE want[q]]
  BY DEF Reply
<1>5. /\ pc'[p] = "loop"
      /\ \A q \in Processes : q # p /\ q = serving[p] => pc'[q] = "off"
      /\ \A q \in Processes : q # p /\ q # serving[p] => pc'[q] = pc[q]
  <2>1. pc'[p] = "loop"
    <3>1. serving[p] # p
      BY <1>1, <1>3
    <3> QED
      BY <1>4, <3>1
  <2>2. ASSUME NEW q \in Processes, q # p, q = serving[p] PROVE pc'[q] = "off"
    BY <1>4, <2>2
  <2>3. ASSUME NEW q \in Processes, q # p, q # serving[p] PROVE pc'[q] = pc[q]
    BY <1>4, <2>3
  <2> QED
    BY <2>1, <2>2, <2>3
<1>6. pc' \in [Processes -> Places]
  <2>1. \A q \in Processes : pc'[q] \in Places
    BY <1>5, Unfolded DEF Places, Alone
  <2>2. pc' = [q \in Processes |-> pc'[q]]
    BY <1>4
  <2> QED
    BY <2>1, <2>2
<1>7. /\ want' \in [Processes -> Windows]
      /\ \A q \in Processes : q # serving[p] => want'[q] = want[q]
  BY <1>2, <1>4 DEF Windows
<1>8. /\ serving' \in [Processes -> Processes \cup {"none"}] /\ serving'[p] = "none"
      /\ \A q \in Processes : q # p => serving'[q] = serving[q]
  BY <1>4, Unfolded DEF TypeOK
<1>9. TypeOK'
  <2>1. ASSUME NEW q \in Processes PROVE Consistent(q)'
    <3>1. CASE q = p
      BY <1>1, <1>5, <3>1, Unfolded DEF Consistent
    <3>2. CASE q # p /\ q = serving[p]
      BY <1>1, <1>3, <1>5, <3>2, Unfolded DEF Consistent
    <3>3. CASE q # p /\ q # serving[p]
      BY <1>1, <1>5, <3>3, Unfolded DEF Consistent
    <3> QED
      BY <3>1, <3>2, <3>3
  <2> QED
    BY <1>1, <1>6, <1>7, <1>8, <2>1, Unfolded DEF TypeOK
<1>10. p \in Instances /\ Instances' = Instances /\ ~ Starting(p)' /\ ~ Starting(p)
  BY <1>1, <1>3, <1>5 DEF Instances, Alone, Starting
<1>11. SettingsOf(p) => SettingsOf(p)'
  BY <1>1, <1>5 DEF SettingsOf
<1>12. SoleInv' /\ SettingsInv'
  <2>1. \A q \in Instances : q # p => pc'[q] = pc[q] /\ then'[q] = then[q]
    BY <1>1, <1>3, <1>5 DEF Instances, Alone
  <2> QED
    BY <1>1, <1>10, <1>11, <2>1, InstancesKeep
<1>13. ClientsInv'
  <2>1. \A q \in Processes : \A c \in inbox[q] : c # serving[p] /\ c # p /\ pc'[c] = "wait"
    BY <1>1, <1>2, <1>5, Unfolded DEF ClientsInv
  <2>2. \A q, r \in Processes : serving'[r] = serving[r] \/ serving'[r] = "none"
    BY <1>8
  <2>3. \A q \in Processes : \A c \in inbox[q] : c # "none"
    BY <1>2, ProcessesAssumption
  <2>4. ASSUME NEW q \in Processes, serving'[q] # "none"
        PROVE  /\ pc'[q] = "reply" /\ pc'[serving'[q]] = "wait"
               /\ want'[serving'[q]] \in ui'[q].open
               /\ \A r \in Processes : serving'[r] = serving'[q] => q = r
    <3>1. q # p /\ serving'[q] = serving[q] /\ serving[q] \in Processes
      BY <1>2, <1>8, <2>4
    <3>2. /\ pc[q] = "reply" /\ pc[serving[q]] = "wait" /\ want[serving[q]] \in ui[q].open
          /\ \A r \in Processes : serving[r] = serving[q] => q = r
      BY <2>4, <3>1, Unfolded DEF ClientsInv
    <3>3. serving[q] # serving[p] /\ serving[q] # p /\ q # serving[p]
      BY <1>1, <1>3, <3>1, <3>2
    <3>4. \A r \in Processes : serving'[r] = serving[q] => serving[r] = serving[q]
      BY <2>2, <3>1, ProcessesAssumption
    <3> QED
      BY <1>1, <1>5, <1>7, <3>1, <3>2, <3>3, <3>4
  <2>5. \A q \in Processes \ Instances : ui[q].open = {}
    BY Unfolded DEF ClientsInv
  <2>6. \A q \in Processes : \A c \in inbox[q] : \A r \in Processes :
          serving'[r] # c /\ (c \in inbox[r] => q = r)
    BY <2>2, <2>3, Unfolded DEF ClientsInv
  <2> QED
    BY <1>1, <1>10, <2>1, <2>4, <2>5, <2>6 DEF ClientsInv
<1> QED
  BY <1>9, <1>12, <1>13 DEF IInv

-----------------------------------------------------------------------------
(* The end of an instance, and of a process that is killed *)

LEMMA EndsKeeps ==
  ASSUME IInv, NEW p \in Processes, Ends(p)
  PROVE  IInv'
<1>1. /\ file' = file /\ serving' = serving /\ chosen' = chosen /\ owed' = owed
      /\ shared' = shared /\ lost' = lost /\ spent' = spent /\ pc[p] \in {"close", "exec"}
      /\ sock' = IF sock = p THEN "none" ELSE sock
      /\ inbox' = [inbox EXCEPT ![p] = {}]
      /\ ui' = [ui EXCEPT ![p] = NoUi] /\ config' = [config EXCEPT ![p] = Default]
  BY DEF Ends, ServerShutdown, Forget
<1>2. /\ pc' \in [Processes -> Places] /\ then' = then /\ pc'[p] \in {"connect", "off"}
      /\ want' \in [Processes -> Windows]
      /\ \A q \in Processes : q # p => pc'[q] = pc[q] /\ want'[q] = want[q]
  <2>1. CASE pc[p] = "exec"
    <3>1. Goes(p, "connect") /\ want' = want
      BY <2>1 DEF Ends
    <3> QED
      BY <3>1, GoesEffect, Unfolded DEF Places, TypeOK
  <2>2. CASE pc[p] # "exec"
    <3>1. Goes(p, "off") /\ want' = [want EXCEPT ![p] = "proc"]
      BY <2>2 DEF Ends
    <3>2. /\ pc' \in [Processes -> Places] /\ then' = then /\ pc'[p] = "off"
          /\ \A q \in Processes : q # p => pc'[q] = pc[q]
      BY <3>1, GoesEffect DEF Places
    <3>3. /\ want' \in [Processes -> Windows]
          /\ \A q \in Processes : q # p => want'[q] = want[q]
      BY <3>1, Unfolded DEF TypeOK, Windows
    <3> QED
      BY <3>2, <3>3
  <2> QED
    BY <2>1, <2>2
<1>3. /\ ui' \in [Processes -> Uis] /\ config' \in [Processes -> Configs]
      /\ ui'[p] = NoUi /\ config'[p] = Default
      /\ \A q \in Processes : q # p => ui'[q] = ui[q] /\ config'[q] = config[q]
  BY <1>1, RecordTypes, Unfolded
<1>4. /\ inbox' \in [Processes -> SUBSET Processes] /\ inbox'[p] = {}
      /\ \A q \in Processes : q # p => inbox'[q] = inbox[q]
  BY <1>1, Unfolded DEF TypeOK
<1>5. TypeOK'
  <2>1. ASSUME NEW q \in Processes PROVE Consistent(q)'
    <3>1. CASE q = p
      BY <1>1, <1>2, <1>3, <3>1, RecordTypes, Unfolded DEF Consistent
    <3>2. CASE q # p
      BY <1>2, <1>3, <3>2, Unfolded DEF Consistent
    <3> QED
      BY <3>1, <3>2
  <2>2. sock' \in Processes \cup {"none"}
    BY <1>1, Unfolded DEF TypeOK
  <2> QED
    BY <1>1, <1>2, <1>3, <1>4, <2>1, <2>2, Unfolded DEF TypeOK
<1>6. p \in Instances /\ Instances' = Instances \ {p}
  BY <1>1, <1>2 DEF Instances, Alone
<1>7. SoleInv'
  <2>1. ~ shared => \A q \in Instances : q = p
    BY <1>6, Unfolded DEF SoleInv
  <2>2. \A q \in Processes : q # p => (Starting(q)' <=> Starting(q))
    BY <1>2 DEF Starting
  <2>3. sock' # "none" => sock' = sock /\ sock \in Instances /\ sock # p /\ ~ Starting(sock)
    BY <1>1, Unfolded DEF SoleInv
  <2>4. \A q \in Instances : q \in Processes
    BY DEF Instances
  <2> QED
    BY <1>1, <1>6, <2>1, <2>2, <2>3, <2>4 DEF SoleInv
<1>8. ClientsInv'
  <2>1. \A q \in Processes : inbox[q] \subseteq Processes /\ serving[q] \in Processes \cup {"none"}
    BY Unfolded DEF TypeOK
  <2>2. ASSUME NEW q \in Processes, NEW c \in inbox'[q]
        PROVE  pc'[c] = "wait" /\ \A r \in Processes :
                 serving'[r] # c /\ (c \in inbox'[r] => q = r)
    <3>1. c \in inbox[q] /\ c \in Processes
      BY <1>4, <2>1
    <3>2. pc[c] = "wait" /\ \A r \in Processes : serving[r] # c /\ (c \in inbox[r] => q = r)
      BY <3>1, Unfolded DEF ClientsInv
    <3>3. c # p /\ \A r \in Processes : c \in inbox'[r] => c \in inbox[r]
      BY <1>1, <1>4, <3>2
    <3> QED
      BY <1>1, <1>2, <3>1, <3>2, <3>3
  <2>3. ASSUME NEW q \in Processes, serving'[q] # "none"
        PROVE  /\ pc'[q] = "reply" /\ pc'[serving'[q]] = "wait"
               /\ want'[serving'[q]] \in ui'[q].open
               /\ \A r \in Processes : serving'[r] = serving'[q] => q = r
    <3>1. /\ pc[q] = "reply" /\ pc[serving[q]] = "wait" /\ want[serving[q]] \in ui[q].open
          /\ \A r \in Processes : serving[r] = serving[q] => q = r
      BY <1>1, <2>3, Unfolded DEF ClientsInv
    <3>2. q # p /\ serving[q] # p /\ serving[q] \in Processes
      BY <1>1, <2>1, <2>3, <3>1
    <3> QED
      BY <1>1, <1>2, <1>3, <3>1, <3>2
  <2>4. ASSUME NEW q \in Processes, q \notin Instances' PROVE ui'[q].open = {}
    BY <1>3, <1>6, <2>4, RecordTypes, Unfolded DEF ClientsInv
  <2> QED
    BY <2>2, <2>3, <2>4 DEF ClientsInv
<1>9. SettingsInv'
  <2>1. ~ shared => Instances' = {}
    BY <1>6, Unfolded DEF SoleInv
  <2>2. ~ shared /\ ~ lost => file.ok /\ file.geom = chosen
    BY <1>1, <1>6, Unfolded DEF SettingsInv, SettingsOf
  <2> QED
    BY <1>1, <2>1, <2>2 DEF SettingsInv, AtRest
<1> QED
  BY <1>5, <1>7, <1>8, <1>9 DEF IInv

LEMMA KilledKeeps ==
  ASSUME IInv, NEW p \in Processes, Killed(p)
  PROVE  IInv'
<1>1. /\ file' = file /\ chosen' = chosen /\ owed' = owed /\ shared' = shared
      /\ lost' = TRUE /\ pc[p] # "off" /\ Spends("crashes", MaxCrashes)
      /\ pc' = [pc EXCEPT ![p] = "off"] /\ then' = [then EXCEPT ![p] = ""]
      /\ sock' = IF sock = p THEN "none" ELSE sock
      /\ want' = [want EXCEPT ![p] = "proc"]
      /\ ui' = [ui EXCEPT ![p] = NoUi] /\ config' = [config EXCEPT ![p] = Default]
  BY DEF Killed, Forget
<1>2. /\ pc' \in [Processes -> Places] /\ pc'[p] = "off"
      /\ then' \in [Processes -> Thens] /\ then'[p] = ""
      /\ want' \in [Processes -> Windows]
      /\ \A q \in Processes : q # p => /\ pc'[q] = pc[q] /\ then'[q] = then[q]
                                       /\ want'[q] = want[q]
  BY <1>1, Unfolded DEF TypeOK, Places, Thens, Windows
<1>3. /\ ui' \in [Processes -> Uis] /\ config' \in [Processes -> Configs]
      /\ ui'[p] = NoUi /\ config'[p] = Default
      /\ \A q \in Processes : q # p => ui'[q] = ui[q] /\ config'[q] = config[q]
  BY <1>1, RecordTypes, Unfolded
<1>4. /\ inbox' = [q \in Processes |-> IF q = p THEN {} ELSE inbox[q] \ {p}]
      /\ serving' = [q \in Processes |-> IF q = p \/ serving[q] = p THEN "none" ELSE serving[q]]
  BY DEF Killed
<1>5. \A q \in Processes : inbox[q] \subseteq Processes /\ serving[q] \in Processes \cup {"none"}
  BY Unfolded DEF TypeOK
<1>6. /\ inbox' \in [Processes -> SUBSET Processes]
      /\ serving' \in [Processes -> Processes \cup {"none"}]
  BY <1>4, <1>5
<1>7. \A q \in Processes :
        /\ inbox'[q] \subseteq inbox[q] /\ p \notin inbox'[q]
        /\ serving'[q] # "none" => q # p /\ serving[q] # p /\ serving'[q] = serving[q]
  BY <1>4
<1>8. TypeOK'
  <2>1. ASSUME NEW q \in Processes PROVE Consistent(q)'
    <3>1. CASE q = p
      BY <1>2, <1>3, <3>1, RecordTypes DEF Consistent
    <3>2. CASE q # p
      BY <1>2, <1>3, <3>2, Unfolded DEF Consistent
    <3> QED
      BY <3>1, <3>2
  <2>2. sock' \in Processes \cup {"none"} /\ spent' \in Spendings
    BY <1>1, BoundsAssumption, Spent, Unfolded DEF TypeOK
  <2> QED
    BY <1>1, <1>2, <1>3, <1>6, <2>1, <2>2, Unfolded DEF TypeOK
<1>9. Instances' = Instances \ {p}
  BY <1>2 DEF Instances, Alone
<1>10. SoleInv'
  <2>1. \A q \in Processes : q # p => (Starting(q)' <=> Starting(q))
    BY <1>2 DEF Starting
  <2>2. sock' # "none" => sock' = sock /\ sock \in Instances /\ sock # p /\ ~ Starting(sock)
    BY <1>1, Unfolded DEF SoleInv
  <2>3. \A q \in Instances : q \in Processes /\ (sock = q /\ q # p => sock' = q)
    BY <1>1 DEF Instances
  <2> QED
    BY <1>1, <1>9, <2>1, <2>2, <2>3, Unfolded DEF SoleInv
<1>11. ClientsInv'
  <2>1. ASSUME NEW q \in Processes, NEW c \in inbox'[q]
        PROVE  pc'[c] = "wait" /\ \A r \in Processes :
                 serving'[r] # c /\ (c \in inbox'[r] => q = r)
    <3>1. c \in inbox[q] /\ c # p /\ c \in Processes /\ c # "none"
      BY <1>5, <1>7, ProcessesAssumption
    <3>2. pc[c] = "wait" /\ \A r \in Processes : serving[r] # c /\ (c \in inbox[r] => q = r)
      BY <3>1, Unfolded DEF ClientsInv
    <3> QED
      BY <1>2, <1>7, <3>1, <3>2
  <2>2. ASSUME NEW q \in Processes, serving'[q] # "none"
        PROVE  /\ pc'[q] = "reply" /\ pc'[serving'[q]] = "wait"
               /\ want'[serving'[q]] \in ui'[q].open
               /\ \A r \in Processes : serving'[r] = serving'[q] => q = r
    <3>1. q # p /\ serving[q] # p /\ serving'[q] = serving[q] /\ serving[q] \in Processes
      BY <1>5, <1>7, <2>2
    <3>2. /\ pc[q] = "reply" /\ pc[serving[q]] = "wait" /\ want[serving[q]] \in ui[q].open
          /\ \A r \in Processes : serving[r] = serving[q] => q = r
      BY <2>2, <3>1, Unfolded DEF ClientsInv
    <3>3. \A r \in Processes : serving'[r] = serving[q] => serving[r] = serving[q]
      BY <1>7, <2>2, <3>1
    <3> QED
      <4>1. pc'[q] = "reply" /\ pc'[serving'[q]] = "wait"
        BY <1>2, <1>3, <3>1, <3>2
      <4>2. want'[serving'[q]] \in ui'[q].open
        BY <1>2, <1>3, <3>1, <3>2
      <4>3. \A r \in Processes : serving'[r] = serving'[q] => q = r
        BY <3>1, <3>2, <3>3
      <4> QED
        BY <4>1, <4>2, <4>3
  <2>3. ASSUME NEW q \in Processes, q \notin Instances' PROVE ui'[q].open = {}
    BY <1>3, <1>9, <2>3, RecordTypes, Unfolded DEF ClientsInv
  <2> QED
    BY <2>1, <2>2, <2>3 DEF ClientsInv
<1>12. SettingsInv'
  BY <1>1 DEF SettingsInv
<1> QED
  BY <1>8, <1>10, <1>11, <1>12 DEF IInv

-----------------------------------------------------------------------------
LEMMA InitEstablishes == Init => IInv
<1> SUFFICES ASSUME Init PROVE IInv
  OBVIOUS
<1>1. Instances = {}
  BY DEF Init, Instances, Alone
<1>2. TypeOK
  <2>1. Default.geom \in Geometry
    BY RecordTypes
  <2>2. [starts |-> 0, inputs |-> 0, crashes |-> 0] \in Spendings
    BY BoundsAssumption DEF Spendings
  <2>3. \A p \in Processes : Consistent(p)
    BY RecordTypes DEF Init, Consistent
  <2> QED
    BY <2>1, <2>2, <2>3, RecordTypes DEF Init, TypeOK, Places, Thens, Windows
<1>3. SoleInv
  BY <1>1 DEF Init, SoleInv
<1>4. ClientsInv
  BY RecordTypes DEF Init, ClientsInv
<1>5. SettingsInv
  BY <1>1, RecordTypes DEF Init, SettingsInv, AtRest
<1> QED
  BY <1>2, <1>3, <1>4, <1>5 DEF IInv

LEMMA NextKeeps == IInv /\ [Next]_vars => IInv'
<1> SUFFICES ASSUME IInv, [Next]_vars PROVE IInv'
  OBVIOUS
<1>1. ASSUME NEW p \in Processes, Program(p) PROVE IInv'
  BY <1>1, SavedKeeps, LoadKeeps, ConnectKeeps, ServerGoneKeeps, ListenKeeps,
     FirstActivateKeeps, HelloKeeps, ReplyKeeps, LoopEndsKeeps, EndsKeeps DEF Program
<1>2. ASSUME NEW p \in Processes, User(p) PROVE IInv'
  BY <1>2, StartKeeps, OptionChangedKeeps, VisualClickedKeeps, RestartKeeps,
     ExitSignalKeeps, MenuClickedKeeps, MovedKeeps, ClosedKeeps DEF User
<1>3. CASE UNCHANGED vars
  <2>1. /\ pc' = pc /\ then' = then /\ want' = want /\ inbox' = inbox /\ serving' = serving
        /\ ui' = ui /\ config' = config /\ file' = file /\ sock' = sock
        /\ chosen' = chosen /\ owed' = owed /\ shared' = shared /\ lost' = lost
        /\ spent' = spent
    BY <1>3 DEF vars, clients
  <2>2. TypeOK' /\ SoleInv'
    BY <2>1, Unfolded DEF TypeOK, Consistent, SoleInv, Starting, Instances
  <2>3. ClientsInv' /\ SettingsInv'
    BY <2>1, Unfolded DEF ClientsInv, Instances, SettingsInv, SettingsOf, AtRest
  <2> QED
    BY <2>2, <2>3 DEF IInv
<1> QED
  BY <1>1, <1>2, <1>3, KilledKeeps DEF Next

(* What holds at every step follows: the ui of an instance has what was    *)
(* chosen, and no other process has a window.                              *)
LEMMA Implied == IInv => SessionInv
<1> SUFFICES ASSUME IInv PROVE KeepsChosen
  BY Unfolded DEF SessionInv
<1> SUFFICES ASSUME NEW p \in Processes, NEW w \in ui[p].open, ~ shared, ~ lost
             PROVE  ui[p].geom[w] = chosen[w]
  BY DEF KeepsChosen
<1>1. p \in Instances
  BY Unfolded DEF ClientsInv
<1> QED
  BY <1>1, Unfolded DEF SettingsInv, SettingsOf

LEMMA InvariantHolds == Spec => []IInv
<1> QED
  BY InitEstablishes, NextKeeps, PTL DEF Spec

(* The record types hold at every step, and a window that is open has the  *)
(* size, place and choices it was last given in whatever instance that     *)
(* was, unless two instances overwrite each other's file or a process was  *)
(* killed: evisum_ui_config_save copies the fields of a window before the  *)
(* window is forgotten, every way out of an instance has saved, and the    *)
(* socket is given up only then.                                           *)
THEOREM SessionCorrect == Spec => []SessionInv
<1> QED
  BY InvariantHolds, Implied, PTL

(* A second instance comes only from starts that overlap: the first has    *)
(* not listened yet, or a client lost the one that both of them knew while *)
(* another listens already (evisum_server_client_add, elm_main).           *)
THEOREM SecondOverlaps == Spec => OverlapShares
<1> DEFINE A == ~ shared /\ shared' =>
                  \/ \E p \in Processes : \/ pc[p] \in {"load", "listen"}
                                          \/ pc[p] = "saving" /\ then[p] = "listen"
                  \/ sock # "none" /\ \E p \in Processes : pc[p] = "wait" /\ pc'[p] = "load"
<1>1. IInv /\ [Next]_vars => [A]_vars
  <2> SUFFICES ASSUME IInv, Next, ~ shared, shared' PROVE A
    OBVIOUS
  <2>1. PICK p \in Processes : BecomesInstance(p) /\ (Connect(p) \/ ServerGone(p))
    <3>1. PICK p \in Processes : Program(p) \/ User(p) \/ Killed(p)
      BY DEF Next
    <3>2. ~ User(p) /\ ~ Killed(p)
      BY DEF User, Killed, Start, OptionChanged, VisualClicked, Restart, ExitSignal,
         MenuClicked, Moved, Closed
    <3>3. Connect(p) \/ ServerGone(p)
      BY <3>1, <3>2 DEF Program, Saved, Load, Listen, FirstActivate, Hello, Reply, LoopEnds, Ends
    <3> QED
      BY <3>3 DEF Connect, ServerGone
  <2>2. PICK q \in Instances : q \in Processes
    BY <2>1, Unfolded DEF BecomesInstance, TypeOK, Instances
  <2>3. CASE Starting(q)
    BY <2>2, <2>3 DEF Starting
  <2>4. CASE ~ Starting(q)
    <3>1. sock = q /\ sock # "none"
      BY <2>2, <2>4, ProcessesAssumption, Unfolded DEF SoleInv
    <3>2. ServerGone(p) /\ pc[p] = "wait"
      BY <2>1, <3>1 DEF Connect, ServerGone
    <3>3. pc'[p] = "load"
      BY <2>1, GoesEffect DEF BecomesInstance, Places, Alone
    <3> QED
      BY <3>1, <3>2, <3>3
  <2> QED
    BY <2>3, <2>4
<1>2. OverlapShares <=> [][A]_vars
  BY PTL DEF OverlapShares
<1> QED
  BY <1>1, <1>2, InvariantHolds, PTL DEF Spec

(* A start that ends answered finds its window in the instance that        *)
(* answered it (_evisum_server_server_client_data_cb).                     *)
THEOREM AnswersAreTrue == Spec => AnsweredIsOpen
<1> DEFINE A == \A p \in Processes :
                  pc[p] = "wait" /\ pc'[p] = "off" /\ spent' = spent =>
                    \E q \in Processes : pc[q] = "reply" /\ want[p] \in ui[q].open
<1>1. IInv /\ [Next]_vars => [A]_vars
  <2> SUFFICES ASSUME IInv, Next, NEW p \in Processes, pc[p] = "wait", pc'[p] = "off",
                      spent' = spent
               PROVE  \E q \in Processes : pc[q] = "reply" /\ want[p] \in ui[q].open
    OBVIOUS
  <2>1. PICK q \in Processes : Program(q) \/ User(q) \/ Killed(q)
    BY DEF Next
  <2>2. ~ Killed(q)
    BY BoundsAssumption, Spent DEF Killed
  <2>3. ~ User(q)
    BY BoundsAssumption, Spent DEF User, Start, OptionChanged, VisualClicked, Restart,
       ExitSignal, MenuClicked, Moved, Closed, Loops
  <2>4. Program(q)
    BY <2>1, <2>2, <2>3
  <2>5. Reply(q)
    <3>1. CASE q = p
      <4>1. ServerGone(p)
        BY <2>4, <3>1 DEF Program, Saved, Load, Connect, Listen, FirstActivate, Hello, Reply,
           LoopEnds, Ends
      <4>2. pc'[p] = "load"
        BY <4>1, GoesEffect DEF ServerGone, BecomesInstance, Places, Alone
      <4> QED
        BY <4>2
    <3>2. CASE q # p
      <4> SUFFICES ASSUME ~ Reply(q) PROVE pc'[p] = pc[p]
        OBVIOUS
      <4>1. \E l : pc' = [pc EXCEPT ![q] = l]
        BY <2>4 DEF Program, Saved, Load, Connect, ServerGone, BecomesInstance, Listen,
           FirstActivate, Hello, Activate, LoopEnds, Ends, Save, Write, Goes
      <4> QED
        BY <3>2, <4>1, Unfolded
    <3> QED
      BY <3>1, <3>2
  <2>6. p = serving[q]
    BY <2>5 DEF Reply
  <2> QED
    BY <2>5, <2>6, ProcessesAssumption, Unfolded DEF Reply, ClientsInv
<1>2. AnsweredIsOpen <=> [][A]_vars
  BY PTL DEF AnsweredIsOpen
<1> QED
  BY <1>1, <1>2, InvariantHolds, PTL DEF Spec
=============================================================================
