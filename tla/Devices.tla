------------------------------- MODULE Devices -------------------------------
(***************************************************************************)
(* Provisioned devices (devices/service.py, api/routers/devices.py) and    *)
(* the broker's password and ACL files generated from them                 *)
(* (devices/acl.py, devices/broker_config.py).                             *)
(*                                                                         *)
(* Administrators edit rows in requests that read, then commit what they   *)
(* changed; an operator runs the generator, which queries the table twice  *)
(* and renames two files into place, and may die between any two of these; *)
(* the broker reads both files on SIGHUP.  HTTP ingest looks at the table  *)
(* itself.                                                                 *)
(*                                                                         *)
(* One site.  The sessions do not flush before queries (storage/db.py), so *)
(* a row a request adds is not found by its later lookup of the same key.  *)
(***************************************************************************)
EXTENDS Naturals, FiniteSets

CONSTANTS
  Admins,          \* administrators' requests
  DeviceIds,
  DeviceAssets,
  MaxDeviceEdits, MaxGenerations   \* bounds

VARIABLES
  devTable,        \* device id -> row, or NoDevice
  devReq,          \* the administrators' requests
  devGen,          \* the generator
  devFiles,        \* the files in the broker's directory
  devLoaded,       \* what the broker read
  devWindow,       \* what was true since the generator, the last complete run
                   \* of it and the run the broker loaded began
  devEdits, devGens

devVars == <<devTable, devReq, devGen, devFiles, devLoaded, devWindow, devEdits, devGens>>

NoDevice == [asset |-> "none", source |-> "none", enabled |-> FALSE, secret |-> 0]
(* A provisioned row; secret 0: none was issued. *)
DeviceRows == [asset : DeviceAssets, source : {"tracker", "vision-edge"}, enabled : BOOLEAN,
               secret : {0, 1}]
NoDeviceEdit == [op |-> "none", id |-> "none", row |-> NoDevice, set |-> NoDevice]

(* uq_devices_site_asset *)
OneDevicePerAsset(table) ==
  \A d, e \in DeviceIds : (d # e /\ table[d] # NoDevice) => table[d].asset # table[e].asset

-----------------------------------------------------------------------------
(* What a row entitles a device to, as HTTP ingest decides it, and as the
   generated files say it. *)

(* position_refusal gives no reason, for the device's own account. *)
PositionAllowed(row, asset) ==
  row # NoDevice /\ row.enabled /\ row.source # "vision-edge" /\ row.asset = asset
(* vision_refusal *)
VisionAllowed(row) == row # NoDevice /\ row.enabled /\ row.source = "vision-edge"

Rights(table) ==
  {<<"key", d, table[d].secret>> : d \in {d \in DeviceIds : table[d].enabled /\ table[d].secret # 0}}
  \cup {<<"position", x[1], x[2]>> : x \in {x \in DeviceIds \X DeviceAssets :
                                                PositionAllowed(table[x[1]], x[2])}}
  \cup {<<"vision", d, "site">> : d \in {d \in DeviceIds : VisionAllowed(table[d])}}

(* render_password_file *)
RenderPasswd(table) ==
  {<<"key", d, table[d].secret>> : d \in {d \in DeviceIds : table[d].enabled /\ table[d].secret # 0}}

Listed(table) == {d \in DeviceIds : table[d] # NoDevice /\ table[d].enabled}
(* render_mosquitto_acl *)
RenderAcl(table) ==
  {IF table[d].source = "vision-edge" THEN <<"vision", d, "site">>
   ELSE <<"position", d, table[d].asset>> : d \in Listed(table)}

-----------------------------------------------------------------------------
Window(table) == [some |-> Rights(table), all |-> Rights(table)]
Widen(window) == [some |-> window.some \cup Rights(devTable'), all |-> window.all \cap Rights(devTable')]

(* A site in service: its files were generated from its table and loaded. *)
DeviceInit ==
  /\ devTable \in {t \in [DeviceIds -> DeviceRows \cup {NoDevice}] : OneDevicePerAsset(t)}
  /\ devReq = [m \in Admins |-> NoDeviceEdit]
  /\ devGen = [phase |-> "idle", passwd |-> {}, acl |-> {}]
  /\ devFiles = [passwd |-> RenderPasswd(devTable), acl |-> RenderAcl(devTable)]
  /\ devLoaded = devFiles.passwd \cup devFiles.acl
  /\ devWindow = [begun |-> Window(devTable), complete |-> Window(devTable), loaded |-> Window(devTable)]
  /\ devEdits = 0 /\ devGens = 0

-----------------------------------------------------------------------------
(* The administrators. *)

BeginEdit(m, edit) ==
  /\ devReq[m] = NoDeviceEdit /\ devEdits < MaxDeviceEdits
  /\ devEdits' = devEdits + 1
  /\ devReq' = [devReq EXCEPT ![m] = edit]
  /\ UNCHANGED <<devTable, devGen, devFiles, devLoaded, devWindow, devGens>>

BoundElsewhere(d, a) == \E e \in DeviceIds \ {d} : devTable[e].asset = a

(* register_device and rotate_secret read; a device that has no row yet is
   not found when its secret is to be stored: 409. *)
BeginRegister(m, d, a, source) ==
  /\ BeginEdit(m, IF BoundElsewhere(d, a) \/ devTable[d] = NoDevice THEN NoDeviceEdit
                  ELSE [op |-> "register", id |-> d, row |-> devTable[d],
                        set |-> [asset |-> a, source |-> source, enabled |-> TRUE,
                                 secret |-> devEdits + 2]])

(* rotate_secret of a device that is there *)
BeginRotate(m, d) ==
  /\ devTable[d] # NoDevice
  /\ BeginEdit(m, [op |-> "rotate", id |-> d, row |-> devTable[d],
                   set |-> [devTable[d] EXCEPT !.secret = devEdits + 2]])

(* set_enabled *)
BeginEnable(m, d, on) ==
  /\ devTable[d] # NoDevice
  /\ BeginEdit(m, [op |-> "enable", id |-> d, row |-> devTable[d],
                   set |-> [devTable[d] EXCEPT !.enabled = on]])

(* The commit writes the columns that changed; a taken asset fails it. *)
CommitDeviceEdit(m) ==
  LET x == devReq[m]
      row == [f \in DOMAIN NoDevice |-> IF x.set[f] # x.row[f] THEN x.set[f] ELSE devTable[x.id][f]]
      table == [devTable EXCEPT ![x.id] = row]
  IN
  /\ x # NoDeviceEdit
  /\ devTable' = IF OneDevicePerAsset(table) THEN table ELSE devTable
  /\ devReq' = [devReq EXCEPT ![m] = NoDeviceEdit]
  /\ devWindow' = [w \in DOMAIN devWindow |-> Widen(devWindow[w])]
  /\ UNCHANGED <<devGen, devFiles, devLoaded, devEdits, devGens>>

-----------------------------------------------------------------------------
(* write_broker_files *)

RenderPasswdStep ==
  /\ devGen.phase = "idle" /\ devGens < MaxGenerations
  /\ devGens' = devGens + 1
  /\ devGen' = [phase |-> "acl", passwd |-> RenderPasswd(devTable), acl |-> {}]
  /\ devWindow' = [devWindow EXCEPT !.begun = Window(devTable)]
  /\ UNCHANGED <<devTable, devReq, devFiles, devLoaded, devEdits>>

RenderAclStep ==
  /\ devGen.phase = "acl"
  /\ devGen' = [devGen EXCEPT !.phase = "replace passwd", !.acl = RenderAcl(devTable)]
  /\ UNCHANGED <<devTable, devReq, devFiles, devLoaded, devWindow, devEdits, devGens>>

(* _replace_private: the old file or the whole new one. *)
ReplacePasswd ==
  /\ devGen.phase = "replace passwd"
  /\ devFiles' = [devFiles EXCEPT !.passwd = devGen.passwd]
  /\ devGen' = [devGen EXCEPT !.phase = "replace acl"]
  /\ UNCHANGED <<devTable, devReq, devLoaded, devWindow, devEdits, devGens>>

ReplaceAcl ==
  /\ devGen.phase = "replace acl"
  /\ devFiles' = [devFiles EXCEPT !.acl = devGen.acl]
  /\ devGen' = [devGen EXCEPT !.phase = "idle"]
  /\ devWindow' = [devWindow EXCEPT !.complete = devWindow.begun]
  /\ UNCHANGED <<devTable, devReq, devLoaded, devEdits, devGens>>

(* Mutant: the files are written in place, so that one is left empty. *)
DiesHalfWritten ==
  /\ devGen.phase # "idle"
  /\ devGen' = [devGen EXCEPT !.phase = "idle"]
  /\ devFiles' = IF devGen.phase = "replace passwd" THEN [devFiles EXCEPT !.passwd = {}]
                 ELSE IF devGen.phase = "replace acl" THEN [devFiles EXCEPT !.acl = {}]
                 ELSE devFiles
  /\ UNCHANGED <<devTable, devReq, devLoaded, devWindow, devEdits, devGens>>

(* The operator's shell or the host goes down between any two steps. *)
GeneratorDies ==
  /\ devGen.phase # "idle"
  /\ devGen' = [devGen EXCEPT !.phase = "idle"]
  /\ UNCHANGED <<devTable, devReq, devFiles, devLoaded, devWindow, devEdits, devGens>>

(* kill -HUP, or a broker that starts. *)
ReloadBroker ==
  /\ devLoaded # devFiles.passwd \cup devFiles.acl \/ devWindow.loaded # devWindow.complete
  /\ devLoaded' = devFiles.passwd \cup devFiles.acl
  /\ devWindow' = [devWindow EXCEPT !.loaded = devWindow.complete]
  /\ UNCHANGED <<devTable, devReq, devGen, devFiles, devEdits, devGens>>

DeviceNext ==
  \/ \E m \in Admins :
       \/ \E d \in DeviceIds :
            \/ \E a \in DeviceAssets, source \in {"tracker", "vision-edge"} : BeginRegister(m, d, a, source)
            \/ BeginRotate(m, d)
            \/ \E on \in BOOLEAN : BeginEnable(m, d, on)
       \/ CommitDeviceEdit(m)
  \/ RenderPasswdStep \/ RenderAclStep \/ ReplacePasswd \/ ReplaceAcl
  \/ GeneratorDies \/ ReloadBroker

DeviceSpec == DeviceInit /\ [][DeviceNext]_devVars

-----------------------------------------------------------------------------
(* The broker grants what HTTP ingest grants, up to the changes made since the
   last complete generation of the files it loaded: it knows no key and allows
   no topic that was not a device's at some moment since that generation
   began, and lacks none that was a device's throughout, although the two
   files come from two queries, two renames and possibly two generations
   (write_broker_files, position_refusal, vision_refusal). *)
BrokerFollowsTable ==
  /\ devLoaded \subseteq devWindow.loaded.some
  /\ devWindow.loaded.all \subseteq devLoaded
=============================================================================
