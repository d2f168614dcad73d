----------------------------- MODULE TrackerLink -----------------------------
(***************************************************************************)
(* A Teltonika tracker and the listener (ingest/adapters/teltonika.py):    *)
(* handshake, AVL packets, publication of each record into the spool of    *)
(* the MQTT publisher (StoreForward starts there), acknowledgement.  The   *)
(* link is lost at any moment, unseen by the listener for a while; frames  *)
(* are damaged; the listener crashes; the device is rebound or disabled.   *)
(*                                                                         *)
(* The tracker (external) keeps its records until they are acknowledged on *)
(* the connection it sent them on, and sends the oldest first.  A "wild"   *)
(* record decodes, and holds values no position may have.                  *)
(***************************************************************************)
EXTENDS Naturals, Sequences, SequencesExt

CONSTANTS
  Links,            \* connections
  TrackerAssets,
  StrictDevices,    \* mqtt_require_registered_device
  PacketSize,       \* records in a packet
  MaxTracked, MaxLinks, MaxRebinds   \* bounds: records, connections, edits of the device

VARIABLES
  trkStore,         \* the tracker's records, oldest first
  trkOn,            \* the connection the tracker uses, or NoLink
  trkLink,          \* the connections, as the listener sees them
  trkBinding,       \* the device's asset, or Unbound: unknown or disabled
  trkBound,         \* assets the tracker's records may belong to
  trkSpool,         \* [record, asset]: published
  trkDeleted,       \* records the tracker has deleted
  trkMade, trkLinks, trkRebinds

trkVars == <<trkStore, trkOn, trkLink, trkBinding, trkBound, trkSpool, trkDeleted,
             trkMade, trkLinks, trkRebinds>>

NoLink == "no link"
ASSUME TrackerAssumption == PacketSize \in Nat /\ NoLink \notin Links
Unbound == "unbound"
SyntheticAsset == "teltonika-imei"
ClosedLink == [phase |-> "closed", asset |-> Unbound, packet |-> <<>>, damaged |-> FALSE,
               done |-> 0, ack |-> 0]

TrackerInit ==
  /\ trkStore = <<>> /\ trkOn = NoLink
  /\ trkLink = [l \in Links |-> ClosedLink]
  /\ trkBinding \in TrackerAssets \cup {Unbound}
  /\ trkBound = (TrackerAssets \cap {trkBinding}) \cup (IF StrictDevices THEN {} ELSE {SyntheticAsset})
  /\ trkSpool = {} /\ trkDeleted = {}
  /\ trkMade = 0 /\ trkLinks = 0 /\ trkRebinds = 0

-----------------------------------------------------------------------------
(* The tracker. *)

MakeRecord(wild) ==
  /\ trkMade < MaxTracked
  /\ trkMade' = trkMade + 1
  /\ trkStore' = Append(trkStore, [id |-> trkMade + 1, wild |-> wild])
  /\ UNCHANGED <<trkOn, trkLink, trkBinding, trkBound, trkSpool, trkDeleted, trkLinks, trkRebinds>>

SendPacket(damaged) ==
  /\ trkOn # NoLink /\ trkStore # <<>>
  /\ trkLink[trkOn].phase = "open" /\ trkLink[trkOn].packet = <<>> /\ trkLink[trkOn].ack = 0
  /\ \E n \in 1 .. PacketSize :
       /\ n <= Len(trkStore)
       /\ trkLink' = [trkLink EXCEPT ![trkOn].packet = SubSeq(trkStore, 1, n),
                                     ![trkOn].damaged = damaged, ![trkOn].done = 0]
  /\ UNCHANGED <<trkStore, trkOn, trkBinding, trkBound, trkSpool, trkDeleted, trkMade, trkLinks,
                 trkRebinds>>

ReceiveAck ==
  /\ trkOn # NoLink /\ trkLink[trkOn].ack # 0
  /\ LET n == trkLink[trkOn].ack IN
     /\ trkDeleted' = trkDeleted \cup ToSet(SubSeq(trkStore, 1, n))
     /\ trkStore' = SubSeq(trkStore, n + 1, Len(trkStore))
  /\ trkLink' = [trkLink EXCEPT ![trkOn].ack = 0]
  /\ UNCHANGED <<trkOn, trkBinding, trkBound, trkSpool, trkMade, trkLinks, trkRebinds>>

(* The tracker gives the connection up; what it sent may still arrive. *)
LoseLink ==
  /\ trkOn # NoLink
  /\ trkOn' = NoLink
  /\ UNCHANGED <<trkStore, trkLink, trkBinding, trkBound, trkSpool, trkDeleted, trkMade, trkLinks,
                 trkRebinds>>

-----------------------------------------------------------------------------
(* The listener. *)

(* make_device_resolver over resolve_imei *)
Resolve == IF trkBinding # Unbound THEN trkBinding
           ELSE IF StrictDevices THEN Unbound ELSE SyntheticAsset

(* The handshake, on a connection of the tracker. *)
Handshake(l) ==
  /\ trkOn = NoLink /\ trkLink[l] = ClosedLink /\ trkLinks < MaxLinks
  /\ trkLinks' = trkLinks + 1
  /\ trkOn' = IF Resolve = Unbound THEN NoLink ELSE l
  /\ trkLink' = [trkLink EXCEPT ![l] = IF Resolve = Unbound THEN ClosedLink
                                       ELSE [ClosedLink EXCEPT !.phase = "open", !.asset = Resolve]]
  /\ UNCHANGED <<trkStore, trkBinding, trkBound, trkSpool, trkDeleted, trkMade, trkRebinds>>

CloseLink(l) ==
  /\ trkLink' = [trkLink EXCEPT ![l] = ClosedLink]
  /\ trkOn' = IF trkOn = l THEN NoLink ELSE trkOn

Malformed(l) == trkLink[l].damaged \/ \E i \in DOMAIN trkLink[l].packet : trkLink[l].packet[i].wild
(* decode_packet raises, or records_to_positions does before anything is
   published: the connection is dropped unacknowledged. *)
RefusePacket(l) ==
  /\ trkLink[l].packet # <<>> /\ trkLink[l].done = 0 /\ Malformed(l)
  /\ CloseLink(l)
  /\ UNCHANGED <<trkStore, trkBinding, trkBound, trkSpool, trkDeleted, trkMade, trkLinks, trkRebinds>>

(* publish_position, for the next record of the packet. *)
PublishRecord(l) ==
  LET x == trkLink[l] IN
  /\ x.packet # <<>> /\ ~Malformed(l) /\ x.done < Len(x.packet)
  /\ trkSpool' = trkSpool \cup {[record |-> x.packet[x.done + 1], asset |-> x.asset]}
  /\ trkLink' = [trkLink EXCEPT ![l].done = @ + 1]
  /\ UNCHANGED <<trkStore, trkOn, trkBinding, trkBound, trkDeleted, trkMade, trkLinks, trkRebinds>>

AckOnReceipt(l) == trkLink[l].packet # <<>> /\ ~trkLink[l].damaged
ReadyToAck(l) == trkLink[l].packet # <<>> /\ trkLink[l].done = Len(trkLink[l].packet)
(* ack_bytes: the records of the packet; on a lost link the write fails. *)
AckPacket(l) ==
  /\ ReadyToAck(l)
  /\ trkOn = l
  /\ trkLink' = [trkLink EXCEPT ![l].ack = Len(trkLink[l].packet), ![l].packet = <<>>, ![l].done = 0]
  /\ UNCHANGED <<trkStore, trkOn, trkBinding, trkBound, trkSpool, trkDeleted, trkMade, trkLinks,
                 trkRebinds>>

(* IncompleteReadError, idle timeout or connection error, once the tracker is
   gone; an idle timeout also while it is only silent. *)
EndLink(l) ==
  /\ trkLink[l].phase = "open"
  /\ trkOn # l \/ (trkLink[l].packet = <<>> /\ trkLink[l].ack = 0)
  /\ trkLink[l].packet = <<>> \/ ReadyToAck(l)
  /\ CloseLink(l)
  /\ UNCHANGED <<trkStore, trkBinding, trkBound, trkSpool, trkDeleted, trkMade, trkLinks, trkRebinds>>

CrashListener ==
  /\ \E l \in Links : trkLink[l].phase = "open"
  /\ trkLink' = [l \in Links |-> ClosedLink]
  /\ trkOn' = NoLink
  /\ UNCHANGED <<trkStore, trkBinding, trkBound, trkSpool, trkDeleted, trkMade, trkLinks, trkRebinds>>

(* register_device or set_enabled (Devices), unknown to open connections. *)
Rebind(b) ==
  /\ trkRebinds < MaxRebinds /\ b # trkBinding
  /\ trkRebinds' = trkRebinds + 1
  /\ trkBinding' = b
  /\ trkBound' = trkBound \cup (TrackerAssets \cap {b})
  /\ UNCHANGED <<trkStore, trkOn, trkLink, trkSpool, trkDeleted, trkMade, trkLinks>>

TrackerNext ==
  \/ \E wild \in BOOLEAN : MakeRecord(wild)
  \/ \E damaged \in BOOLEAN : SendPacket(damaged)
  \/ ReceiveAck \/ LoseLink \/ CrashListener
  \/ \E l \in Links : Handshake(l) \/ RefusePacket(l) \/ PublishRecord(l) \/ AckPacket(l) \/ EndLink(l)
  \/ \E b \in TrackerAssets \cup {Unbound} : Rebind(b)

TrackerSpec == TrackerInit /\ [][TrackerNext]_trkVars

-----------------------------------------------------------------------------
(* A record the tracker has deleted was published, for an asset the tracker
   was bound to, and a record neither deleted nor held does not exist: a
   refused packet, a lost link or acknowledgement, a crash between two records
   of a packet lose nothing (TeltonikaServer._handle: "drops the connection
   unacknowledged so the device redelivers rather than losing data"). *)
DeletedIsPublished ==
  /\ \A x \in trkDeleted : \E p \in trkSpool : p.record = x /\ p.asset \in trkBound
  /\ {x.id : x \in trkDeleted \cup ToSet(trkStore)} = 1 .. trkMade
=============================================================================
