-------------------------- MODULE TelemetryDelivery --------------------------
(***************************************************************************)
(* What the store-and-forward path promises its users, whatever fails on   *)
(* the way (README.md "MQTT ingest", ARCHITECTURE.md section 7): a fix     *)
(* handed to the publisher is held somewhere until it has an outcome, an   *)
(* outcome is final, and the table of positions only ever grows by a fix   *)
(* that is held.  Nothing here says how it is held.                        *)
(***************************************************************************)
EXTENDS Naturals, Sequences

CONSTANTS Payloads,   \* the position payloads devices send
          Keys,       \* (site, asset, ts): the idempotency key of a position
          KeyOf       \* the key of each payload

VARIABLES body,       \* the payloads accepted, in order; a row is its index
          held,       \* rows the path still has a copy of
          refused,    \* rows given up for good
          positions   \* keys in the positions table

vars == <<body, held, refused, positions>>

\* A row has its outcome: its fix is in the positions table, or it was refused.
Final(r) == KeyOf[body[r]] \in positions \/ r \in refused

Init == body = <<>> /\ held = {} /\ refused = {} /\ positions = {}

Accept(p) ==
  /\ body' = Append(body, p)
  /\ held' = held \cup {Len(body) + 1}
  /\ UNCHANGED <<refused, positions>>

Store(r) ==
  /\ r \in held
  /\ positions' = positions \cup {KeyOf[body[r]]}
  /\ UNCHANGED <<body, held, refused>>

Refuse(r) ==
  /\ r \in held
  /\ refused' = refused \cup {r}
  /\ UNCHANGED <<body, held, positions>>

\* The last copies of rows are let go only once the rows have their outcome.
Release(S) ==
  /\ S # {} /\ S \subseteq held
  /\ \A r \in S : Final(r)
  /\ held' = held \ S
  /\ UNCHANGED <<body, refused, positions>>

Next == \/ \E p \in Payloads : Accept(p)
        \/ \E r \in held : Store(r) \/ Refuse(r)
        \/ \E S \in SUBSET held : Release(S)

Spec == Init /\ [][Next]_vars
=============================================================================
