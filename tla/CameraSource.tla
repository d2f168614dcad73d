----------------------------- MODULE CameraSource ----------------------------
(***************************************************************************)
(* One live camera of a vision node (vision/edge/rtsp.py): the grabber     *)
(* thread connects with a capped backoff, drains the stream, samples it at *)
(* a fixed cadence into one slot; the analyser takes the newest frame from *)
(* the slot.  The camera fails and returns, frames arrive with jitter, the *)
(* capture library raises.                                                 *)
(*                                                                         *)
(* Time is in ticks, SampleStep of them between two samples.  Timers are   *)
(* kept relative to now, so that behaviours need no end.                   *)
(***************************************************************************)
EXTENDS Integers

CONSTANTS
  SampleStep,      \* step_s = 1 / sample_fps, in ticks
  FirstBackoff, LastBackoff,   \* Backoff.initial_s, maximum_s
  MaxReadFailures, \* max_read_failures
  FrameGap,        \* most ticks between two frames of a camera that is up
  MaxOutages       \* bound on the camera's outages

ASSUME SourceAssumption == SampleStep \in Nat \ {0}

VARIABLES
  camUp,           \* the camera delivers
  camOutages,
  camQuiet,        \* ticks since its last frame
  camFrame,        \* a frame waits to be read
  srcCap,          \* "none", "live", or "dead": opened before the last outage
  srcConnected, srcFails,
  srcBackoff,      \* Backoff._current
  srcWait,         \* ticks to _next_attempt
  srcDue,          \* ticks to _next_offer (negative: overdue, at most OverdueCap)
  srcSlot,         \* "empty", or a frame of the camera's present ("new") or an earlier
                   \* uptime ("old")
  srcTurn,         \* the grabber may act again in this tick
  srcFresh,        \* the analyser got a frame since the camera last returned
  srcBucket        \* offers made, in ticks' worth, beyond the ticks passed

srcVars == <<camUp, camOutages, camQuiet, camFrame, srcCap, srcConnected, srcFails, srcBackoff,
             srcWait, srcDue, srcSlot, srcTurn, srcFresh, srcBucket>>

LeastOf(a, b) == IF a < b THEN a ELSE b
MostOf(a, b) == IF a > b THEN a ELSE b
OverdueCap == 3 * SampleStep

SourceInit ==
  /\ camUp \in BOOLEAN /\ camOutages = 0 /\ camQuiet = 0 /\ camFrame = FALSE
  /\ srcCap = "none" /\ srcConnected = FALSE /\ srcFails = 0
  /\ srcBackoff = FirstBackoff /\ srcWait = 0 /\ srcDue = -OverdueCap
  /\ srcSlot = "empty" /\ srcTurn = FALSE /\ srcFresh = FALSE /\ srcBucket = 0

-----------------------------------------------------------------------------
(* The camera, and time. *)

CameraTick(arrives) ==
  /\ ~srcTurn
  /\ arrives => camUp
  /\ (camUp /\ ~arrives) => camQuiet < FrameGap
  /\ camQuiet' = IF arrives \/ ~camUp THEN 0 ELSE camQuiet + 1
  /\ camFrame' = (arrives /\ srcCap = "live")
  /\ srcTurn' = TRUE
  /\ srcWait' = MostOf(srcWait - 1, 0)
  /\ srcDue' = MostOf(srcDue - 1, -OverdueCap)
  /\ srcBucket' = MostOf(srcBucket - 1, 0)
  /\ UNCHANGED <<camUp, camOutages, srcCap, srcConnected, srcFails, srcBackoff, srcSlot, srcFresh>>

CameraFails ==
  /\ camUp /\ camOutages < MaxOutages
  /\ camUp' = FALSE /\ camOutages' = camOutages + 1
  /\ camQuiet' = 0 /\ camFrame' = FALSE
  /\ srcCap' = IF srcCap = "live" THEN "dead" ELSE srcCap
  /\ UNCHANGED <<srcConnected, srcFails, srcBackoff, srcWait, srcDue, srcSlot, srcTurn, srcFresh,
                 srcBucket>>

CameraReturns ==
  /\ ~camUp /\ camUp' = TRUE /\ srcFresh' = FALSE
  /\ srcSlot' = IF srcSlot = "new" THEN "old" ELSE srcSlot
  /\ UNCHANGED <<camOutages, camQuiet, camFrame, srcCap, srcConnected, srcFails, srcBackoff,
                 srcWait, srcDue, srcTurn, srcBucket>>

-----------------------------------------------------------------------------
(* The grabber. *)

(* Backoff.next, with its jitter, and _schedule_retry *)
Jitter(base) == base \div 5
ScheduleRetry ==
  /\ srcBackoff' = LeastOf(2 * srcBackoff, LastBackoff)
  /\ srcWait' \in srcBackoff - Jitter(srcBackoff) .. srcBackoff + Jitter(srcBackoff)

KeepCapture == "dead"
(* What _disconnect leaves of the capture. *)
Released == "none"
Disconnect ==
  /\ srcCap' = Released
  /\ srcConnected' = FALSE
  /\ ScheduleRetry

(* pump without a capture: wait, or try to open the stream. *)
PumpWaits ==
  /\ srcTurn /\ srcCap = "none" /\ srcWait > 0
  /\ srcTurn' = FALSE
  /\ UNCHANGED <<camUp, camOutages, camQuiet, camFrame, srcCap, srcConnected, srcFails, srcBackoff,
                 srcWait, srcDue, srcSlot, srcFresh, srcBucket>>

PumpOpens ==
  /\ srcTurn /\ srcCap = "none" /\ srcWait = 0
  /\ srcTurn' = FALSE
  /\ IF camUp THEN srcCap' = "live" /\ srcFails' = 0 /\ UNCHANGED <<srcBackoff, srcWait>>
              ELSE UNCHANGED <<srcCap, srcFails>> /\ ScheduleRetry
  /\ UNCHANGED <<camUp, camOutages, camQuiet, camFrame, srcConnected, srcDue, srcSlot, srcFresh, srcBucket>>

(* pump with a capture: the read blocks until a frame comes ... *)
PumpBlocks ==
  /\ srcTurn /\ srcCap = "live" /\ ~camFrame
  /\ srcTurn' = FALSE
  /\ UNCHANGED <<camUp, camOutages, camQuiet, camFrame, srcCap, srcConnected, srcFails, srcBackoff,
                 srcWait, srcDue, srcSlot, srcFresh, srcBucket>>

(* ... or fails, often enough to give the stream up, or raises. *)
PumpFails ==
  /\ srcTurn /\ srcCap = "dead"
  /\ srcTurn' = FALSE
  /\ srcFails' = srcFails + 1
  /\ IF srcFails + 1 >= MaxReadFailures THEN Disconnect
     ELSE UNCHANGED <<srcCap, srcConnected, srcBackoff, srcWait>>
  /\ UNCHANGED <<camUp, camOutages, camQuiet, camFrame, srcDue, srcSlot, srcFresh, srcBucket>>

PumpRaises ==
  /\ srcTurn /\ srcCap = "dead"
  /\ srcTurn' = FALSE
  /\ Disconnect
  /\ UNCHANGED <<camUp, camOutages, camQuiet, camFrame, srcFails, srcDue, srcSlot, srcFresh, srcBucket>>

(* The cadence: a frame up to a quarter step early is a sample, and the next
   slot follows from this one unless it is already past. *)
SampleDue == 4 * srcDue <= SampleStep
NeverResync(due) == due + SampleStep
NextDue(due) == IF due + SampleStep < 0 THEN SampleStep ELSE due + SampleStep

PumpReads ==
  /\ srcTurn /\ srcCap = "live" /\ camFrame
  /\ srcTurn' = FALSE /\ camFrame' = FALSE
  /\ srcFails' = 0
  /\ srcConnected' = TRUE
  /\ srcBackoff' = IF srcConnected THEN srcBackoff ELSE FirstBackoff
  /\ IF SampleDue
     THEN /\ srcDue' = NextDue(srcDue)
          /\ srcSlot' = "new"
          /\ srcBucket' = srcBucket + SampleStep
     ELSE UNCHANGED <<srcDue, srcSlot, srcBucket>>
  /\ UNCHANGED <<camUp, camOutages, camQuiet, srcCap, srcWait, srcFresh>>

(* latest *)
TakeFrame ==
  /\ srcSlot # "empty"
  /\ srcSlot' = "empty"
  /\ srcFresh' = (srcFresh \/ (camUp /\ srcSlot = "new"))
  /\ UNCHANGED <<camUp, camOutages, camQuiet, camFrame, srcCap, srcConnected, srcFails, srcBackoff,
                 srcWait, srcDue, srcTurn, srcBucket>>

Grab == PumpWaits \/ PumpOpens \/ PumpBlocks \/ PumpFails \/ PumpRaises \/ PumpReads

SourceNext ==
  \/ \E arrives \in BOOLEAN : CameraTick(arrives)
  \/ CameraFails \/ CameraReturns
  \/ Grab
  \/ TakeFrame

SourceSpec == SourceInit /\ [][SourceNext]_srcVars

(* Time passes, and both threads are scheduled. *)
SourceFairness ==
  /\ WF_srcVars(\E arrives \in BOOLEAN : CameraTick(arrives))
  /\ WF_srcVars(Grab)
  /\ WF_srcVars(TakeFrame)

-----------------------------------------------------------------------------
(* Frames are offered to the analyser at sample_fps in the mean: over any
   stretch of time, at most two frames more than its steps, whatever the
   jitter of the stream and after any outage ("keeps the mean rate at
   sample_fps", pump). *)
SampleRateKept == srcBucket <= 2 * SampleStep + SampleStep \div 4

(* A camera that is up, or comes back, is connected to again and the analyser
   gets its frames, unless it fails again (pump, _run: "the grabber survives
   anything and retries"). *)
FramesResume == camUp ~> (srcFresh \/ ~camUp)
=============================================================================
