--------------------------- MODULE CalendarEvents ---------------------------
(***************************************************************************)
(* One event of tools/google_calendar.py, from the dates a proposal is     *)
(* shown with for approval (orchestrator.py, _describe_when) to the dates  *)
(* a listing shows later.                                                  *)
(*                                                                         *)
(* A date is a number, and `day` says whether it is a bare date or has a   *)
(* time.  Google's end of an all-day event is exclusive; the end the model *)
(* sends and reads is the last day.  A time is sent in the calendar's time *)
(* zone, or in UTC, Offset away from it, when the zone cannot be read.     *)
(***************************************************************************)
EXTENDS Integers

CONSTANTS
    Days,       \* dates and times the model may send
    Offset,     \* the calendar's distance from UTC
    ZoneFails,  \* the look-up of the time zone may fail
    NoEvent

ASSUME EventAssumption ==
    /\ Days \subseteq Nat
    /\ Offset \in Nat \ {0} /\ ZoneFails \in BOOLEAN

VARIABLES
    event,      \* the event at Google, None if there is none
    approved    \* history: the dates last approved for it

eventVars == <<event, approved>>

EventInit == event = NoEvent /\ approved = NoEvent

-----------------------------------------------------------------------------
(* Dates on their way out and back.                                        *)
Dates == [day : BOOLEAN, on : Days]

\* _calendar_tz, as its distance from the calendar's own zone
Zones == {0} \union (IF ZoneFails THEN {Offset} ELSE {})

\* _time_field of a start
StartField(v, zone) == IF v.day THEN v ELSE [v EXCEPT !.on = @ + zone]

\* mutant of EndField: the last day is sent as it is
EndAsStart(v, zone) == StartField(v, zone)

\* _time_field of an end
EndField(v, zone) == IF v.day THEN [v EXCEPT !.on = @ + 1] ELSE StartField(v, zone)

\* _fmt_event: an all-day end is shown as the last day
Shown(e) == [e EXCEPT !.end.on = IF e.end.day THEN @ - 1 ELSE @]

\* _describe_when: the number of days an all-day proposal is shown with
DayCount(start, end) == (end.on - start.on) + 1

\* What Google accepts; it answers 400 to the rest.
Valid(e) == e.start.day = e.end.day /\ (IF e.start.day THEN e.start.on < e.end.on
                                                      ELSE e.start.on <= e.end.on)

-----------------------------------------------------------------------------
(* The tools.  A write whose answer is lost has been made all the same, and *)
(* one that is refused changes nothing.                                    *)

\* create_event, or update_event of both ends
Writes ==
    \E start, end \in Dates, zone \in Zones :
        /\ event' = [start |-> StartField(start, zone), end |-> EndField(end, zone)]
        /\ Valid(event')
        /\ approved' = [start |-> start, end |-> end]

\* update_event of one end: the other stays as Google has it
Moves ==
    /\ event # NoEvent
    /\ \E v \in Dates, zone \in Zones :
          \/ /\ event' = [event EXCEPT !.start = StartField(v, zone)]
             /\ approved' = [approved EXCEPT !.start = v]
          \/ /\ event' = [event EXCEPT !.end = EndField(v, zone)]
             /\ approved' = [approved EXCEPT !.end = v]
    /\ Valid(event')

\* list_events, and update_event with the dates as they were listed
Amends ==
    /\ event # NoEvent
    /\ \E zone \in Zones :
          event' = [start |-> StartField(Shown(event).start, zone),
                    end |-> EndField(Shown(event).end, zone)]
    /\ UNCHANGED approved

Deletes == event # NoEvent /\ event' = NoEvent /\ approved' = NoEvent

EventNext == Writes \/ Moves \/ Amends \/ Deletes

EventSpec == EventInit /\ [][EventNext]_eventVars

-----------------------------------------------------------------------------
(* Properties.                                                             *)

(* An event has dates of one kind, in order.                               *)
EventTypeOK == event # NoEvent => /\ event.start \in [day : BOOLEAN, on : Nat]
                                  /\ event.end \in [day : BOOLEAN, on : Nat]
                                  /\ Valid(event)

(* An event is listed with the dates that were approved for it, whatever   *)
(* was created, moved or sent back as listed before, and an all-day event  *)
(* covers as many days as its proposal was shown with (lines 262-270 and   *)
(* 290-293 tell of the day lost, and of the day gained at every round trip).*)
DatesStay ==
    event # NoEvent =>
        /\ Shown(event) = approved
        /\ event.start.day =>
              event.end.on - event.start.on = DayCount(approved.start, approved.end)
=============================================================================
