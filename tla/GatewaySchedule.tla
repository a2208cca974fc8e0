-------------------------- MODULE GatewaySchedule --------------------------
(***************************************************************************)
(* The two dispatchers of the gateway that send what is due: reminders and *)
(* scheduled messages, once or in a series.  A dispatcher fetches the due  *)
(* rows, then sends and records them one after the other, from the copies  *)
(* it fetched; meanwhile people edit and cancel rows, switch the channel   *)
(* off, and the process may stop between a send and its record.            *)
(*                                                                         *)
(* Time counts ticks; the calendar of a recurrence rule is an interval.    *)
(***************************************************************************)
EXTENDS Naturals, FiniteSets, Functions

CONSTANTS
  Reminders, Messages,  \* rows of gateway_reminders and gateway_scheduled_messages
  Interval,             \* recurrence_rule.interval of a message, 0 for none
  MaxOccurrences,       \* recurrence_rule.max_occurrences, 0 for none
  EndAt,                \* recurrence_rule.end_at
  Due,                  \* when a row is due first
  MaxInterval,          \* bound: the longest interval
  MaxTime, MaxEdits, MaxFailures

Rows == Reminders \cup Messages
Kinds == {"reminders", "messages"}
RowsOf(k) == IF k = "reminders" THEN Reminders ELSE Messages

ASSUME RuleAssumption ==
  /\ Reminders \cap Messages = {}
  /\ Interval \in [Messages -> 0..MaxInterval] /\ MaxOccurrences \in [Messages -> Nat]
  /\ EndAt \in [Messages -> Nat] /\ Due \in [Rows -> 0..MaxTime]
ASSUME ScheduleBounds == MaxInterval \in Nat /\ MaxTime \in Nat /\ MaxEdits \in Nat /\ MaxFailures \in Nat

VARIABLES
  now,
  row,       \* the columns status, send_at (due_at) and occurrence_count;
             \* and how often the row was edited
  active,    \* gateway_channels.is_active
  batch,     \* the copies a dispatcher has fetched and not yet handled
  current,   \* the row it handles, and what it knows of the send
  edits, failures,
  sends,     \* history: how often a slot <<row, edit, send_at>> was sent
  lastSent,  \* history: when the current edit of a row was sent last, or 0
  late       \* history: whether a row was cancelled, and its sends since

scheduleVars == <<now, row, active, batch, current, edits, failures, sends, lastSent, late>>

Times == 0..(MaxTime + MaxInterval)
Slots == Rows \X (0..MaxEdits) \X Times
Nothing == [at |-> "idle"]
NotStopped == [stopped |-> FALSE, sends |-> 0]
Slot(i, copy) == <<i, copy.edit, copy.at>>

ScheduleInit ==
  /\ now = 0 /\ active = TRUE
  /\ row = [i \in Rows |-> [status |-> "pending", at |-> Due[i], count |-> 0, edit |-> 0]]
  /\ batch = [k \in Kinds |-> <<>>] /\ current = [k \in Kinds |-> Nothing]
  /\ edits = 0 /\ failures = 0
  /\ sends = [s \in Slots |-> 0] /\ lastSent = [i \in Rows |-> 0] /\ late = [i \in Rows |-> NotStopped]

SetRow(i, r) == row' = [row EXCEPT ![i] = r]
Failure == failures < MaxFailures /\ failures' = failures + 1
IsDue(i) == row[i].status = "pending" /\ row[i].at <= now

(* A series with occurrences left after the one that has been sent. *)
SeriesGoesOn(i, copy) ==
  /\ Interval[i] > 0
  /\ MaxOccurrences[i] = 0 \/ copy.count + 1 < MaxOccurrences[i]

-----------------------------------------------------------------------------
(* Faulty variants: bugs this code could plausibly have. *)

(* Only what became due since the last tick is fetched. *)
JustDue(i) == row[i].status = "pending" /\ row[i].at = now

(* The reminders' dispatcher forgets to complete what it has sent. *)
CompleteMessages(k) ==
  /\ current[k].at = "record"
  /\ k = "messages" => ~SeriesGoesOn(current[k].id, current[k].copy)
  /\ IF k = "messages" THEN SetRow(current[k].id, [row[current[k].id] EXCEPT !.status = "sent"])
                       ELSE UNCHANGED row
  /\ current' = [current EXCEPT ![k] = Nothing]
  /\ UNCHANGED <<now, active, batch, edits, failures, sends, lastSent, late>>

-----------------------------------------------------------------------------
(* FetchDueReminders, FetchDueScheduledMessages: copies in a function *)
Selected(i) == IsDue(i)
Fetch(k) ==
  /\ batch[k] = <<>> /\ current[k] = Nothing
  /\ active
  /\ LET due == {i \in RowsOf(k) : Selected(i)} IN
       /\ due # {}
       /\ batch' = [batch EXCEPT ![k] = [i \in due |-> row[i]]]
  /\ UNCHANGED <<now, row, active, current, edits, failures, sends, lastSent, late>>

(* The next copy, the one due first; a row whose channel is off by now is  *)
(* left for later.                                                         *)
Take(k) ==
  /\ current[k] = Nothing
  /\ \E i \in DOMAIN batch[k] :
       /\ \A j \in DOMAIN batch[k] : batch[k][i].at <= batch[k][j].at
       /\ batch' = [batch EXCEPT ![k] =
            LET rest == DOMAIN @ \ {i} IN IF rest = {} THEN <<>> ELSE Restrict(@, rest)]
       /\ current' = IF active THEN [current EXCEPT ![k] = [at |-> "send", id |-> i, copy |-> batch[k][i]]]
                     ELSE current
  /\ UNCHANGED <<now, row, active, edits, failures, sends, lastSent, late>>

(* SendWhatsApp, or with use_agent dispatchGatewayRun.  The adapter takes  *)
(* longer than its client waits, so a failed send may have gone out.       *)
Send(k) ==
  /\ current[k].at = "send"
  /\ LET i == current[k].id  c == current[k].copy IN
       \/ /\ current' = [current EXCEPT ![k].at = "record"]
          /\ sends' = [sends EXCEPT ![Slot(i, c)] = @ + 1]
          /\ lastSent' = IF c.edit = row[i].edit THEN [lastSent EXCEPT ![i] = now] ELSE lastSent
          /\ late' = IF late[i].stopped THEN [late EXCEPT ![i].sends = @ + 1] ELSE late
          /\ UNCHANGED <<row, failures>>
       \/ /\ Failure
          /\ current' = [current EXCEPT ![k] = Nothing]
          /\ SetRow(i, [row[i] EXCEPT !.status = "failed"])
          /\ sends' \in {sends, [sends EXCEPT ![Slot(i, c)] = @ + 1]}
          /\ UNCHANGED <<lastSent, late>>
  /\ UNCHANGED <<now, active, batch, edits>>

(* nextScheduledFireAt, repeated until the next fire lies in the future. *)
NextFire(i, from) ==
  CHOOSE t \in Times : /\ t > now /\ \E n \in 1..(MaxTime + 1) : t = from + n * Interval[i]
                       /\ t - Interval[i] <= now \/ t = from + Interval[i]
RescheduledStatus(i) == row[i].status

(* RescheduleMessage leaves the status alone; the other updates set it,    *)
(* whatever it is by now.                                                  *)
Reschedule(k) ==
  /\ k = "messages" /\ current[k].at = "record"
  /\ LET i == current[k].id  c == current[k].copy  t == NextFire(i, c.at) IN
       /\ SeriesGoesOn(i, c) /\ t <= EndAt[i]
       /\ SetRow(i, [row[i] EXCEPT !.at = t, !.count = c.count + 1,
                                   !.status = RescheduledStatus(i)])
  /\ current' = [current EXCEPT ![k] = Nothing]
  /\ UNCHANGED <<now, active, batch, edits, failures, sends, lastSent, late>>

Complete(k) ==
  /\ current[k].at = "record"
  /\ LET i == current[k].id  c == current[k].copy IN
       /\ k = "messages" /\ SeriesGoesOn(i, c) => NextFire(i, c.at) > EndAt[i]
       /\ SetRow(i, [row[i] EXCEPT !.status = IF k = "messages" THEN "sent" ELSE "completed"])
  /\ current' = [current EXCEPT ![k] = Nothing]
  /\ UNCHANGED <<now, active, batch, edits, failures, sends, lastSent, late>>

-----------------------------------------------------------------------------
Edit == edits < MaxEdits /\ edits' = edits + 1

(* UpdateReminder moves the due time; UpdateScheduledMessage also starts   *)
(* the series anew and makes the row pending, whatever it was.             *)
EditReminder(i, t) ==
  /\ Edit /\ i \in Reminders
  /\ SetRow(i, [row[i] EXCEPT !.at = t, !.edit = @ + 1])
  /\ lastSent' = [lastSent EXCEPT ![i] = 0]
  /\ UNCHANGED <<now, active, batch, current, failures, sends, late>>
EditMessage(i, t) ==
  /\ Edit /\ i \in Messages
  /\ SetRow(i, [status |-> "pending", at |-> t, count |-> 0, edit |-> row[i].edit + 1])
  /\ lastSent' = [lastSent EXCEPT ![i] = 0] /\ late' = [late EXCEPT ![i] = NotStopped]
  /\ UNCHANGED <<now, active, batch, current, failures, sends>>
(* DeleteReminder, DeleteScheduledMessage, whatsapp_complete_reminder *)
CancelRow(i) ==
  /\ Edit /\ row[i].status # "cancelled"
  /\ SetRow(i, [row[i] EXCEPT !.status = "cancelled"])
  /\ late' = [late EXCEPT ![i] = [stopped |-> TRUE, sends |-> 0]]
  /\ UNCHANGED <<now, active, batch, current, failures, sends, lastSent>>
(* UpdateChannel with is_active *)
SwitchChannel ==
  /\ Edit /\ active' = ~active
  /\ UNCHANGED <<now, row, batch, current, failures, sends, lastSent, late>>

Tick ==
  /\ now < MaxTime /\ now' = now + 1
  /\ UNCHANGED <<row, active, batch, current, edits, failures, sends, lastSent, late>>

Crash ==
  /\ Failure
  /\ batch' = [k \in Kinds |-> <<>>] /\ current' = [k \in Kinds |-> Nothing]
  /\ UNCHANGED <<now, row, active, edits, sends, lastSent, late>>

DispatchDue(k) == Fetch(k) \/ Take(k) \/ Send(k) \/ Reschedule(k) \/ Complete(k)
ScheduleNext ==
  \/ \E k \in Kinds : DispatchDue(k)
  \/ \E i \in Rows : CancelRow(i) \/ \E t \in 1..MaxTime : EditReminder(i, t) \/ EditMessage(i, t)
  \/ SwitchChannel \/ Tick \/ Crash

ScheduleSpec == ScheduleInit /\ [][ScheduleNext]_scheduleVars
(* The dispatchers tick every 30 seconds. *)
ScheduleFairness == \A k \in Kinds : WF_scheduleVars(DispatchDue(k))

-----------------------------------------------------------------------------
(* Properties *)

ScheduleTypeOK ==
  /\ now \in 0..MaxTime /\ active \in BOOLEAN /\ edits \in 0..MaxEdits /\ failures \in 0..MaxFailures
  /\ \A i \in Rows : row[i] \in
       [status : {"pending", "failed", "cancelled"} \cup (IF i \in Messages THEN {"sent"} ELSE {"completed"}),
        at : Times, count : 0..(MaxTime + 1), edit : 0..MaxEdits]
  /\ sends \in [Slots -> Nat] /\ lastSent \in [Rows -> 0..MaxTime] /\ late \in [Rows -> [stopped : BOOLEAN, sends : Nat]]

(* A slot of a reminder or series is sent once, and once more only for a   *)
(* process that stopped between a send and its record.                     *)
SlotSentOnce == \A s \in Slots : sends[s] <= 1 + failures

(* After an outage a series does not catch up: what is pending again lies  *)
(* after the send before it (fireScheduledMessages' loop).                 *)
InHand(i) == \E k \in Kinds : current[k] # Nothing /\ current[k].id = i
NoCatchUp ==
  \A i \in Messages : row[i].status = "pending" /\ lastSent[i] # 0 /\ ~InHand(i) /\ failures = 0
                       => row[i].at > lastSent[i]

(* Of a cancelled reminder or series at most the send in hand goes out.    *)
CancelStopsSeries == \A i \in Rows : late[i].sends <= 1

\* What is scheduled is sent as scheduled: once a slot, a whole interval apart, and no
\* longer than until it is cancelled.
SendsAsScheduled == SlotSentOnce /\ NoCatchUp /\ CancelStopsSeries

(* What is due is sent, however late the dispatcher comes to it.           *)
DueIsHandled == \A i \in Rows : [](active /\ IsDue(i) => <>(~active \/ ~IsDue(i)))
=============================================================================
