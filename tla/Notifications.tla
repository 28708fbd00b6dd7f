--------------------------- MODULE Notifications ---------------------------
(***************************************************************************)
(* NotificationService and its tasks: a notification is written and its    *)
(* delivery task published in one transaction, the task makes one delivery *)
(* row per recipient, the recipients change the state of theirs, and a     *)
(* sweep archives and purges what is no longer visible.                    *)
(***************************************************************************)
EXTENDS Integers

CONSTANTS Notices,      \* the notifications
          Recipients,   \* the active users of the target
          QueueRead,    \* do workers read the queue `notifications`?
          NoticeFaults  \* bound: workers that die

ASSUME NoticeAssumption == Notices # {} /\ QueueRead \in BOOLEAN /\ NoticeFaults \in Nat

VARIABLES notice,      \* the Notification rows; gone: rolled back or purged
          phase,       \* their age: visible, no longer, 30 days past
          task,        \* the delivery task of each
          addressees,  \* whom the running task makes rows for
          preference,  \* the NotificationPreference row of each user
          delivery,    \* the NotificationDelivery rows
          reader,      \* the request of each user
          sweep,       \* the notifications the running sweep has to archive
          torn,        \* notifications whose archiving died half way, or whose
                       \* delivery came after it
          noticeFaults

noticeVars == <<notice, phase, task, addressees, preference, delivery, reader,
                sweep, torn, noticeFaults>>

ReadState == {"UNREAD", "READ", "ARCHIVED", "DISMISSED"}
IdleReader == [at |-> "idle", n |-> CHOOSE n \in Notices : TRUE, state |-> "READ"]

NoticeTypeOK ==
  /\ notice \in [Notices -> {"none", "writing", "shown", "archived", "gone"}]
  /\ phase \in [Notices -> {"visible", "expired", "old"}]
  /\ task \in [Notices -> {"none", "queued", "running", "done", "missed", "lost"}]
  /\ addressees \in [Notices -> SUBSET Recipients]
  /\ preference \in [Recipients -> {"none", "yes", "no"}]
  /\ delivery \in [Notices -> [Recipients -> ReadState \cup {"none"}]]
  /\ reader \in [Recipients -> [at : {"idle", "fetched"}, n : Notices,
                                state : ReadState \ {"UNREAD"}]]
  /\ sweep \in [archiving : SUBSET Notices, swept : SUBSET Notices]
  /\ torn \subseteq Notices
  /\ noticeFaults \in 0..NoticeFaults

NoSweep == [archiving |-> {}, swept |-> {}]

NoticeInit ==
  /\ notice = [n \in Notices |-> "none"]
  /\ phase = [n \in Notices |-> "visible"]
  /\ task = [n \in Notices |-> "none"]
  /\ addressees = [n \in Notices |-> {}]
  /\ preference \in [Recipients -> {"none", "yes", "no"}]
  /\ delivery = [n \in Notices |-> [u \in Recipients |-> "none"]]
  /\ reader = [u \in Recipients |-> IdleReader]
  /\ sweep = NoSweep
  /\ torn = {}
  /\ noticeFaults = 0
-----------------------------------------------------------------------------
(* create_notification_from_event and deliver_notification *)

\* The rows are written and the task is published before the transaction ends.
CreateNotice(n) ==
  /\ notice[n] = "none"
  /\ notice' = [notice EXCEPT ![n] = "writing"]
  /\ task' = [task EXCEPT ![n] = "queued"]
  /\ UNCHANGED <<phase, addressees, preference, delivery, reader, sweep, torn, noticeFaults>>

\* The transaction, of this call or of its caller, commits or rolls back.
EndCreate(n) ==
  /\ notice[n] = "writing"
  /\ \E s \in {"shown", "gone"} : notice' = [notice EXCEPT ![n] = s]
  /\ UNCHANGED <<phase, task, addressees, preference, delivery, reader, sweep, torn,
                 noticeFaults>>

Committed(n) == notice[n] \in {"shown", "archived"}

\* get_or_create: a user without preferences gets the defaults.  Mutant: get.
AcceptsAsked(u) == preference[u] = "yes"
Accepts(u) == preference[u] # "no"

\* The worker reads the notification, its users and their preferences; a row it
\* does not see ends the task.  The task waits if no worker reads its queue.
StartDelivery(n) ==
  /\ QueueRead /\ task[n] = "queued"
  /\ task' = [task EXCEPT ![n] = IF Committed(n) THEN "running" ELSE "missed"]
  /\ addressees' = [addressees EXCEPT ![n] =
       IF Committed(n) THEN {u \in Recipients : Accepts(u)} ELSE {}]
  /\ preference' = IF Committed(n)
       THEN [u \in Recipients |-> IF preference[u] = "none" THEN "yes" ELSE preference[u]]
       ELSE preference
  /\ UNCHANGED <<notice, phase, delivery, reader, sweep, torn, noticeFaults>>

\* bulk_create: without the notification's row it raises.
Deliver(n) ==
  /\ task[n] = "running"
  /\ task' = [task EXCEPT ![n] = "done"]
  /\ delivery' = IF Committed(n)
       THEN [delivery EXCEPT ![n] = [u \in Recipients |->
               IF u \in addressees[n] /\ @[u] = "none" THEN "UNREAD" ELSE @[u]]]
       ELSE delivery
  /\ torn' = IF notice[n] = "archived" THEN torn \cup {n} ELSE torn
  /\ UNCHANGED <<notice, phase, addressees, preference, reader, sweep, noticeFaults>>

\* A worker that dies loses its task.
LoseTask(n) ==
  /\ task[n] = "running"
  /\ noticeFaults < NoticeFaults /\ noticeFaults' = noticeFaults + 1
  /\ task' = [task EXCEPT ![n] = "lost"]
  /\ UNCHANGED <<notice, phase, addressees, preference, delivery, reader, sweep, torn>>

\* The user changes the preferences.
SetPreference(u) ==
  /\ \E p \in {"yes", "no"} : preference' = [preference EXCEPT ![u] = p]
  /\ UNCHANGED <<notice, phase, task, addressees, delivery, reader, sweep, torn,
                 noticeFaults>>
-----------------------------------------------------------------------------
(* update_delivery_state *)

FetchDelivery(u, n, state) ==
  /\ reader[u].at = "idle" /\ delivery[n][u] # "none"
  /\ reader' = [reader EXCEPT ![u] = [at |-> "fetched", n |-> n, state |-> state]]
  /\ UNCHANGED <<notice, phase, task, addressees, preference, delivery, sweep, torn,
                 noticeFaults>>

\* delivery.save() writes the whole row; if it was purged, the insert it tries
\* then has no notification to refer to.
SaveDelivery(u) ==
  LET n == reader[u].n
  IN /\ reader[u].at = "fetched"
     /\ delivery' = IF delivery[n][u] = "none" THEN delivery
                    ELSE [delivery EXCEPT ![n][u] = reader[u].state]
     /\ reader' = [reader EXCEPT ![u] = IdleReader]
     /\ UNCHANGED <<notice, phase, task, addressees, preference, sweep, torn, noticeFaults>>
-----------------------------------------------------------------------------
(* archive_and_purge_notifications_task *)

PassTime(n) ==
  /\ notice[n] \in {"shown", "archived"} /\ phase[n] # "old"
  /\ phase' = [phase EXCEPT ![n] = IF @ = "visible" THEN "expired" ELSE "old"]
  /\ UNCHANGED <<notice, task, addressees, preference, delivery, reader, sweep, torn,
                 noticeFaults>>

\* The query of archive_expired_notifications.
StartSweep ==
  LET S == {n \in Notices : notice[n] = "shown" /\ phase[n] # "visible"}
  IN /\ sweep = NoSweep /\ S # {}
     /\ sweep' = [archiving |-> S, swept |-> {}]
     /\ UNCHANGED <<notice, phase, task, addressees, preference, delivery, reader, torn,
                    noticeFaults>>

\* notif.save().
ArchiveNotice(n) ==
  /\ n \in sweep.archiving /\ sweep.swept = {}
  /\ notice' = [notice EXCEPT ![n] = "archived"]
  /\ sweep' = [archiving |-> sweep.archiving \ {n}, swept |-> {n}]
  /\ UNCHANGED <<phase, task, addressees, preference, delivery, reader, torn, noticeFaults>>

\* The states the update of the deliveries archives.  Mutant: the read ones.
SweptRead == {"READ"}
Swept == {"UNREAD"}
ArchiveDeliveries(n) ==
  /\ n \in sweep.swept
  /\ delivery' = [delivery EXCEPT ![n] = [u \in Recipients |->
                    IF @[u] \in Swept THEN "ARCHIVED" ELSE @[u]]]
  /\ sweep' = [sweep EXCEPT !.swept = {}]
  /\ UNCHANGED <<notice, phase, task, addressees, preference, reader, torn, noticeFaults>>

\* purge_expired_notifications: the rows go with their deliveries.
PurgeNotices ==
  LET S == {n \in Notices : notice[n] = "archived" /\ phase[n] = "old"}
  IN /\ sweep = NoSweep /\ S # {}
     /\ notice' = [n \in Notices |-> IF n \in S THEN "gone" ELSE notice[n]]
     /\ delivery' = [n \in Notices |->
          IF n \in S THEN [u \in Recipients |-> "none"] ELSE delivery[n]]
     /\ UNCHANGED <<phase, task, addressees, preference, reader, sweep, torn, noticeFaults>>

\* The worker of the sweep dies: the next one does not look at the notification
\* it was archiving, which is archived by its own row.
LoseSweep ==
  /\ sweep # NoSweep
  /\ noticeFaults < NoticeFaults /\ noticeFaults' = noticeFaults + 1
  /\ torn' = torn \cup sweep.swept
  /\ sweep' = NoSweep
  /\ UNCHANGED <<notice, phase, task, addressees, preference, delivery, reader>>

DeliverySteps(n) == StartDelivery(n) \/ Deliver(n)

NoticeNext ==
  \/ \E n \in Notices :
       \/ CreateNotice(n) \/ EndCreate(n) \/ DeliverySteps(n) \/ LoseTask(n)
       \/ PassTime(n) \/ ArchiveNotice(n) \/ ArchiveDeliveries(n)
  \/ \E u \in Recipients :
       \/ SetPreference(u) \/ SaveDelivery(u)
       \/ \E n \in Notices, s \in ReadState \ {"UNREAD"} : FetchDelivery(u, n, s)
  \/ StartSweep \/ PurgeNotices \/ LoseSweep

\* The workers of the queue, if there are any, take its tasks.
NoticeFairness == \A n \in Notices : WF_noticeVars(DeliverySteps(n))

NoticeSpec == NoticeInit /\ [][NoticeNext]_noticeVars /\ NoticeFairness
-----------------------------------------------------------------------------
(* Properties *)

\* Where workers read the queue `notifications` (those of docs/DEPLOYMENT.md and
\* README.md do not): a notification whose task was not looked at before the
\* commit reaches every recipient who does not refuse it, unless the worker died
\* or the notification was purged first: having no preferences loses nothing.
NoticesArrive ==
  \A n \in Notices, u \in Recipients :
    QueueRead /\ Committed(n) /\ task[n] = "queued" /\ preference[u] # "no" ~>
      \/ delivery[n][u] # "none" \/ preference[u] = "no"
      \/ task[n] = "lost" \/ notice[n] = "gone"

\* An archived notification is unread by nobody, in whatever order users and
\* the sweep write, unless the sweep died in it or the delivery came later.
ArchivedIsQuiet ==
  \A n \in Notices :
    notice[n] = "archived" /\ n \notin sweep.swept \cup torn =>
      \A u \in Recipients : delivery[n][u] # "UNREAD"
=============================================================================
