-------------------------------- MODULE LMac --------------------------------
(***************************************************************************)
(* The lower MAC of foa/src/lmac: the channel lock that the interfaces     *)
(* share, and off channel operations, by which one interface leaves the    *)
(* locked channel for a while with the consent of the others.              *)
(*                                                                         *)
(* Everything runs on one core under a cooperative executor, so an action  *)
(* is what a task does between two awaits that can really suspend it.      *)
(* Per interface there is a control task, which brings the interface up    *)
(* and down (StaControl::connect, AwdlControl::start) or starts an off     *)
(* channel operation (a scan), one at a time since both borrow the control *)
(* mutably, and a runner, which answers off channel requests while the     *)
(* interface is up and releases the lock when it loses the connection.     *)
(***************************************************************************)
CONSTANTS
  Interfaces,      \* 0 .. INTERFACE_COUNT - 1
  Scanners,        \* the interfaces that start off channel operations
  Connectors,      \* the interfaces that lock the channel
  Channels,        \* the u8 values passed as channels ...
  ValidChannels,   \* ... and those the radio accepts
  None

ASSUME LMacAssumption ==
  /\ Scanners \subseteq Interfaces /\ Connectors \subseteq Interfaces
  /\ ValidChannels \subseteq Channels /\ ValidChannels # {}
  /\ None \notin Interfaces /\ None \notin Channels

VARIABLES
  \* ChannelState
  locks,           \* the interfaces in the lock array; {} when it is None ...
  home,            \* ... and the locked channel
  op_interface,    \* off_channel_operation_interface
  channel,         \* the channel the radio is tuned to
  scanning,        \* the interfaces in scanning mode
  \* OffChannelRequester, one per interface
  status,          \* OffChannelRequestState
  response_waker,  \* the interface whose task is registered
  completed,       \* was off_channel_completion_signal ever sent?
  \* the control task of an interface
  up,              \* where it is in bringing the interface up
  listening,       \* the interfaces whose requests are being answered
  awaited,         \* the operations it found running when it began to wait (history)
  task             \* the control task's attempt at an off channel operation

lockVars == <<locks, home>>
requestVars == <<status, response_waker>>
controlVars == <<up, listening, awaited>>
vars == <<locks, home, op_interface, channel, scanning, status, response_waker,
          completed, up, listening, awaited, task>>

RequestStates == {"NotRequested", "Requested", "Granted", "Rejected"}
ControlStates == {"Down", "Waiting", "Bringup", "Up"}
TaskStates == {"Idle", "WaitCompletion", "Requesting", "Operating"}

(* An attempt at an off channel operation: where it is, whose answers      *)
(* join_array still waits for, whether one was a rejection, whether it is  *)
(* scheduled, previously_locked_channel of its operation and, as history,  *)
(* whom it asked and who granted since.                                    *)
IdleTask == [at |-> "Idle", pend |-> {}, refused |-> FALSE, woken |-> FALSE,
             prev |-> None, asked |-> {}, consent |-> {}]

-----------------------------------------------------------------------------
(* ChannelState and the radio.                                             *)

(* Mutant: the channel is not validated.                                   *)
tuned_Unchecked(c) == c

(* ChannelController::set_channel leaves the radio where it is when the    *)
(* channel is invalid.                                                     *)
tuned(c) == IF c \in ValidChannels THEN c ELSE channel

off_channel_operation_in_progress == op_interface # None

(* Mutant: only the number of interfaces with the lock counts, and not     *)
(* whether this one has it already.                                        *)
changes_channel_Counted(i) == \A j, k \in locks : j = k

(* lock_channel tunes the radio if the lock was free or is i's alone.      *)
changes_channel(i) == locks = {} \/ locks = {i}

(* lock_channel fails if another interface holds a different channel.      *)
locked_by_other(i, c) == ~changes_channel(i) /\ c # home

(* ChannelState::lock_channel unless it fails with                         *)
(* ChannelLockedByOtherInterface.  With an invalid channel it fails after  *)
(* it has changed the lock.                                                *)
lock_channel(i, c) ==
  /\ ~locked_by_other(i, c)
  /\ locks' = locks \cup {i}
  /\ home' = c
  /\ channel' = IF changes_channel(i) THEN tuned(c) ELSE channel

(* What lock_channel_internal returns when lock_channel does not fail: the *)
(* error of set_channel is passed on by the question mark, before the      *)
(* unlock that the second set_channel is followed by.                      *)
lock_succeeds(i, c) == changes_channel(i) => c \in ValidChannels

(* ChannelState::unlock_channel.                                           *)
unlock_channel(i) ==
  /\ locks' = locks \ {i}
  /\ home' = IF locks \subseteq {i} THEN None ELSE home

-----------------------------------------------------------------------------
(* The control task: the lock.                                             *)

Running == {j \in Interfaces : task[j].at = "Operating"}

(* begin_interface_bringup_operation, and the first poll of                *)
(* wait_for_off_channel_completion, which asks the Watch for its value:    *)
(* it has one for good once any operation has ever completed.              *)
begin_bringup(i, c) ==
  /\ up[i] \in {"Down", "Up"} /\ task[i].at = "Idle"
  /\ lock_channel(i, c)
  /\ IF lock_succeeds(i, c)
     THEN /\ up' = [up EXCEPT ![i] =
                      IF off_channel_operation_in_progress /\ ~completed
                      THEN "Waiting" ELSE "Bringup"]
          /\ awaited' = [awaited EXCEPT ![i] =
                           IF off_channel_operation_in_progress THEN Running ELSE {}]
     ELSE UNCHANGED <<up, awaited>>
  /\ UNCHANGED <<listening, op_interface, scanning, requestVars, completed, task>>

(* wait_for_off_channel_completion resumes.                                *)
completion_received(i) ==
  /\ up[i] = "Waiting" /\ completed
  /\ up' = [up EXCEPT ![i] = "Bringup"]
  /\ UNCHANGED <<lockVars, op_interface, channel, scanning, requestVars, completed,
                 listening, awaited, task>>

(* InterfaceBringupOperation::complete: the lock stays, and the runner of  *)
(* the interface starts to answer requests.                                *)
complete_bringup(i) ==
  /\ up[i] = "Bringup"
  /\ up' = [up EXCEPT ![i] = "Up"]
  /\ listening' = listening \cup {i}
  /\ awaited' = [awaited EXCEPT ![i] = {}]
  /\ UNCHANGED <<lockVars, op_interface, channel, scanning, requestVars, completed,
                 task>>

(* Mutant: the bringup operation is dropped without its Drop.              *)
drop_bringup_Leak(i) ==
  /\ up[i] \in {"Waiting", "Bringup"}
  /\ up' = [up EXCEPT ![i] = "Down"]
  /\ awaited' = [awaited EXCEPT ![i] = {}]
  /\ UNCHANGED <<lockVars, op_interface, channel, scanning, requestVars, completed,
                 listening, task>>

(* InterfaceBringupOperation is dropped: the bringup failed or was         *)
(* cancelled.                                                              *)
drop_bringup(i) ==
  /\ up[i] \in {"Waiting", "Bringup"}
  /\ unlock_channel(i)
  /\ up' = [up EXCEPT ![i] = "Down"]
  /\ awaited' = [awaited EXCEPT ![i] = {}]
  /\ UNCHANGED <<op_interface, channel, scanning, requestVars, completed, listening,
                 task>>

(* LMacInterfaceControl::unlock_channel, called by the control task to end *)
(* a connection or session or to reset the interface, and by the runner    *)
(* when it loses the connection, then possibly during the next bringup.    *)
bring_down(i) ==
  /\ up[i] \in {"Down", "Up"} \/ i \in listening
  /\ unlock_channel(i)
  /\ up' = [up EXCEPT ![i] = IF @ = "Up" THEN "Down" ELSE @]
  /\ listening' = listening \ {i}
  /\ UNCHANGED <<op_interface, channel, scanning, requestVars, completed, awaited,
                 task>>

-----------------------------------------------------------------------------
(* The runner: OffChannelRequest.                                          *)

(* Mutant: the answer wakes nobody.                                        *)
wake_Lost(i, tasks) == tasks

(* response_waker.wake(): it schedules the task registered last, which may *)
(* have stopped waiting since.                                             *)
wake(i, tasks) ==
  [j \in Interfaces |->
     IF j = response_waker[i] /\ tasks[j].at = "Requesting"
     THEN [tasks[j] EXCEPT !.woken = TRUE] ELSE tasks[j]]

(* OffChannelRequest::grant.                                               *)
grant(i) ==
  /\ i \in listening /\ status[i] = "Requested"
  /\ status' = [status EXCEPT ![i] = "Granted"]
  /\ task' = wake(i, [j \in Interfaces |->
                        IF i \in task[j].pend
                        THEN [task[j] EXCEPT !.consent = @ \cup {i}] ELSE task[j]])
  /\ UNCHANGED <<lockVars, op_interface, channel, scanning, response_waker, completed,
                 controlVars>>

(* OffChannelRequest::reject: the request is dropped.                      *)
reject(i) ==
  /\ i \in listening /\ status[i] = "Requested"
  /\ status' = [status EXCEPT ![i] = "Rejected"]
  /\ task' = wake(i, task)
  /\ UNCHANGED <<lockVars, op_interface, channel, scanning, response_waker, completed,
                 controlVars>>

-----------------------------------------------------------------------------
(* The control task: off channel operations.                               *)

(* The request futures of join_array are polled for the first time: each   *)
(* marks its interface as requested and registers the task.                *)
request(j) ==
  /\ status' = [h \in Interfaces |-> IF h \in locks THEN "Requested" ELSE status[h]]
  /\ response_waker' = [h \in Interfaces |->
                          IF h \in locks THEN j ELSE response_waker[h]]
  /\ task' = [task EXCEPT ![j] = [IdleTask EXCEPT !.at = "Requesting", !.pend = locks,
                                                 !.asked = locks]]
  /\ UNCHANGED op_interface

(* The end of try_begin_interface_off_channel_operation for task record r. *)
start_operation(j, r) ==
  /\ op_interface' = j
  /\ task' = [task EXCEPT ![j] = [r EXCEPT !.at = "Operating", !.woken = FALSE,
                                          !.prev = home]]

(* try_begin_interface_off_channel_operation up to its await: it reads the *)
(* lock once, and with no lock there is nobody to ask.                     *)
try_begin(j) ==
  /\ ~off_channel_operation_in_progress
  /\ IF locks = {}
     THEN start_operation(j, IdleTask) /\ UNCHANGED requestVars
     ELSE request(j)
  /\ UNCHANGED <<lockVars, channel, scanning, completed, controlVars>>

(* begin_interface_off_channel_operation.  When an operation is running it *)
(* waits for the completion signal if that was never sent; otherwise it    *)
(* fails at once with OffChannelOperationAlreadyInProgress.                *)
begin_operation(j) ==
  /\ task[j].at = "Idle" /\ up[j] \in {"Down", "Up"}
  /\ \/ try_begin(j)
     \/ /\ off_channel_operation_in_progress /\ ~completed
        /\ task' = [task EXCEPT ![j].at = "WaitCompletion"]
        /\ UNCHANGED <<lockVars, op_interface, channel, scanning, requestVars,
                       completed, controlVars>>

(* The completion signal arrives.  If yet another operation has begun      *)
(* meanwhile, try_begin fails.                                             *)
resume_operation(j) ==
  /\ task[j].at = "WaitCompletion" /\ completed
  /\ \/ try_begin(j)
     \/ /\ off_channel_operation_in_progress
        /\ task' = [task EXCEPT ![j] = IdleTask]
        /\ UNCHANGED <<lockVars, op_interface, channel, scanning, requestVars,
                       completed, controlVars>>

(* Mutant: join_array ends with the first answer.                          *)
unanswered_FirstOnly(j) ==
  IF \E h \in task[j].pend : status[h] \in {"Granted", "Rejected"}
  THEN {} ELSE task[j].pend

unanswered(j) == {h \in task[j].pend : status[h] \notin {"Granted", "Rejected"}}

(* A poll of join_array: it collects the answers, registers for the others *)
(* and ends when there are none.  A rejection is not reset, and any one    *)
(* makes the operation fail.                                               *)
poll_requests(j) ==
  LET answered == task[j].pend \ unanswered(j)
      r == [task[j] EXCEPT !.pend = unanswered(j), !.woken = FALSE,
              !.refused = @ \/ \E h \in answered : status[h] = "Rejected"]
  IN
  /\ task[j].at = "Requesting"
  /\ status' = [h \in Interfaces |->
                  IF h \in answered /\ status[h] = "Granted" THEN "NotRequested"
                  ELSE status[h]]
  /\ response_waker' = [h \in Interfaces |->
                          IF h \in r.pend THEN j ELSE response_waker[h]]
  /\ IF r.pend = {} /\ ~r.refused
     THEN start_operation(j, r)
     ELSE /\ task' = [task EXCEPT ![j] = IF r.pend = {} THEN IdleTask ELSE r]
          /\ UNCHANGED op_interface
  /\ UNCHANGED <<lockVars, channel, scanning, completed, controlVars>>

(* Mutant: the radio is sent back to the channel locked at the start.      *)
home_channel_Stale(j) == task[j].prev

(* Where the drop of an OffChannelOperation sends the radio.               *)
home_channel(j) == IF home # None THEN home ELSE task[j].prev

(* Drop of an OffChannelOperation.                                         *)
end_operation(j) ==
  /\ channel' = IF home_channel(j) # None THEN tuned(home_channel(j)) ELSE channel
  /\ scanning' = scanning \ {j}
  /\ op_interface' = None
  /\ completed' = TRUE
  /\ task' = [task EXCEPT ![j] = IdleTask]
  /\ awaited' = [i \in Interfaces |-> awaited[i] \ {j}]

(* The scan turns scanning mode on and visits a channel; an invalid one    *)
(* ends the scan with an error, which drops the operation.                 *)
scan_channel(j, c) ==
  /\ task[j].at = "Operating"
  /\ IF c \in ValidChannels
     THEN /\ channel' = c
          /\ scanning' = scanning \cup {j}
          /\ UNCHANGED <<op_interface, completed, task, awaited>>
     ELSE end_operation(j)
  /\ UNCHANGED <<lockVars, requestVars, up, listening>>

(* The scan is finished or its future dropped.                             *)
drop_operation(j) ==
  /\ task[j].at = "Operating"
  /\ end_operation(j)
  /\ UNCHANGED <<lockVars, requestVars, up, listening>>

(* The future is dropped while it waits: its requests stay requested.      *)
cancel_begin(j) ==
  /\ task[j].at \in {"WaitCompletion", "Requesting"}
  /\ task' = [task EXCEPT ![j] = IdleTask]
  /\ UNCHANGED <<lockVars, op_interface, channel, scanning, requestVars, completed,
                 controlVars>>

-----------------------------------------------------------------------------
(* The specification.                                                      *)

(* SharedLMacState::new.                                                   *)
Init ==
  /\ locks = {} /\ home = None /\ op_interface = None
  /\ channel \in ValidChannels
  /\ scanning = {}
  /\ status = [i \in Interfaces |-> "NotRequested"]
  /\ response_waker = [i \in Interfaces |-> None]
  /\ completed = FALSE
  /\ up = [i \in Interfaces |-> "Down"] /\ listening = {}
  /\ awaited = [i \in Interfaces |-> {}]
  /\ task = [i \in Interfaces |-> IdleTask]

Next ==
  \/ \E i \in Connectors :
       \/ \E c \in Channels : begin_bringup(i, c)
       \/ completion_received(i) \/ complete_bringup(i)
       \/ drop_bringup(i) \/ bring_down(i)
       \/ grant(i) \/ reject(i)
  \/ \E j \in Scanners :
       \/ begin_operation(j) \/ resume_operation(j) \/ poll_requests(j)
       \/ \E c \in Channels : scan_channel(j, c)
       \/ drop_operation(j) \/ cancel_begin(j)

Spec == Init /\ [][Next]_vars

(* The executor polls a task that was woken, and a runner answers the      *)
(* requests it is polled for.                                              *)
Fairness ==
  /\ \A i \in Connectors : WF_vars(grant(i) \/ reject(i))
  /\ \A j \in Scanners : WF_vars(task[j].woken /\ poll_requests(j))

FairSpec == Spec /\ Fairness

-----------------------------------------------------------------------------
(* Properties.                                                             *)

TaskRecords ==
  [at : TaskStates, pend : SUBSET Interfaces, refused : BOOLEAN, woken : BOOLEAN,
   prev : Channels \cup {None}, asked : SUBSET Interfaces,
   consent : SUBSET Interfaces]

(* The shared state has its types: in particular the radio is only ever on *)
(* a channel that set_channel accepts.                                     *)
TypeOK ==
  /\ locks \in SUBSET Interfaces
  /\ home \in Channels \cup {None}
  /\ op_interface \in Interfaces \cup {None}
  /\ channel \in ValidChannels
  /\ scanning \in SUBSET Interfaces
  /\ status \in [Interfaces -> RequestStates]
  /\ response_waker \in [Interfaces -> Interfaces \cup {None}]
  /\ completed \in BOOLEAN
  /\ up \in [Interfaces -> ControlStates]
  /\ listening \in SUBSET Interfaces
  /\ awaited \in [Interfaces -> SUBSET Interfaces]
  /\ task \in [Interfaces -> TaskRecords]

(* Whenever nobody is off channel, the radio is on the locked channel, for *)
(* every order in which locks change and operations begin, end and are     *)
(* cancelled.  A lock on an invalid channel is the one exception:          *)
(* lock_channel leaves it behind when set_channel fails.                   *)
RadioOnHomeChannel ==
  Running = {} /\ home \in ValidChannels => channel = home

(* The lock is None exactly when nobody holds it, so that the last unlock  *)
(* frees the channel for an interface that wants another one.              *)
LockIsReleased == locks = {} <=> home = None

(* A lock is held by an interface that is neither up nor being brought up  *)
(* only if its channel is invalid: every failed or cancelled bringup       *)
(* releases the lock, except a lock_channel that fails in set_channel.     *)
OnlyInvalidLocksLeak ==
  \A i \in locks : up[i] = "Down" => home \notin ValidChannels

(* An operation runs only with the consent of every interface it asked,    *)
(* given after it asked: no grant left over from a cancelled request, and  *)
(* no grant made to another interface, is taken for it.                    *)
OperationsHaveConsent ==
  \A j \in Running : task[j].asked \subseteq task[j].consent

(* As long as an interface keeps the lock nobody else moves it to another  *)
(* channel: the channel changes only if that interface has the lock alone, *)
(* before and after (module documentation of lmac).                        *)
SharedChannelIsFixed ==
  [][\A i \in locks \cap locks' : home' = home \/ (locks = {i} /\ locks' = {i})]_vars

(* An attempt to begin an operation ends, with a grant, a rejection or an  *)
(* error: the answer reaches the task that waits for it.  The runners of   *)
(* the interfaces it asked have to be there to answer, and nobody else may *)
(* ask one of them meanwhile: a second requester takes over the waker, or  *)
(* the answer.                                                             *)
BeginReturns(j) ==
  [](/\ task[j].at = "Requesting"
     /\ [](\A h \in task[j].pend : /\ h \in listening /\ response_waker[h] = j
                                   /\ status[h] # "NotRequested")
     => <>(task[j].at \in {"Idle", "Operating"}))

-----------------------------------------------------------------------------
(* What the documentation says, and the code does not do.                  *)

(* "Begin an interface off channel operation and wait for any previous off *)
(* channel operations to complete."                                        *)
OneOperationAtATime == \A j, k \in Running : j = k

(* "Wait for any pending off channel operations to complete.": when the    *)
(* wait is over, no operation that it was to wait for is still running.    *)
WaitMeansComplete ==
  \A i \in Interfaces : up[i] = "Bringup" => awaited[i] = {}

(* "If that setup fails or the future is cancelled, the channel should be  *)
(* unlocked again."                                                        *)
FailedBringupUnlocks == \A i \in locks : up[i] # "Down"

(* "This will request grants from all interfaces, that currently have lock *)
(* on the channel.": the interfaces that hold the lock when an operation   *)
(* starts were asked.                                                      *)
AllHoldersAreAsked ==
  [][\A j \in Interfaces :
       task[j].at # "Operating" /\ task'[j].at = "Operating"
         => locks \subseteq task'[j].asked]_vars
=============================================================================
