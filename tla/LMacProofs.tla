----------------------------- MODULE LMacProofs -----------------------------
(***************************************************************************)
(* Proofs about LMac for every set of interfaces, every division of roles  *)
(* among them and every set of channels.                                   *)
(***************************************************************************)
EXTENDS LMac, TLAPS

(* The provers of a leaf that names none, with time for a slow machine.    *)
USE SMTT(30), ZenonT(30), SMTT(60)

-----------------------------------------------------------------------------
(* Types.                                                                  *)

(* A task record may change where its attempt is. *)
LEMMA AtType ==
  ASSUME NEW r \in TaskRecords, NEW a \in TaskStates
  PROVE  [r EXCEPT !.at = a] \in TaskRecords
BY DEF TaskRecords

(* Changing the record of one task keeps the type of all.                  *)
LEMMA TaskType ==
  ASSUME task \in [Interfaces -> TaskRecords], NEW j \in Interfaces,
         NEW r \in TaskRecords
  PROVE  [task EXCEPT ![j] = r] \in [Interfaces -> TaskRecords]
OBVIOUS

(* The state a task returns to when its operation ends is a task record.   *)
LEMMA IdleType == IdleTask \in TaskRecords
  BY DEF IdleTask, TaskRecords, TaskStates

(* Waking a task keeps the types of all.                                   *)
LEMMA WakeType ==
  ASSUME NEW tasks \in [Interfaces -> TaskRecords], NEW i \in Interfaces
  PROVE  wake(i, tasks) \in [Interfaces -> TaskRecords]
<1>1. ASSUME NEW r \in TaskRecords PROVE [r EXCEPT !.woken = TRUE] \in TaskRecords
  BY <1>1, ZenonT(30) DEF TaskRecords
<1> QED
  BY <1>1 DEF wake

(* try_begin keeps the types.                                              *)
LEMMA TryBeginType ==
  ASSUME TypeOK, NEW j \in Interfaces, try_begin(j)
  PROVE  TypeOK'
<1>1. UNCHANGED <<locks, home, channel, scanning, completed, up, listening, awaited>>
  BY DEF try_begin, lockVars, controlVars
<1>2. CASE locks = {}
  <2>1. [IdleTask EXCEPT !.at = "Operating", !.woken = FALSE, !.prev = home]
          \in TaskRecords
    BY ZenonT(30) DEF TypeOK, IdleTask, TaskRecords, TaskStates
  <2>2. /\ op_interface' = j /\ UNCHANGED <<status, response_waker>>
        /\ task' = [task EXCEPT ![j] = [IdleTask EXCEPT !.at = "Operating",
                                          !.woken = FALSE, !.prev = home]]
    BY <1>2 DEF try_begin, start_operation, requestVars
  <2> QED
    BY <1>1, <2>1, <2>2 DEF TypeOK
<1>3. CASE locks # {}
  <2>1. [IdleTask EXCEPT !.at = "Requesting", !.pend = locks, !.asked = locks]
          \in TaskRecords
    BY ZenonT(30) DEF TypeOK, IdleTask, TaskRecords, TaskStates
  <2>2. request(j)
    BY <1>3 DEF try_begin
  <2>3. task' \in [Interfaces -> TaskRecords] /\ op_interface' = op_interface
    BY <2>1, <2>2 DEF TypeOK, request
  <2>4. status' \in [Interfaces -> RequestStates]
    BY <2>2 DEF TypeOK, request, RequestStates
  <2>5. response_waker' \in [Interfaces -> Interfaces \cup {None}]
    BY <2>2 DEF TypeOK, request
  <2> QED
    BY <1>1, <2>3, <2>4, <2>5 DEF TypeOK
<1> QED
  BY <1>2, <1>3

(* The end of an operation keeps the types.                                *)
LEMMA EndOperationType ==
  ASSUME TypeOK, NEW j \in Interfaces, end_operation(j),
         UNCHANGED <<lockVars, requestVars, up, listening>>
  PROVE  TypeOK'
<1>1. channel' \in ValidChannels
  BY DEF end_operation, tuned, TypeOK
<1>2. task' \in [Interfaces -> TaskRecords]
  BY IdleType DEF end_operation, TypeOK
<1>3. awaited' \in [Interfaces -> SUBSET Interfaces]
  BY DEF end_operation, TypeOK
<1> QED
  BY <1>1, <1>2, <1>3 DEF TypeOK, end_operation, lockVars, requestVars

(* A poll of the requests keeps the types.                                 *)
LEMMA PollType ==
  ASSUME TypeOK, NEW j \in Interfaces, poll_requests(j)
  PROVE  TypeOK'
<1> DEFINE answered == task[j].pend \ unanswered(j)
           denied == task[j].refused \/ \E h \in answered : status[h] = "Rejected"
           r == [task[j] EXCEPT !.pend = unanswered(j), !.woken = FALSE,
                   !.refused = denied]
<1>1. task[j] \in TaskRecords /\ unanswered(j) \in SUBSET Interfaces
      /\ denied \in BOOLEAN
  BY DEF TypeOK, unanswered, TaskRecords
<1>2. r \in TaskRecords
  <2> HIDE DEF denied
  <2> QED
    BY <1>1, ZenonT(30) DEF TaskRecords
<1>3. [r EXCEPT !.at = "Operating", !.woken = FALSE, !.prev = home] \in TaskRecords
  <2> HIDE DEF r
  <2> QED
    BY <1>2, ZenonT(30) DEF TypeOK, TaskRecords, TaskStates
<1>4. \/ /\ task' = [task EXCEPT ![j] = [r EXCEPT !.at = "Operating", !.woken = FALSE,
                                              !.prev = home]]
         /\ op_interface' = j
      \/ /\ task' = [task EXCEPT ![j] = r]
         /\ op_interface' = op_interface
      \/ /\ task' = [task EXCEPT ![j] = IdleTask]
         /\ op_interface' = op_interface
  BY DEF poll_requests, start_operation
<1> HIDE DEF r
<1>5. task' \in [Interfaces -> TaskRecords] /\ op_interface' \in Interfaces \cup {None}
  BY <1>2, <1>3, <1>4, IdleType, TaskType DEF TypeOK
<1>6. status' \in [Interfaces -> RequestStates]
  BY DEF TypeOK, poll_requests, RequestStates
<1>7. response_waker' \in [Interfaces -> Interfaces \cup {None}]
  BY DEF TypeOK, poll_requests
<1> QED
  BY <1>5, <1>6, <1>7 DEF TypeOK, poll_requests, lockVars, controlVars

(* Every action keeps the types.                                           *)
LEMMA TypeNext ==
  ASSUME TypeOK, Next
  PROVE  TypeOK'
<1> USE LMacAssumption
<1>1. ASSUME NEW i \in Interfaces, NEW c \in Channels, begin_bringup(i, c)
      PROVE  TypeOK'
  <2>1. /\ locks' \in SUBSET Interfaces /\ home' \in Channels \cup {None}
        /\ channel' \in ValidChannels
    BY <1>1 DEF begin_bringup, lock_channel, tuned, TypeOK
  <2>2. up' \in [Interfaces -> ControlStates]
    BY <1>1 DEF begin_bringup, TypeOK, ControlStates
  <2>3. awaited' \in [Interfaces -> SUBSET Interfaces]
    <3>1. Running \in SUBSET Interfaces
      BY DEF Running
    <3> QED
      BY <1>1, <3>1 DEF begin_bringup, TypeOK
  <2> QED
    BY <1>1, <2>1, <2>2, <2>3 DEF begin_bringup, TypeOK, requestVars
<1>2. ASSUME NEW i \in Interfaces, completion_received(i) PROVE TypeOK'
  BY <1>2 DEF completion_received, TypeOK, ControlStates, lockVars, requestVars
<1>3. ASSUME NEW i \in Interfaces, complete_bringup(i) PROVE TypeOK'
  BY <1>3 DEF complete_bringup, TypeOK, ControlStates, lockVars, requestVars
<1>4. ASSUME NEW i \in Interfaces, drop_bringup(i) PROVE TypeOK'
  BY <1>4 DEF drop_bringup, unlock_channel, TypeOK, ControlStates, requestVars
<1>5. ASSUME NEW i \in Interfaces, bring_down(i) PROVE TypeOK'
  BY <1>5 DEF bring_down, unlock_channel, TypeOK, ControlStates, requestVars
<1>6. ASSUME NEW i \in Interfaces, grant(i) PROVE TypeOK'
  <2> DEFINE tasks == [j \in Interfaces |->
                         IF i \in task[j].pend
                         THEN [task[j] EXCEPT !.consent = @ \cup {i}] ELSE task[j]]
  <2>1. tasks \in [Interfaces -> TaskRecords]
    <3>1. ASSUME NEW r \in TaskRecords
          PROVE  [r EXCEPT !.consent = @ \cup {i}] \in TaskRecords
      BY <3>1 DEF TaskRecords
    <3>2. \A j \in Interfaces :
            (IF i \in task[j].pend THEN [task[j] EXCEPT !.consent = @ \cup {i}]
                                  ELSE task[j]) \in TaskRecords
      BY <3>1, Zenon DEF TypeOK
    <3> QED
      BY <3>2, Zenon
  <2>2. task' \in [Interfaces -> TaskRecords]
    <3>1. task' = wake(i, tasks)
      BY <1>6 DEF grant
    <3> HIDE DEF tasks
    <3> QED
      BY <2>1, <3>1, WakeType
  <2>3. status' \in [Interfaces -> RequestStates]
    BY <1>6 DEF grant, TypeOK, RequestStates
  <2> QED
    BY <1>6, <2>2, <2>3 DEF grant, TypeOK, lockVars, controlVars
<1>7. ASSUME NEW i \in Interfaces, reject(i) PROVE TypeOK'
  <2>1. task' \in [Interfaces -> TaskRecords]
    BY <1>7, WakeType DEF reject, TypeOK
  <2>2. status' \in [Interfaces -> RequestStates]
    BY <1>7 DEF reject, TypeOK, RequestStates
  <2> QED
    BY <1>7, <2>1, <2>2 DEF reject, TypeOK, lockVars, controlVars
<1>8. ASSUME NEW j \in Interfaces, begin_operation(j) PROVE TypeOK'
  <2>1. CASE try_begin(j)
    BY <2>1, TryBeginType
  <2>2. CASE ~try_begin(j)
    <3>1. /\ task' = [task EXCEPT ![j].at = "WaitCompletion"]
          /\ UNCHANGED <<lockVars, op_interface, channel, scanning, requestVars,
                         completed, controlVars>>
      BY <1>8, <2>2 DEF begin_operation
    <3>2. [task[j] EXCEPT !.at = "WaitCompletion"] \in TaskRecords
      BY AtType, ZenonT(30) DEF TypeOK, TaskStates
    <3>3. task' \in [Interfaces -> TaskRecords]
      BY <3>1, <3>2 DEF TypeOK
    <3> QED
      BY <3>1, <3>3 DEF TypeOK, lockVars, requestVars, controlVars
  <2> QED
    BY <2>1, <2>2
<1>9. ASSUME NEW j \in Interfaces, resume_operation(j) PROVE TypeOK'
  <2>1. CASE try_begin(j)
    BY <2>1, TryBeginType
  <2>2. CASE ~try_begin(j)
    <3>1. /\ task' = [task EXCEPT ![j] = IdleTask]
          /\ UNCHANGED <<lockVars, op_interface, channel, scanning, requestVars,
                         completed, controlVars>>
      BY <1>9, <2>2, ZenonT(30) DEF resume_operation
    <3> QED
      BY <3>1, IdleType, TaskType DEF TypeOK, lockVars, requestVars, controlVars
  <2> QED
    BY <2>1, <2>2
<1>10. ASSUME NEW j \in Interfaces, poll_requests(j) PROVE TypeOK'
  BY <1>10, PollType
<1>11. ASSUME NEW j \in Interfaces, NEW c \in Channels, scan_channel(j, c)
       PROVE  TypeOK'
  <2>1. CASE c \in ValidChannels
    BY <1>11, <2>1 DEF scan_channel, TypeOK, lockVars, requestVars
  <2>2. CASE c \notin ValidChannels
    BY <1>11, <2>2, EndOperationType DEF scan_channel
  <2> QED
    BY <2>1, <2>2
<1>12. ASSUME NEW j \in Interfaces, drop_operation(j) PROVE TypeOK'
  BY <1>12, EndOperationType DEF drop_operation
<1>13. ASSUME NEW j \in Interfaces, cancel_begin(j) PROVE TypeOK'
  BY <1>13, IdleType, TaskType
     DEF cancel_begin, TypeOK, lockVars, requestVars, controlVars
<1> QED
  BY <1>1, <1>2, <1>3, <1>4, <1>5, <1>6, <1>7, <1>8, <1>9, <1>10, <1>11, <1>12,
     <1>13 DEF Next

(* SharedLMacState::new has the types.                                     *)
LEMMA TypeInit ==
  ASSUME Init
  PROVE  TypeOK
<1>1. task \in [Interfaces -> TaskRecords]
  BY IdleType DEF Init
<1> QED
  BY <1>1, LMacAssumption, ZenonT(30) DEF Init, TypeOK, RequestStates, ControlStates

(* A step that changes nothing keeps the types.                            *)
LEMMA TypeStutter ==
  ASSUME TypeOK, UNCHANGED vars
  PROVE  TypeOK'
BY DEF TypeOK, vars

(* Type correctness; in particular the radio is always tuned to a channel  *)
(* it accepts, since set_channel fails without effect on the others.       *)
THEOREM TypeCorrect == Spec => []TypeOK
<1>1. TypeOK /\ [Next]_vars => TypeOK'
  BY TypeNext, TypeStutter
<1> QED
  BY <1>1, TypeInit, PTL DEF Spec

-----------------------------------------------------------------------------
(* The channel lock.                                                       *)

(* What a step can do to the lock: an interface takes it, releases it, or  *)
(* it stays.                                                               *)
LEMMA LockSteps ==
  ASSUME Next
  PROVE  \/ \E i \in Interfaces, c \in Channels : begin_bringup(i, c)
         \/ \E i \in Interfaces : unlock_channel(i) /\ (drop_bringup(i) \/ bring_down(i))
         \/ UNCHANGED <<locks, home>>
<1> USE LMacAssumption
<1>1. ASSUME NEW j \in Interfaces, try_begin(j) PROVE UNCHANGED <<locks, home>>
  BY <1>1 DEF try_begin, lockVars
<1> QED
  BY <1>1, Zenon DEF Next, completion_received, complete_bringup, drop_bringup,
     bring_down, grant, reject, begin_operation, resume_operation, poll_requests,
     scan_channel, drop_operation, cancel_begin, lockVars

(* The lock is None exactly when nobody holds it.                          *)
THEOREM LockReleased == Spec => []LockIsReleased
<1>1. Init => LockIsReleased
  BY DEF Init, LockIsReleased
<1>2. LockIsReleased /\ [Next]_vars => LockIsReleased'
  <2> SUFFICES ASSUME LockIsReleased, [Next]_vars PROVE LockIsReleased'
    OBVIOUS
  <2>1. ASSUME NEW i \in Interfaces, NEW c \in Channels, begin_bringup(i, c)
        PROVE  LockIsReleased'
    BY <2>1, LMacAssumption DEF begin_bringup, lock_channel, LockIsReleased
  <2>2. ASSUME NEW i \in Interfaces, unlock_channel(i) PROVE LockIsReleased'
    BY <2>2 DEF unlock_channel, LockIsReleased
  <2>3. CASE UNCHANGED <<locks, home>>
    BY <2>3 DEF LockIsReleased
  <2> QED
    BY <2>1, <2>2, <2>3, LockSteps DEF vars
<1> QED
  BY <1>1, <1>2, PTL DEF Spec

(* Nobody moves the channel of an interface that keeps its lock.           *)
THEOREM ChannelFixed == Spec => SharedChannelIsFixed
<1>1. [Next]_vars => [\A i \in locks \cap locks' : home' = home \/ (locks = {i} /\ locks' = {i})]_vars
  <2> SUFFICES ASSUME Next, NEW k \in locks \cap locks', home' # home
               PROVE  locks = {k} /\ locks' = {k}
    BY DEF vars
  <2>1. ASSUME NEW i \in Interfaces, NEW c \in Channels, begin_bringup(i, c)
        PROVE  locks = {k} /\ locks' = {k}
    BY <2>1 DEF begin_bringup, lock_channel, locked_by_other, changes_channel
  <2>2. ASSUME NEW i \in Interfaces, unlock_channel(i) PROVE locks = {k} /\ locks' = {k}
    BY <2>2 DEF unlock_channel
  <2> QED
    BY <2>1, <2>2, LockSteps
<1> QED
  BY <1>1, PTL DEF Spec, SharedChannelIsFixed

(* What a step can do to the operations: it ends one, or every operation   *)
(* that runs goes on and the radio stays, or the radio moves during one.   *)
LEMMA OperationSteps ==
  ASSUME TypeOK, Next
  PROVE  \/ \E i \in Interfaces, c \in Channels :
              begin_bringup(i, c) /\ task' = task
         \/ \E j \in Interfaces : end_operation(j) /\ home' = home
         \/ \E j \in Running : home' = home /\ task' = task
         \/ \E i \in Interfaces :
              unlock_channel(i) /\ UNCHANGED <<channel, task>>
         \/ /\ UNCHANGED <<channel, home>>
            /\ \A k \in Running : task'[k].at = "Operating"
<1> USE LMacAssumption
<1>1. ASSUME NEW j \in Interfaces, task[j].at # "Operating",
             NEW r, task' = [task EXCEPT ![j] = r]
      PROVE  \A k \in Running : task'[k].at = "Operating"
  BY <1>1 DEF Running, TypeOK
<1>2. ASSUME NEW j \in Interfaces, try_begin(j)
      PROVE  UNCHANGED <<channel, home>> /\ \E r : task' = [task EXCEPT ![j] = r]
  BY <1>2 DEF try_begin, start_operation, request, lockVars
<1>3. ASSUME NEW j \in Interfaces, begin_operation(j)
      PROVE  /\ task[j].at # "Operating" /\ UNCHANGED <<channel, home>>
             /\ \E r : task' = [task EXCEPT ![j] = r]
  BY <1>2, <1>3 DEF begin_operation, lockVars
<1>4. ASSUME NEW j \in Interfaces, resume_operation(j)
      PROVE  /\ task[j].at # "Operating" /\ UNCHANGED <<channel, home>>
             /\ \E r : task' = [task EXCEPT ![j] = r]
  BY <1>2, <1>4, ZenonT(30) DEF resume_operation, lockVars
<1>5. ASSUME NEW j \in Interfaces, poll_requests(j)
      PROVE  /\ task[j].at # "Operating" /\ UNCHANGED <<channel, home>>
             /\ \E r : task' = [task EXCEPT ![j] = r]
  BY <1>5 DEF poll_requests, start_operation, lockVars
<1>6. ASSUME NEW j \in Interfaces, cancel_begin(j)
      PROVE  /\ task[j].at # "Operating" /\ UNCHANGED <<channel, home>>
             /\ \E r : task' = [task EXCEPT ![j] = r]
  BY <1>6, ZenonT(30) DEF cancel_begin, lockVars
<1>7. ASSUME NEW i \in Interfaces, grant(i) \/ reject(i)
      PROVE  /\ UNCHANGED <<channel, home>>
             /\ \A k \in Running : task'[k].at = "Operating"
  <2>1. \E tasks : /\ task' = wake(i, tasks)
                   /\ \A k \in Interfaces : tasks[k].at = task[k].at
    <3>1. CASE reject(i)
      BY <3>1 DEF reject
    <3>2. CASE grant(i)
      <4> DEFINE tasks == [j \in Interfaces |->
                             IF i \in task[j].pend
                             THEN [task[j] EXCEPT !.consent = @ \cup {i}] ELSE task[j]]
      <4>1. \A k \in Interfaces : tasks[k].at = task[k].at
        BY DEF TypeOK, TaskRecords
      <4>2. task' = wake(i, tasks)
        BY <3>2 DEF grant
      <4> QED
        BY <4>1, <4>2, ZenonT(30)
    <3> QED
      BY <1>7, <3>1, <3>2
  <2>2. \A k \in Running : task'[k].at = "Operating"
    BY <2>1 DEF wake, Running
  <2> QED
    BY <1>7, <2>2 DEF grant, reject, lockVars
<1>8. ASSUME NEW j \in Interfaces, NEW c \in Channels, scan_channel(j, c)
      PROVE  \/ end_operation(j) /\ home' = home
             \/ j \in Running /\ home' = home /\ task' = task
  BY <1>8 DEF scan_channel, Running, lockVars
<1>9. ASSUME NEW j \in Interfaces, drop_operation(j)
      PROVE  end_operation(j) /\ home' = home
  BY <1>9 DEF drop_operation, lockVars
<1>10. ASSUME NEW i \in Interfaces, completion_received(i) \/ complete_bringup(i)
       PROVE  /\ UNCHANGED <<channel, home>>
              /\ \A k \in Running : task'[k].at = "Operating"
  BY <1>10 DEF completion_received, complete_bringup, Running, lockVars
<1>11. ASSUME NEW i \in Interfaces, drop_bringup(i) \/ bring_down(i)
       PROVE  unlock_channel(i) /\ UNCHANGED <<channel, task>>
  BY <1>11 DEF drop_bringup, bring_down
<1>12. ASSUME NEW i \in Interfaces, NEW c \in Channels, begin_bringup(i, c)
       PROVE  task' = task
  BY <1>12 DEF begin_bringup
<1> QED
  BY <1>1, <1>3, <1>4, <1>5, <1>6, <1>7, <1>8, <1>9, <1>10, <1>11, <1>12, ZenonT(60)
     DEF Next

(* The radio is on the locked channel whenever nobody is off channel.      *)
THEOREM RadioHome == Spec => []RadioOnHomeChannel
<1>1. Init => RadioOnHomeChannel
  BY LMacAssumption DEF Init, RadioOnHomeChannel
<1>2. TypeOK /\ RadioOnHomeChannel /\ [Next]_vars => RadioOnHomeChannel'
  <2> SUFFICES ASSUME TypeOK, RadioOnHomeChannel, Next PROVE RadioOnHomeChannel'
    BY DEF vars, RadioOnHomeChannel, Running
  <2> USE LMacAssumption
  <2>1. ASSUME NEW i \in Interfaces, NEW c \in Channels, begin_bringup(i, c),
               task' = task
        PROVE  RadioOnHomeChannel'
    BY <2>1 DEF begin_bringup, lock_channel, locked_by_other, changes_channel, tuned,
                RadioOnHomeChannel, Running
  <2>2. ASSUME NEW j \in Interfaces, end_operation(j), home' = home
        PROVE  RadioOnHomeChannel'
    BY <2>2 DEF end_operation, home_channel, tuned, RadioOnHomeChannel
  <2>3. ASSUME NEW j \in Running, home' = home, task' = task
        PROVE  RadioOnHomeChannel'
    BY <2>3 DEF RadioOnHomeChannel, Running
  <2>4. ASSUME NEW i \in Interfaces, unlock_channel(i), UNCHANGED <<channel, task>>
        PROVE  RadioOnHomeChannel'
    BY <2>4 DEF unlock_channel, RadioOnHomeChannel, Running
  <2>5. ASSUME UNCHANGED <<channel, home>>,
               \A k \in Running : task'[k].at = "Operating"
        PROVE  RadioOnHomeChannel'
    BY <2>5 DEF RadioOnHomeChannel, Running
  <2> QED
    BY <2>1, <2>2, <2>3, <2>4, <2>5, OperationSteps, Zenon
<1> QED
  BY <1>1, <1>2, TypeCorrect, PTL DEF Spec

-----------------------------------------------------------------------------
(* Who holds the lock.                                                     *)

(* Only a lock on an invalid channel outlives its bringup: what            *)
(* lock_channel leaves behind when set_channel fails.                      *)
THEOREM ValidLocksDoNotLeak == Spec => []OnlyInvalidLocksLeak
<1>1. Init => OnlyInvalidLocksLeak
  BY DEF Init, OnlyInvalidLocksLeak
<1>2. TypeOK /\ OnlyInvalidLocksLeak /\ [Next]_vars => OnlyInvalidLocksLeak'
  <2> SUFFICES ASSUME TypeOK, OnlyInvalidLocksLeak, Next PROVE OnlyInvalidLocksLeak'
    BY DEF vars, OnlyInvalidLocksLeak
  <2> USE LMacAssumption
  <2>1. ASSUME NEW i \in Interfaces, NEW c \in Channels, begin_bringup(i, c)
        PROVE  OnlyInvalidLocksLeak'
    <3>1. CASE lock_succeeds(i, c)
      <4>1. up'[i] # "Down" /\ \A k \in Interfaces \ {i} : up'[k] = up[k]
        BY <2>1, <3>1 DEF begin_bringup, TypeOK
      <4>2. CASE changes_channel(i)
        BY <2>1, <4>1, <4>2 DEF begin_bringup, lock_channel, changes_channel, TypeOK,
                                OnlyInvalidLocksLeak
      <4>3. CASE ~changes_channel(i)
        BY <2>1, <4>1, <4>3 DEF begin_bringup, lock_channel, locked_by_other, TypeOK,
                                OnlyInvalidLocksLeak
      <4> QED
        BY <4>2, <4>3
    <3>2. CASE ~lock_succeeds(i, c)
      BY <2>1, <3>2 DEF begin_bringup, lock_channel, lock_succeeds, OnlyInvalidLocksLeak
    <3> QED
      BY <3>1, <3>2
  <2>2. ASSUME NEW i \in Interfaces, unlock_channel(i),
               \A k \in Interfaces \ {i} : up'[k] = up[k]
        PROVE  OnlyInvalidLocksLeak'
    BY <2>2 DEF unlock_channel, OnlyInvalidLocksLeak, TypeOK
  <2>3. ASSUME NEW i \in Interfaces, drop_bringup(i) \/ bring_down(i)
        PROVE  OnlyInvalidLocksLeak'
    <3>1. unlock_channel(i)
      BY <2>3 DEF drop_bringup, bring_down
    <3>2. \A k \in Interfaces \ {i} : up'[k] = up[k]
      BY <2>3 DEF drop_bringup, bring_down, TypeOK
    <3> QED
      BY <3>1, <3>2, <2>2
  <2>4. ASSUME NEW i \in Interfaces, completion_received(i) \/ complete_bringup(i)
        PROVE  OnlyInvalidLocksLeak'
    BY <2>4 DEF completion_received, complete_bringup, lockVars, OnlyInvalidLocksLeak,
                TypeOK
  <2>5. ASSUME UNCHANGED <<locks, home, up>> PROVE OnlyInvalidLocksLeak'
    BY <2>5 DEF OnlyInvalidLocksLeak
  <2>6. ASSUME NEW i \in Interfaces, grant(i) \/ reject(i)
        PROVE  OnlyInvalidLocksLeak'
    BY <2>5, <2>6 DEF grant, reject, lockVars, controlVars
  <2>7. ASSUME NEW j \in Interfaces, begin_operation(j) \/ resume_operation(j)
        PROVE  OnlyInvalidLocksLeak'
    BY <2>5, <2>7 DEF begin_operation, resume_operation, try_begin, lockVars, controlVars
  <2>8. ASSUME NEW j \in Interfaces, poll_requests(j) \/ cancel_begin(j)
        PROVE  OnlyInvalidLocksLeak'
    BY <2>5, <2>8 DEF poll_requests, cancel_begin, lockVars, controlVars
  <2>9. ASSUME NEW j \in Interfaces,
               drop_operation(j) \/ \E c \in Channels : scan_channel(j, c)
        PROVE  OnlyInvalidLocksLeak'
    BY <2>5, <2>9 DEF drop_operation, scan_channel, lockVars
  <2> QED
    BY <2>1, <2>3, <2>4, <2>6, <2>7, <2>8, <2>9, ZenonT(30) DEF Next
<1> QED
  BY <1>1, <1>2, TypeCorrect, PTL DEF Spec

-----------------------------------------------------------------------------
(* Consent.                                                                *)

(* While the answers are collected: whoever was asked and need not answer  *)
(* any more has consented, unless someone refused; and a grant that waits  *)
(* to be collected was given to everyone who waits for it.                 *)
ConsentIsCollected ==
  \A j \in Interfaces : task[j].at = "Requesting" =>
    /\ task[j].refused \/ task[j].asked \ task[j].pend \subseteq task[j].consent
    /\ \A h \in task[j].pend : status[h] = "Granted" => h \in task[j].consent

ConsentInv == ConsentIsCollected /\ OperationsHaveConsent

(* The invariant as one statement about one task and the answers to it.    *)
Collected(r, st) ==
  /\ r.at = "Requesting" =>
       /\ r.refused \/ r.asked \ r.pend \subseteq r.consent
       /\ \A h \in r.pend : st[h] = "Granted" => h \in r.consent
  /\ r.at = "Operating" => r.asked \subseteq r.consent

(* The consent invariant speaks about each task by itself.                 *)
LEMMA ConsentPerTask ==
  /\ ConsentInv <=> \A j \in Interfaces : Collected(task[j], status)
  /\ ConsentInv' <=> \A j \in Interfaces : Collected(task'[j], status')
<1>1. ConsentInv <=> \A j \in Interfaces : Collected(task[j], status)
  BY Zenon DEF ConsentInv, ConsentIsCollected, OperationsHaveConsent, Running, Collected
<1>2. ConsentInv' <=> \A j \in Interfaces : Collected(task'[j], status')
  BY Zenon DEF ConsentInv, ConsentIsCollected, OperationsHaveConsent, Running, Collected
<1> QED
  BY <1>1, <1>2

(* A step that writes one task, and grants nothing, is right if it leaves  *)
(* that task right.                                                        *)
LEMMA ConsentOneTask ==
  ASSUME TypeOK, ConsentInv, NEW j \in Interfaces, NEW r,
         task' = [task EXCEPT ![j] = r],
         \A h \in Interfaces : status'[h] = "Granted" => status[h] = "Granted",
         Collected(r, status')
  PROVE  ConsentInv'
<1>1. ASSUME NEW k \in Interfaces, k # j PROVE Collected(task'[k], status')
  <2>1. task'[k] = task[k]
    BY <1>1 DEF TypeOK
  <2>2. Collected(task[k], status)
    BY ConsentPerTask
  <2>3. task[k].pend \subseteq Interfaces
    BY DEF TypeOK, TaskRecords
  <2> QED
    BY <2>1, <2>2, <2>3, Zenon DEF Collected
<1>2. task'[j] = r
  BY DEF TypeOK
<1> QED
  BY <1>1, <1>2, ConsentPerTask, Zenon

(* try_begin asks every holder of the lock and forgets older consent.      *)
LEMMA ConsentTryBegin ==
  ASSUME TypeOK, ConsentInv, NEW j \in Interfaces, try_begin(j)
  PROVE  ConsentInv'
<1>1. CASE locks = {}
  <2> DEFINE r == [IdleTask EXCEPT !.at = "Operating", !.woken = FALSE, !.prev = home]
  <2>1. task' = [task EXCEPT ![j] = r] /\ status' = status
    BY <1>1 DEF try_begin, start_operation, requestVars
  <2>2. r.at = "Operating" /\ r.asked = {}
    BY DEF IdleTask
  <2>3. Collected(r, status')
    BY <2>2 DEF Collected
  <2> QED
    BY <2>1, <2>3, ConsentOneTask, ZenonT(30)
<1>2. CASE locks # {}
  <2> DEFINE r == [IdleTask EXCEPT !.at = "Requesting", !.pend = locks, !.asked = locks]
  <2>1. /\ task' = [task EXCEPT ![j] = r]
        /\ status' = [h \in Interfaces |->
                        IF h \in locks THEN "Requested" ELSE status[h]]
    BY <1>2 DEF try_begin, request
  <2>2. r.at = "Requesting" /\ r.pend = locks /\ r.asked = locks
    BY DEF IdleTask
  <2>3. \A h \in Interfaces : status'[h] = "Granted" => status[h] = "Granted"
    BY <2>1
  <2>4. Collected(r, status')
    BY <2>1, <2>2 DEF Collected, TypeOK
  <2> QED
    BY <2>1, <2>3, <2>4, ConsentOneTask, ZenonT(30)
<1> QED
  BY <1>1, <1>2

(* Polling the requests starts the operation only when none is unanswered  *)
(* and none was refused.                                                   *)
LEMMA ConsentPoll ==
  ASSUME TypeOK, ConsentInv, NEW j \in Interfaces, poll_requests(j)
  PROVE  ConsentInv'
<1> DEFINE answered == task[j].pend \ unanswered(j)
           denied == task[j].refused \/ \E h \in answered : status[h] = "Rejected"
           r == [task[j] EXCEPT !.pend = unanswered(j), !.woken = FALSE,
                                !.refused = denied]
<1>1. /\ task[j].at = "Requesting"
      /\ status' = [h \in Interfaces |->
                      IF h \in answered /\ status[h] = "Granted" THEN "NotRequested"
                      ELSE status[h]]
      /\ IF r.pend = {} /\ ~r.refused
         THEN task' = [task EXCEPT ![j] = [r EXCEPT !.at = "Operating",
                                             !.woken = FALSE, !.prev = home]]
         ELSE task' = [task EXCEPT ![j] = IF r.pend = {} THEN IdleTask ELSE r]
  BY Zenon DEF poll_requests, start_operation
<1>2. task[j] \in TaskRecords /\ status \in [Interfaces -> RequestStates]
  BY DEF TypeOK
<1>3. /\ r.at = "Requesting" /\ r.pend = unanswered(j) /\ r.refused = denied
      /\ r.asked = task[j].asked /\ r.consent = task[j].consent
  BY <1>1, <1>2 DEF TaskRecords
<1>4. /\ task[j].refused \/ task[j].asked \ task[j].pend \subseteq task[j].consent
      /\ \A h \in task[j].pend : status[h] = "Granted" => h \in task[j].consent
  BY <1>1, Zenon DEF ConsentInv, ConsentIsCollected
<1>5. task[j].pend \subseteq Interfaces
  BY <1>2 DEF TaskRecords
<1>6. denied \/ task[j].asked \ unanswered(j) \subseteq task[j].consent
  BY <1>4, <1>5 DEF unanswered
<1>7. \A h \in Interfaces : status'[h] = "Granted" => status[h] = "Granted"
  BY <1>1
<1>8. \A h \in unanswered(j) : status'[h] # "Granted"
  BY <1>1, <1>5 DEF unanswered
<1>9. Collected(r, status')
  BY <1>3, <1>6, <1>8, ZenonT(30) DEF Collected
<1>10. CASE r.pend = {} /\ ~r.refused
  <2> DEFINE s == [r EXCEPT !.at = "Operating", !.woken = FALSE, !.prev = home]
  <2>1. s.at = "Operating" /\ s.asked = r.asked /\ s.consent = r.consent
    BY <1>2 DEF TaskRecords
  <2>2. r.asked \subseteq r.consent
    BY <1>3, <1>6, <1>10, ZenonT(30)
  <2>3. Collected(s, status')
    BY <2>1, <2>2 DEF Collected
  <2> QED
    BY <1>1, <1>10, <1>7, <2>3, ConsentOneTask
<1>11. CASE ~(r.pend = {} /\ ~r.refused)
  <2> DEFINE s == IF r.pend = {} THEN IdleTask ELSE r
  <2>1. Collected(IdleTask, status')
    BY DEF Collected, IdleTask
  <2>2. Collected(s, status')
    BY <2>1, <1>9
  <2> QED
    BY <1>1, <1>11, <1>7, <2>2, ConsentOneTask
<1> QED
  BY <1>10, <1>11

(* A grant or a rejection of one interface leaves the other answers alone. *)
LEMMA ConsentAnswer ==
  ASSUME TypeOK, ConsentInv, NEW i \in Interfaces, grant(i) \/ reject(i)
  PROVE  ConsentInv'
<1> DEFINE given(k) == IF i \in task[k].pend
                       THEN [task[k] EXCEPT !.consent = @ \cup {i}] ELSE task[k]
<1>1. ASSUME NEW t \in TaskRecords, NEW st, Collected(t, st)
      PROVE  Collected([t EXCEPT !.woken = TRUE], st)
  BY <1>1 DEF Collected, TaskRecords
<1>2. ASSUME NEW k \in Interfaces PROVE task[k] \in TaskRecords /\ Collected(task[k], status)
  BY ConsentPerTask DEF TypeOK
<1>3. CASE reject(i)
  <2>1. /\ status' = [status EXCEPT ![i] = "Rejected"]
        /\ \A k \in Interfaces :
             task'[k] = task[k] \/ task'[k] = [task[k] EXCEPT !.woken = TRUE]
    BY <1>3 DEF reject, wake
  <2>2. ASSUME NEW k \in Interfaces PROVE Collected(task[k], status')
    BY <1>2, <2>1 DEF Collected, TypeOK, TaskRecords
  <2>3. ASSUME NEW k \in Interfaces PROVE Collected(task'[k], status')
    <3>1. Collected([task[k] EXCEPT !.woken = TRUE], status')
      BY <1>1, <1>2, <2>2
    <3> QED
      BY <2>1, <2>2, <3>1, Zenon
  <2> QED
    BY <2>3, ConsentPerTask, Zenon
<1>4. CASE grant(i)
  <2>1. /\ status' = [status EXCEPT ![i] = "Granted"]
        /\ \A k \in Interfaces :
             task'[k] = given(k) \/ task'[k] = [given(k) EXCEPT !.woken = TRUE]
    BY <1>4 DEF grant, wake
  <2>2. ASSUME NEW k \in Interfaces
        PROVE  given(k) \in TaskRecords /\ Collected(given(k), status')
    <3>1. status \in [Interfaces -> RequestStates] /\ task[k].pend \subseteq Interfaces
      BY <1>2 DEF TypeOK, TaskRecords
    <3>2. CASE i \in task[k].pend
      BY <1>2, <2>1, <3>1, <3>2 DEF Collected, TaskRecords
    <3>3. CASE i \notin task[k].pend
      BY <1>2, <2>1, <3>1, <3>3 DEF Collected
    <3> QED
      BY <3>2, <3>3
  <2> HIDE DEF given
  <2>3. ASSUME NEW k \in Interfaces PROVE Collected(task'[k], status')
    BY <1>1, <2>1, <2>2, Zenon
  <2> QED
    BY <2>3, ConsentPerTask, Zenon
<1> QED
  BY <1>3, <1>4

(* An operation runs only with the consent of every interface it asked.    *)
THEOREM Consent == Spec => []OperationsHaveConsent
<1>1. Init => ConsentInv
  BY DEF Init, ConsentInv, ConsentIsCollected, OperationsHaveConsent, Running, IdleTask
<1>2. TypeOK /\ ConsentInv /\ [Next]_vars => ConsentInv'
  <2> SUFFICES ASSUME TypeOK, ConsentInv, Next PROVE ConsentInv'
    BY DEF vars, ConsentInv, ConsentIsCollected, OperationsHaveConsent, Running
  <2> USE LMacAssumption
  <2>1. Collected(IdleTask, status)
    BY DEF Collected, IdleTask
  <2>2. ASSUME NEW j \in Interfaces, begin_operation(j) PROVE ConsentInv'
    <3>1. CASE ~try_begin(j)
      <4>1. /\ task' = [task EXCEPT ![j] = [task[j] EXCEPT !.at = "WaitCompletion"]]
            /\ status' = status
        BY <2>2, <3>1 DEF begin_operation, requestVars
      <4>2. Collected([task[j] EXCEPT !.at = "WaitCompletion"], status)
        BY DEF Collected, TypeOK, TaskRecords
      <4> QED
        BY <4>1, <4>2, ConsentOneTask, ZenonT(30)
    <3> QED
      BY <3>1, ConsentTryBegin
  <2>3. ASSUME NEW j \in Interfaces, resume_operation(j) PROVE ConsentInv'
    <3>1. CASE ~try_begin(j)
      BY <2>1, <2>3, <3>1, ConsentOneTask, ZenonT(30) DEF resume_operation, requestVars
    <3> QED
      BY <3>1, ConsentTryBegin
  <2>4. ASSUME NEW j \in Interfaces,
               \/ cancel_begin(j) \/ drop_operation(j)
               \/ \E c \in Channels : scan_channel(j, c)
        PROVE  ConsentInv'
    <3>1. /\ status' = status
          /\ task' = task \/ task' = [task EXCEPT ![j] = IdleTask]
      BY <2>4 DEF cancel_begin, drop_operation, scan_channel, end_operation, requestVars
    <3>2. CASE task' = task
      BY <3>1, <3>2, ConsentPerTask
    <3>3. CASE task' = [task EXCEPT ![j] = IdleTask]
      BY <3>1, <3>3, <2>1, ConsentOneTask, ZenonT(30)
    <3> QED
      BY <3>1, <3>2, <3>3
  <2>5. ASSUME UNCHANGED <<task, status>> PROVE ConsentInv'
    BY <2>5, ConsentPerTask
  <2>6. ASSUME NEW i \in Interfaces,
               \/ \E c \in Channels : begin_bringup(i, c)
               \/ completion_received(i) \/ complete_bringup(i)
               \/ drop_bringup(i) \/ bring_down(i)
        PROVE  ConsentInv'
    BY <2>5, <2>6 DEF begin_bringup, completion_received, complete_bringup, drop_bringup,
                      bring_down, requestVars
  <2> QED
    BY <2>2, <2>3, <2>4, <2>6, ConsentPoll, ConsentAnswer, ZenonT(60) DEF Next
<1> QED
  BY <1>1, <1>2, TypeCorrect, PTL DEF Spec, ConsentInv
=============================================================================
