---------------------------- MODULE TaskManagement ----------------------------
(***************************************************************************)
(* ABORT TASK and QUERY TASK: api/ufs_api/task_management.py on top of the *)
(* executor.  A request names its target by task tag, taken from the       *)
(* package; the pattern names it by index, and after send() asks from the  *)
(* responses found, by index again, what became of the target.             *)
(***************************************************************************)
EXTENDS Executor

CONSTANT TmCommand   \* ExecuteCMD.TaskManagement(), without its target

ASSUME TmAssumption == TmCommand \in CommandType /\ TmCommand.class = "tm"

VARIABLES
  requests,   \* index of a request in the list -> its function and its target's index
  service     \* the service responses the device gave, by index of the request

tmVars == <<requests, service>>

ScsiClasses == {"rw", "hpb", "readbuffer", "scsi"}     \* structs.CommandUpiu
IsScsi(i) == cmd_list[i].cmd.class \in ScsiClasses

TagOfTargetIndex(i) == i
TagOfTarget(i) == cmd_list[i].key[2]

(* push_abort_task and push_query_task; a target that is not in the list   *)
(* or of another kind raises before anything changes.                      *)
PushRequest(function, i) ==
  LET tm == [TmCommand EXCEPT !.target = TagOfTarget(i)]
  IN  /\ Enqueue(tm)
      /\ requests' = IF EnqueueResult(tm) = "ok"
                     THEN [n \in DOMAIN requests \cup {Len(cmd_list) + 1} |->
                             IF n \in DOMAIN requests THEN requests[n]
                             ELSE [function |-> function, target |-> i]]
                     ELSE requests
      /\ UNCHANGED service

PushAbortTask(i) == IsScsi(i) /\ PushRequest("ABORT_TASK", i)
PushQueryTask(i) == (IsScsi(i) \/ cmd_list[i].cmd.class = "tm") /\ PushRequest("QUERY_TASK", i)

(* The device.  It aborts the target if it is in the task set, and answers *)
(* COMPLETE too if it is not; a query SUCCEEDED tells the two apart.  It   *)
(* may refuse either.                                                      *)
InTaskSet(tag) == \E i \in outstanding : IsScsi(i) /\ TagOfTarget(i) = tag

Refusals == {"FUNC_NOT_SUPPORTED", "FUNC_FAILED"}

Responses(tm) ==
  LET present == InTaskSet(cmd_list[tm].cmd.target)
      query   == requests[tm].function = "QUERY_TASK"
  IN  Refusals \cup IF ~present THEN {"FUNC_COMPLETE"}
                    ELSE IF query THEN {"FUNC_SUCCEEDED"} ELSE {}

Serve(tm, response) ==
  /\ service' = [n \in DOMAIN service \cup {tm} |-> IF n = tm THEN response ELSE service[n]]
  /\ UNCHANGED requests

DeviceAnswers(tm) ==
  /\ tm \in DOMAIN requests
  /\ TesterComplete(tm)
  /\ \E response \in Responses(tm) : Serve(tm, response)

DeviceAborts(tm, i) ==
  /\ tm \in DOMAIN requests
  /\ requests[tm].function = "ABORT_TASK"
  /\ TesterAbort(tm, i)
  /\ Serve(tm, "FUNC_COMPLETE")

-----------------------------------------------------------------------------
(* check_if_target_is_aborted and check_if_query_succeeded change nothing: *)
(* these are their results, when they find the request's response.         *)

ServiceResponse(tm) == service[ReadResponse(tm).id]

CheckedByServiceOnly(target, tm) == ServiceResponse(tm) = "FUNC_COMPLETE"
CheckIfTargetIsAborted(target, tm) ==
  ServiceResponse(tm) = "FUNC_COMPLETE" /\ HasResponse(target)

NotRefused(tm) == ServiceResponse(tm) \notin Refusals
CheckIfQuerySucceeded(tm) == ServiceResponse(tm) = "FUNC_SUCCEEDED"

-----------------------------------------------------------------------------
TmInit == Init /\ requests = NoFunction /\ service = NoFunction

Push == \E i \in 1 .. Len(cmd_list) : PushAbortTask(i) \/ PushQueryTask(i)

Device ==
  \/ \E tm \in outstanding : DeviceAnswers(tm)
  \/ \E tm, i \in outstanding : DeviceAborts(tm, i)

(* Every other step of the executor; an emptied list voids the indices.    *)
Rest ==
  /\ \/ PatternNext
     \/ SendNext
     \/ TesterIssue
     \/ \E i \in outstanding : IsScsi(i) /\ TesterComplete(i)
  /\ IF cmd_list' = <<>>
     THEN requests' = NoFunction /\ service' = NoFunction
     ELSE UNCHANGED tmVars

TmNext == Push \/ Device \/ Rest

TmSpec == TmInit /\ [][TmNext]_<<vars, tmVars>>

-----------------------------------------------------------------------------
(* Properties *)

Answered(i) == \E n \in DOMAIN done_queue : done_queue[n] = [key |-> cmd_list[i].key, id |-> i]
Aborted(i)  == \E n \in DOMAIN done_queue : done_queue[n] = [key |-> <<"sdk", TmDummy>>, id |-> i]

Checkable(tm, function) ==
  pc = "idle" /\ requests[tm].function = function /\ HasResponse(tm)

(* What the device aborts is the command at the index the pattern gave to  *)
(* push_abort_task, though the request names it by tag.                    *)
AbortHitsItsTarget ==
  \A i \in 1 .. Len(cmd_list) : Aborted(i) =>
    \E tm \in DOMAIN requests :
      requests[tm].function = "ABORT_TASK" /\ requests[tm].target = i

(* The verdict of check_if_target_is_aborted is that of the device: TRUE   *)
(* just when the request was completed and the target answered all the     *)
(* same; in particular never for an aborted target, whichever responses    *)
(* a failing package left.                                                 *)
VerdictMatchesAnswers ==
  \A tm \in DOMAIN requests : Checkable(tm, "ABORT_TASK") =>
    LET target == requests[tm].target
    IN  CheckIfTargetIsAborted(target, tm)
          <=> service[tm] = "FUNC_COMPLETE" /\ Answered(target) /\ ~Aborted(target)

(* If check_if_query_succeeded says so, the target was in flight when the  *)
(* device looked: it had been started and its answer came later, if at all.*)
QueriedInFlight ==
  \A tm \in DOMAIN requests : Checkable(tm, "QUERY_TASK") =>
    (CheckIfQuerySucceeded(tm) =>
       \A m, n \in DOMAIN done_queue :
         done_queue[m].id = requests[tm].target /\ done_queue[n].id = tm => n < m)

(* check_if_target_is_aborted returns "Whether target is aborted or not"   *)
(* (its docstring), for a request the device completed and a send() that   *)
(* brought all answers.                                                    *)
ReturnsWhetherAborted ==
  \A tm \in DOMAIN requests :
    LET target == requests[tm].target
    IN  Checkable(tm, "ABORT_TASK") /\ (Answered(target) \/ Aborted(target)) =>
          (CheckIfTargetIsAborted(target, tm) <=> Aborted(target))
=============================================================================
