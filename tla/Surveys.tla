------------------------------ MODULE Surveys ------------------------------
(***************************************************************************)
(* The surveys component (SurveysService, called "requests" by the         *)
(* service): deliveries and pick-ups that drivers carry out, either on     *)
(* their own or as the two requests of an order (a lead).                  *)
(*                                                                         *)
(* Every request of the controller is a Caller.  A handler is cut at each  *)
(* await that another handler can fall into: what it read before the await *)
(* stays in call[c] and is used after it.                                  *)
(*                                                                         *)
(* Orders enter this module only as far as the surveys service reads them: *)
(* the set of orders whose row is not soft-deleted.  The Lead... actions   *)
(* are that environment; module Orders replaces them by the real handlers. *)
(***************************************************************************)
EXTENDS Naturals, FiniteSets, Sequences

CONSTANTS
  Survey,        \* identities of survey rows
  Order,         \* identities of orders
  Driver,        \* users with the driver role
  Start,         \* start dates of standalone surveys
  Caller,        \* requests the surveys controller serves at the same time
  SurveyOps,     \* the operations the environment uses, see SurveyOp
  Failures,      \* what may fail between two steps, see Failure
  RequestDriver, \* drivers orders are made with: None is a request without one
  None,          \* a column that is null
  Undefined      \* a field that the body of a request leaves out

\* "update" may give a driver, with "redate" also a date, with "retype" a type.
SurveyOp == {"create", "update", "redate", "retype", "remove", "log", "lead"}
Failure == {"survey", "handler", "gateway", "callback"}

ASSUME SurveyConstants ==
  /\ IsFiniteSet(Survey)
  /\ SurveyOps \subseteq SurveyOp
  /\ Failures \subseteq Failure
  /\ RequestDriver \subseteq Driver \cup {None}
  /\ None \notin Survey \cup Order \cup Driver \cup Start
  /\ None \notin {"start", "end", "delivery", "pick_up"}
  /\ Undefined \notin Driver \cup Start \cup {None, "delivery", "pick_up"}

VARIABLES
  leads,         \* orders that are saved and not soft-deleted
  surveys,       \* the surveys table
  surveyLogs,    \* the types of the log rows of each survey, oldest first
  notified,      \* the driver who got the latest notification of each kind
  call           \* what each caller's handler holds between two awaits

surveyVars == <<leads, surveys, surveyLogs, notified, call>>

-----------------------------------------------------------------------------
(* Rows and handlers *)

SurveyType == {"delivery", "pick_up"}
SurveyStatus == {"pending", "on_progress", "done"}
LogType == {"start", "end"}

SurveyRow == [state  : {"absent", "live", "deleted"},
              order  : Order \cup {None},
              type   : SurveyType,
              status : SurveyStatus,
              driver : Driver \cup {None},
              start  : Start \cup {None}]

AbsentRow == [state |-> "absent", order |-> None, type |-> "delivery",
              status |-> "pending", driver |-> None, start |-> None]

\* A body leaves a field out, gives it as null or gives it a value.  (A null
\* type does not fit its column: such an update fails where it would write.)
SurveyDto == [driver : Driver \cup {None, Undefined},
              start  : Start \cup {None, Undefined},
              type   : SurveyType \cup {Undefined}]

NoDto == [driver |-> Undefined, start |-> Undefined, type |-> Undefined]

Call == [phase  : {"idle", "notify", "update", "log_status", "log_insert"},
         survey : Survey \cup {None},
         kind   : LogType \cup {None},
         dto    : SurveyDto]

IdleCall == [phase |-> "idle", survey |-> None, kind |-> None, dto |-> NoDto]

Live(s) == surveys[s].state = "live"

\* Identities are interchangeable, so a new row takes a fixed one of those left.
FirstOf(ids) == CHOOSE id \in ids : TRUE
Unused == {s \in Survey : surveys[s].state = "absent"}

\* The live requests of s's order, when that order is live: both joins leave
\* soft-deleted rows out.  The request s itself is one of them.
Siblings(s) ==
  {r \in Survey : /\ surveys[s].order \in leads
                  /\ Live(r)
                  /\ surveys[r].order = surveys[s].order}

SurveysInit ==
  /\ leads = {}
  /\ surveys = [s \in Survey |-> AbsentRow]
  /\ surveyLogs = [s \in Survey |-> << >>]
  /\ notified = [s \in Survey |-> [create |-> None, update |-> None]]
  /\ call = [c \in Caller |-> IdleCall]

-----------------------------------------------------------------------------
(* The rows of an order *)

\* Variant: the status is left to a default the column does not have.
RequestWithoutStatus(o, type, driver) ==
  [AbsentRow EXCEPT !.state = "live", !.order = o, !.type = type, !.driver = driver,
                    !.status = None]

RequestRow(o, type, driver) ==
  [AbsentRow EXCEPT !.state = "live", !.order = o, !.type = type, !.driver = driver]

\* The two requests the cascade of orderRepository.save inserts with an order.
InsertRequests(o, deliverer, collector) ==
  \E r1, r2 \in Unused :
    /\ r1 # r2
    /\ r1 = FirstOf(Unused) /\ r2 = FirstOf(Unused \ {r1})
    /\ surveys' = [surveys EXCEPT ![r1] = RequestRow(o, "delivery", deliverer),
                                  ![r2] = RequestRow(o, "pick_up", collector)]

SoftDeleteRequests(o) ==
  [s \in Survey |-> IF Live(s) /\ surveys[s].order = o
                    THEN [surveys[s] EXCEPT !.state = "deleted"]
                    ELSE surveys[s]]

LeadSaved(o, deliverer, collector) ==
  /\ "lead" \in SurveyOps
  /\ \A s \in Survey : surveys[s].order # o
  /\ InsertRequests(o, deliverer, collector)
  /\ leads' = leads \cup {o}
  /\ UNCHANGED <<surveyLogs, notified, call>>

LeadDeleted(o) ==
  /\ o \in leads
  /\ leads' = leads \ {o}
  /\ UNCHANGED <<surveys, surveyLogs, notified, call>>

RemoveByOrderId(o) ==
  /\ surveys' = SoftDeleteRequests(o)
  /\ UNCHANGED <<leads, surveyLogs, notified, call>>

-----------------------------------------------------------------------------
(* create *)

SurveyCreate(c, type, driver, start) ==
  /\ "create" \in SurveyOps
  /\ call[c] = IdleCall
  /\ \E s \in Survey :
       /\ surveys[s].state = "absent" /\ s = FirstOf(Unused)
       /\ surveys' = [surveys EXCEPT ![s] = [AbsentRow EXCEPT !.state = "live",
                        !.type = type, !.driver = driver, !.start = start]]
       /\ call' = [call EXCEPT ![c] = [IdleCall EXCEPT !.phase = "notify",
                        !.survey = s, !.dto.driver = driver]]
  /\ UNCHANGED <<leads, surveyLogs, notified>>

SurveyCreateNotify(c) ==
  /\ call[c].phase = "notify"
  /\ notified' = [notified EXCEPT ![call[c].survey].create = call[c].dto.driver]
  /\ call' = [call EXCEPT ![c] = IdleCall]
  /\ UNCHANGED <<leads, surveys, surveyLogs>>

-----------------------------------------------------------------------------
(* update: the notification is decided from a row the query picks without a *)
(* where clause, then the row of the id is written.                         *)

DriverChanges(read, dto) == dto.driver \in Driver /\ read.driver # dto.driver
StartChanges(read, dto) == dto.start \in Start /\ read.start # dto.start

Notification(read, s, dto) ==
  IF DriverChanges(read, dto) THEN [notified EXCEPT ![s].create = dto.driver]
  ELSE IF StartChanges(read, dto) THEN [notified EXCEPT ![s].update = read.driver]
  ELSE notified

SurveyUpdate(c, s, dto) ==
  /\ "update" \in SurveyOps
  /\ dto.start # Undefined => "redate" \in SurveyOps
  /\ dto.type # Undefined => "retype" \in SurveyOps
  /\ call[c] = IdleCall
  /\ surveys[s].state # "absent"
  /\ IF dto.driver \in Driver \/ dto.start \in Start
       THEN \E r \in Survey : Live(r) /\ notified' = Notification(surveys[r], s, dto)
       ELSE notified' = notified
  /\ call' = [call EXCEPT ![c] =
                [IdleCall EXCEPT !.phase = "update", !.survey = s, !.dto = dto]]
  /\ UNCHANGED <<leads, surveys, surveyLogs>>

\* The entity that is saved has no property for a field that was left out; a
\* null is written.
Given(new, old) == IF new = Undefined THEN old ELSE new

Updated(row, dto) ==
  [row EXCEPT !.driver = Given(dto.driver, row.driver),
              !.start  = Given(dto.start, row.start),
              !.type   = Given(dto.type, row.type)]

SurveyUpdateWrite(c) ==
  /\ call[c].phase = "update"
  /\ surveys' = [surveys EXCEPT ![call[c].survey] = Updated(@, call[c].dto)]
  /\ call' = [call EXCEPT ![c] = IdleCall]
  /\ UNCHANGED <<leads, surveyLogs, notified>>

SurveyRemove(s) ==
  /\ "remove" \in SurveyOps
  /\ Live(s)
  /\ surveys' = [surveys EXCEPT ![s].state = "deleted"]
  /\ UNCHANGED <<leads, surveyLogs, notified, call>>

-----------------------------------------------------------------------------
(* log: a driver starts or ends a survey *)

\* Variant: siblings are not looked at.
NoSiblingsChecked(s) == TRUE

\* With more than one live request, the first delivery found must be done.
DeliveryDoneFirst(s) ==
  Cardinality(Siblings(s)) > 1 =>
    LET deliveries == {r \in Siblings(s) : surveys[r].type = "delivery"} IN
      deliveries = {} \/ \E r \in deliveries : surveys[r].status = "done"

\* Variant: only a second start is refused.
StartedRefused(status, kind) == ~(status = "on_progress" /\ kind = "start")

\* Variant: a survey that was started takes no log at all.
StartedIsFinal(status, kind) == status # "on_progress" /\ status # "done"

\* The first check of validateSurveyStatus tests a promise, which is always
\* there, so an end needs no start.
ValidSurveyStatus(status, kind) ==
  ~(status = "on_progress" /\ kind = "start") /\ status # "done"

StatusAfter(kind) == IF kind = "start" THEN "on_progress" ELSE "done"

\* The caller is the survey's driver.
SurveyLog(c, s, kind) ==
  /\ "log" \in SurveyOps
  /\ call[c] = IdleCall
  /\ Live(s)
  /\ surveys[s].driver \in Driver
  /\ DeliveryDoneFirst(s)
  /\ ValidSurveyStatus(surveys[s].status, kind)
  /\ call' = [call EXCEPT ![c] =
                [IdleCall EXCEPT !.phase = "log_status", !.survey = s, !.kind = kind]]
  /\ UNCHANGED <<leads, surveys, surveyLogs, notified>>

SurveyLogStatus(c) ==
  /\ call[c].phase = "log_status"
  /\ surveys' = [surveys EXCEPT ![call[c].survey].status = StatusAfter(call[c].kind)]
  /\ call' = [call EXCEPT ![c].phase = "log_insert"]
  /\ UNCHANGED <<leads, surveyLogs, notified>>

\* Variant: a log of the wrong type is kept.
LogSwapped(kind) == IF kind = "start" THEN "end" ELSE "start"

LoggedType(kind) == kind

SurveyLogInsert(c) ==
  /\ call[c].phase = "log_insert"
  /\ surveyLogs' = [surveyLogs EXCEPT ![call[c].survey] = Append(@, LoggedType(call[c].kind))]
  /\ call' = [call EXCEPT ![c] = IdleCall]
  /\ UNCHANGED <<leads, surveys, notified>>

\* A database error, or the process stops, between two awaits.
SurveyCallFails(c) ==
  /\ "survey" \in Failures
  /\ call[c] # IdleCall
  /\ call' = [call EXCEPT ![c] = IdleCall]
  /\ UNCHANGED <<leads, surveys, surveyLogs, notified>>

-----------------------------------------------------------------------------

HandlerStep(c) ==
  \/ SurveyCreateNotify(c)
  \/ SurveyUpdateWrite(c)
  \/ SurveyLogStatus(c)
  \/ SurveyLogInsert(c)

\* What the surveys controller does, whoever owns the orders.
ControllerNext ==
  \/ \E c \in Caller :
       \/ \E type \in SurveyType, d \in Driver, t \in Start : SurveyCreate(c, type, d, t)
       \/ \E s \in Survey, dto \in SurveyDto : SurveyUpdate(c, s, dto)
       \/ \E s \in Survey, kind \in LogType : SurveyLog(c, s, kind)
       \/ HandlerStep(c)
       \/ SurveyCallFails(c)
  \/ \E s \in Survey : SurveyRemove(s)

LeadNext ==
  \E o \in Order :
    \/ \E deliverer, collector \in RequestDriver : LeadSaved(o, deliverer, collector)
    \/ LeadDeleted(o)
    \/ o \notin leads /\ (\E s \in Survey : Live(s) /\ surveys[s].order = o)
       /\ RemoveByOrderId(o)

SurveysNext == ControllerNext \/ LeadNext

SurveysSpec == SurveysInit /\ [][SurveysNext]_surveyVars

\* The handlers run to their end, the driver of a survey keeps trying to end it
\* until the service lets him, and not every attempt of his fails.
SurveysFairness ==
  /\ \A c \in Caller : WF_surveyVars(HandlerStep(c))
  /\ \A s \in Survey :
       /\ SF_surveyVars(\E c \in Caller : SurveyLog(c, s, "end"))
       /\ SF_surveyVars(\E c \in Caller : /\ call[c].survey = s /\ call[c].kind = "end"
                                         /\ SurveyLogStatus(c))

FairSurveysSpec == SurveysSpec /\ SurveysFairness

-----------------------------------------------------------------------------
(* Properties *)

SurveysTypeOK ==
  /\ leads \subseteq Order
  /\ surveys \in [Survey -> SurveyRow]
  /\ surveyLogs \in [Survey -> Seq(LogType)]
  /\ notified \in [Survey -> [create : Driver \cup {None}, update : Driver \cup {None}]]
  /\ call \in [Caller -> Call]

AtRest(s) == \A c \in Caller : call[c].survey # s

\* The status of a survey only moves forward (validateSurveyStatus refuses
\* what is started or ended): no sequence of logs, updates and removals takes
\* an ended survey back or a started one back to pending.
Rank(status) == CASE status = "pending" -> 0 [] status = "on_progress" -> 1 [] status = "done" -> 2

StatusNeverGoesBack ==
  [][\A s \in Survey : Rank(surveys'[s].status) >= Rank(surveys[s].status)]_surveyVars

\* The log rows never run ahead of the status (log writes the status first and
\* the log row after it): whatever fails between the two and whatever is tried
\* again after it, a logged end means the survey is done, a logged start that it
\* is not pending any more, and neither is logged twice.  (The other way round
\* a failure leaves a status without its log row for good, and an end needs no
\* start.)
LogsNeverAhead ==
  \A s \in Survey : \A i, j \in DOMAIN surveyLogs[s] :
    /\ surveyLogs[s][i] = "end" => surveys[s].status = "done"
    /\ surveyLogs[s][i] = "start" => surveys[s].status # "pending"
    /\ surveyLogs[s][i] = surveyLogs[s][j] => i = j

\* The time a survey took, which setDuration takes from its first start and its
\* first end, is never negative: no start is logged after an end, with errors
\* between a status and its log row.  (An end without a start has no duration.)
ProgressNotNegative ==
  \A s \in Survey : \A i, j \in DOMAIN surveyLogs[s] :
    surveyLogs[s][i] = "start" /\ surveyLogs[s][j] = "end" => i < j

\* The delivery and the pick-up of an order that is there, s and r.
Pair(s, r) ==
  /\ surveys[s].order \in leads /\ surveys[r].order = surveys[s].order
  /\ Live(s) /\ Live(r)
  /\ surveys[s].type = "delivery" /\ surveys[r].type = "pick_up"

\* As long as an order is there with both its requests, neither has moved.  The
\* sibling check (surveys.service.ts:247) is there to hold back the pick-up; it
\* counts the delivery among its own siblings and holds back both, which
\* DeliveryEnds reports.  This is the safety side of the same check: no order of
\* logs, retries, removals, failures and deletions of the order, and no two
\* requests of the service at once, take either of the two past it.
RequestsStandStill ==
  \A s, r \in Survey :
    Pair(s, r) => surveys[s].status = "pending" /\ surveys[r].status = "pending"

\* "Add notification if driver changed" (surveys.service.ts:198): when no handler
\* works on it, the driver a standalone survey has is the one who was told of it
\* last, after any series of re-assignments and date changes (create notifies
\* after its write, update before).
DriverWasTold ==
  \A s \in Survey :
    Live(s) /\ surveys[s].order = None /\ AtRest(s) /\ surveys[s].driver \in Driver
      => notified[s].create = surveys[s].driver

\* A standalone survey ends, is removed or loses its driver, when its driver keeps
\* trying and not every attempt of his fails.
StandaloneSurveyEnds ==
  \A s \in Survey :
    (Live(s) /\ surveys[s].order = None)
      ~> (surveys[s].status = "done" \/ ~Live(s) \/ surveys[s].driver \notin Driver)

\* "Start request must be done first." (surveys.service.ts:250): the start
\* request of an order can be done; so, when its driver keeps trying, it is.
DeliveryEnds ==
  \A s \in Survey :
    (Live(s) /\ surveys[s].order # None /\ surveys[s].type = "delivery")
      ~> (surveys[s].status = "done" \/ ~Live(s))
=============================================================================
