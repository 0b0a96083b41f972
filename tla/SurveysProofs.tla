--------------------------- MODULE SurveysProofs ---------------------------
(***************************************************************************)
(* Proofs about the surveys component: types, and that the requests of an  *)
(* order stand still, for every number of callers; and, for one request at *)
(* a time, that statuses only move forward, that no survey takes a         *)
(* negative time and that the log rows never run ahead of the status.      *)
(***************************************************************************)
EXTENDS Surveys, FiniteSetTheorems, SequenceTheorems, TLAPS

-----------------------------------------------------------------------------
(* Types *)

\* What a handler holds fits its phase.
CallsFit ==
  \A c \in Caller : call[c].phase # "idle" =>
    /\ call[c].survey \in Survey
    /\ call[c].phase = "notify" => call[c].dto.driver \in Driver
    /\ call[c].phase \in {"log_status", "log_insert"} => call[c].kind \in LogType

SurveysInv == SurveysTypeOK /\ CallsFit

\* The initial state has the types.
LEMMA SurveysInvInit == SurveysInit => SurveysInv
<1> SUFFICES ASSUME SurveysInit PROVE SurveysInv
  OBVIOUS
<1>1. AbsentRow \in SurveyRow
  BY DEF AbsentRow, SurveyRow, SurveyType, SurveyStatus
<1>2. IdleCall \in Call
  BY DEF IdleCall, Call, NoDto, SurveyDto
<1>3. SurveysTypeOK
  BY <1>1, <1>2 DEF SurveysInit, SurveysTypeOK
<1>4. CallsFit
  BY DEF SurveysInit, CallsFit, IdleCall
<1> QED
  BY <1>3, <1>4 DEF SurveysInv

\* Every step of the controller keeps the types, in any state of the orders.
LEMMA ControllerKeepsTypes ==
  ASSUME SurveysInv, ControllerNext
  PROVE  SurveysInv'
<1> USE DEF SurveysInv
<1>idle. IdleCall \in Call /\ IdleCall.phase = "idle"
  BY DEF IdleCall, Call, NoDto, SurveyDto
<1>absent. AbsentRow \in SurveyRow
  BY DEF AbsentRow, SurveyRow, SurveyType, SurveyStatus
<1>1. ASSUME NEW c \in Caller, NEW type \in SurveyType, NEW d \in Driver, NEW t \in Start,
             SurveyCreate(c, type, d, t)
      PROVE  SurveysInv'
  <2> DEFINE row == [AbsentRow EXCEPT !.state = "live", !.type = type, !.driver = d, !.start = t]
             held(s) == [IdleCall EXCEPT !.phase = "notify", !.survey = s, !.dto.driver = d]
  <2>1. PICK s \in Survey : /\ surveys' = [surveys EXCEPT ![s] = row]
                            /\ call' = [call EXCEPT ![c] = held(s)]
    BY <1>1 DEF SurveyCreate
  <2>2. row \in SurveyRow
    BY <1>absent DEF SurveyRow
  <2>3. /\ held(s) \in Call /\ held(s).phase = "notify" /\ held(s).survey = s
        /\ held(s).dto.driver = d
    BY DEF IdleCall, Call, NoDto, SurveyDto
  <2> HIDE DEF row, held
  <2>4. SurveysTypeOK'
    BY <1>1, <2>1, <2>2, <2>3 DEF SurveyCreate, SurveysTypeOK
  <2>5. CallsFit'
    BY <1>1, <2>1, <2>3 DEF CallsFit, SurveysTypeOK
  <2> QED
    BY <2>4, <2>5
<1>2. ASSUME NEW c \in Caller, NEW s \in Survey, NEW dto \in SurveyDto, SurveyUpdate(c, s, dto)
      PROVE  SurveysInv'
  <2>1. notified' \in [Survey -> [create : Driver \cup {None}, update : Driver \cup {None}]]
    <3>1. notified \in [Survey -> [create : Driver \cup {None}, update : Driver \cup {None}]]
      BY DEF SurveysTypeOK
    <3>3. ASSUME NEW r \in Survey
          PROVE  /\ surveys[r].driver \in Driver \cup {None}
                 /\ Notification(surveys[r], s, dto)
                      \in [Survey -> [create : Driver \cup {None}, update : Driver \cup {None}]]
      <4>1. surveys[r].driver \in Driver \cup {None}
        BY DEF SurveysTypeOK, SurveyRow
      <4> QED
        BY <3>1, <4>1 DEF Notification, DriverChanges
    <3> QED
      BY <1>2, <3>1, <3>3 DEF SurveyUpdate
  <2>2. QED
    BY <1>2, <2>1, <1>idle
    DEF SurveyUpdate, SurveysTypeOK, CallsFit, IdleCall, NoDto, SurveyDto, Call, LogType
<1>3. ASSUME NEW c \in Caller, NEW s \in Survey, NEW kind \in LogType, SurveyLog(c, s, kind)
      PROVE  SurveysInv'
  BY <1>3, <1>idle
  DEF SurveyLog, SurveysTypeOK, CallsFit, IdleCall, NoDto, SurveyDto, Call, LogType
<1>4. ASSUME NEW c \in Caller, SurveyCreateNotify(c)
      PROVE  SurveysInv'
  <2>1. call[c].survey \in Survey /\ call[c].dto.driver \in Driver
    BY <1>4 DEF SurveyCreateNotify, CallsFit
  <2> QED
    BY <1>4, <1>idle, <2>1 DEF SurveyCreateNotify, SurveysTypeOK, CallsFit
<1>5. ASSUME NEW c \in Caller, SurveyUpdateWrite(c)
      PROVE  SurveysInv'
  <2>1. surveys' \in [Survey -> SurveyRow]
    <3>1. ASSUME NEW row \in SurveyRow, NEW dto \in SurveyDto
          PROVE  Updated(row, dto) \in SurveyRow
      BY SurveyConstants DEF Updated, Given, SurveyRow, SurveyDto
    <3>2. call[c].survey \in Survey /\ call[c].dto \in SurveyDto
      BY <1>5 DEF SurveyUpdateWrite, SurveysTypeOK, CallsFit, Call
    <3> QED
      BY <1>5, <3>1, <3>2 DEF SurveyUpdateWrite, SurveysTypeOK
  <2>2. QED
    BY <1>5, <2>1, <1>idle DEF SurveyUpdateWrite, SurveysTypeOK, CallsFit
<1>6. ASSUME NEW c \in Caller, SurveyLogStatus(c)
      PROVE  SurveysInv'
  <2>1. StatusAfter(call[c].kind) \in SurveyStatus
    BY DEF StatusAfter, SurveyStatus
  <2>2. call[c].survey \in Survey /\ call[c].kind \in LogType
    BY <1>6 DEF SurveyLogStatus, CallsFit
  <2>3. surveys' \in [Survey -> SurveyRow]
    BY <1>6, <2>1, <2>2 DEF SurveyLogStatus, SurveysTypeOK, SurveyRow
  <2>4. call' \in [Caller -> Call]
    BY <1>6 DEF SurveyLogStatus, SurveysTypeOK, Call
  <2>5. SurveysTypeOK' /\ CallsFit'
    BY <1>6, <2>2, <2>3, <2>4 DEF SurveyLogStatus, SurveysTypeOK, CallsFit
  <2> QED
    BY <2>5
<1>7. ASSUME NEW c \in Caller, SurveyLogInsert(c)
      PROVE  SurveysInv'
  BY <1>7, <1>idle DEF SurveyLogInsert, LoggedType, SurveysTypeOK, CallsFit, Call, LogType
<1>8. ASSUME NEW c \in Caller, SurveyCallFails(c)
      PROVE  SurveysInv'
  BY <1>8, <1>idle DEF SurveyCallFails, SurveysTypeOK, CallsFit
<1>9. ASSUME NEW s \in Survey, SurveyRemove(s)
      PROVE  SurveysInv'
  BY <1>9 DEF SurveyRemove, SurveysTypeOK, CallsFit, SurveyRow
<1> QED
  BY <1>1, <1>2, <1>3, <1>4, <1>5, <1>6, <1>7, <1>8, <1>9 DEF ControllerNext, HandlerStep

\* The surveys controller takes no survey to an order, from one or to another,
\* revives none and touches no order.
LEMMA ControllerKeepsOrders ==
  ASSUME SurveysInv, ControllerNext
  PROVE  /\ leads' = leads
         /\ \A s \in Survey : surveys'[s].order # None =>
              /\ surveys'[s].order = surveys[s].order
              /\ surveys'[s].state = "live" => Live(s)
         /\ \A s \in Survey : Live(s) =>
              /\ surveys'[s].order = surveys[s].order
              /\ surveys'[s].state = "live" \/ "remove" \in SurveyOps
<1> USE DEF SurveysInv, SurveysTypeOK
<1> DEFINE Kept == \A s \in Survey :
                     /\ surveys'[s].order # None =>
                          /\ surveys'[s].order = surveys[s].order
                          /\ surveys'[s].state = "live" => Live(s)
                     /\ Live(s) =>
                          /\ surveys'[s].order = surveys[s].order
                          /\ surveys'[s].state = "live" \/ "remove" \in SurveyOps
<1>0. leads' = leads
  BY DEF ControllerNext, HandlerStep, SurveyCreate, SurveyUpdate, SurveyLog,
         SurveyCreateNotify, SurveyUpdateWrite, SurveyLogStatus, SurveyLogInsert, SurveyCallFails,
         SurveyRemove
<1>1. ASSUME surveys' = surveys
      PROVE  Kept
  BY <1>1 DEF Live
<1>2. ASSUME NEW c \in Caller, NEW type \in SurveyType, NEW d \in Driver, NEW t \in Start,
             SurveyCreate(c, type, d, t)
      PROVE  Kept
  <2> DEFINE row == [AbsentRow EXCEPT !.state = "live", !.type = type, !.driver = d, !.start = t]
  <2>1. PICK s \in Survey : ~Live(s) /\ surveys' = [surveys EXCEPT ![s] = row]
    BY <1>2 DEF SurveyCreate, Live
  <2>2. row.order = None
    BY DEF AbsentRow
  <2> HIDE DEF row
  <2> QED
    BY <2>1, <2>2 DEF Live
<1>3. ASSUME NEW c \in Caller, SurveyUpdateWrite(c)
      PROVE  Kept
  <2>1. PICK s \in Survey : s = call[c].survey
    BY <1>3 DEF SurveyUpdateWrite, CallsFit
  <2>2. surveys' = [surveys EXCEPT ![s] = Updated(surveys[s], call[c].dto)]
    BY <1>3, <2>1 DEF SurveyUpdateWrite
  <2>3. ASSUME NEW row \in SurveyRow, NEW dto
        PROVE  Updated(row, dto).state = row.state /\ Updated(row, dto).order = row.order
    BY DEF Updated, SurveyRow
  <2> QED
    BY <2>2, <2>3 DEF Live
<1>4. ASSUME NEW c \in Caller, SurveyLogStatus(c)
      PROVE  Kept
  <2>1. PICK s \in Survey : s = call[c].survey
    BY <1>4 DEF SurveyLogStatus, CallsFit
  <2>2. PICK status : surveys' = [surveys EXCEPT ![s].status = status]
    BY <1>4, <2>1 DEF SurveyLogStatus
  <2> QED
    BY <2>2 DEF Live, SurveyRow
<1>5. ASSUME NEW s \in Survey, SurveyRemove(s)
      PROVE  Kept
  BY <1>5 DEF SurveyRemove, Live, SurveyRow
<1>6. Kept
  BY <1>1, <1>2, <1>3, <1>4, <1>5
  DEF ControllerNext, HandlerStep, SurveyUpdate, SurveyLog, SurveyCreateNotify,
      SurveyLogInsert, SurveyCallFails
<1> QED
  BY <1>0, <1>6

\* Inserting the requests of an order keeps the rows typed.
LEMMA InsertRequestsTypes ==
  ASSUME surveys \in [Survey -> SurveyRow],
         NEW o \in Order, NEW d \in RequestDriver, NEW e \in RequestDriver,
         InsertRequests(o, d, e)
  PROVE  surveys' \in [Survey -> SurveyRow]
<1>1. RequestRow(o, "delivery", d) \in SurveyRow /\ RequestRow(o, "pick_up", e) \in SurveyRow
  BY SurveyConstants DEF RequestRow, AbsentRow, SurveyRow, SurveyType, SurveyStatus
<1> QED
  BY <1>1 DEF InsertRequests

\* Deleting the requests of an order keeps the rows typed.
LEMMA SoftDeleteTypes ==
  ASSUME surveys \in [Survey -> SurveyRow], NEW o
  PROVE  SoftDeleteRequests(o) \in [Survey -> SurveyRow]
<1>1. ASSUME NEW s \in Survey
      PROVE  [surveys[s] EXCEPT !.state = "deleted"] \in SurveyRow
  BY DEF SurveyRow
<1> QED
  BY <1>1 DEF SoftDeleteRequests

\* Every step of the environment that stands for the orders keeps the types.
LEMMA LeadsKeepTypes ==
  ASSUME SurveysInv, LeadNext
  PROVE  SurveysInv'
<1> USE DEF SurveysInv
<1>1. ASSUME NEW o \in Order, NEW d \in RequestDriver, NEW e \in RequestDriver, LeadSaved(o, d, e)
      PROVE  SurveysInv'
  BY <1>1, InsertRequestsTypes DEF LeadSaved, SurveysTypeOK, CallsFit
<1>2. ASSUME NEW o \in Order, LeadDeleted(o)
      PROVE  SurveysInv'
  BY <1>2 DEF LeadDeleted, SurveysTypeOK, CallsFit
<1>3. ASSUME NEW o \in Order, RemoveByOrderId(o)
      PROVE  SurveysInv'
  BY <1>3, SoftDeleteTypes DEF RemoveByOrderId, SurveysTypeOK, CallsFit
<1> QED
  BY <1>1, <1>2, <1>3 DEF LeadNext

\* The tables and handlers of the surveys service have their types in every
\* reachable state, for any number of callers and any failure.
THEOREM SurveysTypes == SurveysSpec => []SurveysTypeOK
<1>1. SurveysInv /\ [SurveysNext]_surveyVars => SurveysInv'
  <2>1. SurveysInv /\ UNCHANGED surveyVars => SurveysInv'
    BY DEF SurveysInv, SurveysTypeOK, CallsFit, surveyVars
  <2> QED
    BY <2>1, ControllerKeepsTypes, LeadsKeepTypes DEF SurveysNext
<1>2. SurveysInv => SurveysTypeOK
  BY DEF SurveysInv
<1> QED
  BY <1>1, <1>2, SurveysInvInit, PTL DEF SurveysSpec

-----------------------------------------------------------------------------
(* Any number of callers, no change of type: the requests of an order *)

\* A row that is not there is pending; an order has one request of a type.
AbsentPending == \A s \in Survey : surveys[s].state = "absent" => surveys[s].status = "pending"

OneOfAType ==
  \A s, r \in Survey :
    /\ surveys[s].state # "absent" /\ surveys[r].state # "absent"
    /\ surveys[s].order # None /\ surveys[s].order = surveys[r].order
    /\ surveys[s].type = surveys[r].type
    => s = r

\* A handler works on a row that is there, and changes no type.
CallHolds(c) ==
  /\ call[c].phase # "idle" => surveys[call[c].survey].state # "absent"
  /\ call[c].phase = "update" => call[c].dto.type = Undefined

\* Neither request of an order that has both has moved, and no log that passed
\* the check is about to move one.
PairWaits(s, r) ==
  /\ surveys[s].status = "pending" /\ surveys[r].status = "pending"
  /\ \A c \in Caller : call[c].phase = "log_status" => call[c].survey \notin {s, r}

PairsWait == \A s, r \in Survey : Pair(s, r) => PairWaits(s, r)

StandInv ==
  /\ SurveysInv /\ AbsentPending /\ OneOfAType /\ PairsWait
  /\ \A c \in Caller : CallHolds(c)

\* A set with two elements has more than one.
LEMMA TwoElements ==
  ASSUME NEW S, IsFiniteSet(S), NEW x \in S, NEW y \in S, x # y
  PROVE  Cardinality(S) > 1
<1>1. Cardinality(S) \in Nat
  BY FS_CardinalityType
<1>2. Cardinality(S) # 0
  BY FS_EmptySet
<1>3. Cardinality(S) # 1
  <2>1. ~\E z : S = {z}
    OBVIOUS
  <2> QED
    BY <2>1, FS_Singleton
<1> QED
  BY <1>1, <1>2, <1>3

\* The check on the siblings lets no log of a pending pair pass: the siblings of
\* the delivery are the pick-up and the delivery itself.
LEMMA PairIsRefused ==
  ASSUME StandInv, NEW p \in Survey, NEW d \in Survey, Pair(d, p), NEW s \in {p, d}
  PROVE  ~DeliveryDoneFirst(s)
<1> USE DEF StandInv, SurveysInv
<1>1. IsFiniteSet(Siblings(s))
  <2>1. Siblings(s) \in SUBSET Survey
    BY DEF Siblings
  <2> QED
    BY <2>1, SurveyConstants, FS_Subset
<1>2. leads \subseteq Order /\ None \notin Order
  BY SurveyConstants DEF SurveysTypeOK
<1>3. p \in Siblings(s) /\ d \in Siblings(s) /\ p # d
  BY DEF Pair, Siblings
<1>4. Cardinality(Siblings(s)) > 1
  BY <1>1, <1>3, TwoElements
<1>5. ASSUME NEW q \in Siblings(s), surveys[q].type = "delivery"
      PROVE  q = d
  BY <1>2, <1>5 DEF Siblings, Pair, OneOfAType, Live
<1>6. surveys[d].status = "pending" /\ surveys[d].type = "delivery"
  BY DEF PairsWait, PairWaits, Pair
<1> QED
  BY <1>3, <1>4, <1>5, <1>6 DEF DeliveryDoneFirst

\* A step after which every row is what it was or deleted, and every handler is
\* where it was, at its end, or at work on a row it may work on.
LEMMA PairsStay ==
  ASSUME StandInv, leads' \subseteq leads,
         \A s \in Survey :
           /\ surveys'[s].type = surveys[s].type /\ surveys'[s].order = surveys[s].order
           /\ surveys'[s].status = surveys[s].status
           /\ \/ surveys'[s].state = surveys[s].state
              \/ surveys[s].state = "live" /\ surveys'[s].state = "deleted",
         \A c \in Caller :
           \/ call'[c] = call[c]
           \/ call'[c].phase = "idle"
           \/ /\ call'[c].survey \in Survey /\ surveys[call'[c].survey].state # "absent"
              /\ call'[c].phase = "update" => call'[c].dto.type = Undefined
              /\ call'[c].phase = "log_status" =>
                   \A s, r \in Survey : Pair(s, r) => call'[c].survey \notin {s, r}
  PROVE  AbsentPending' /\ OneOfAType' /\ PairsWait' /\ (\A c \in Caller : CallHolds(c)')
<1> USE DEF StandInv, SurveysInv
<1>1. AbsentPending' /\ OneOfAType'
  BY DEF AbsentPending, OneOfAType
<1>2. ASSUME NEW s \in Survey, NEW r \in Survey, Pair(s, r)'
      PROVE  Pair(s, r)
  BY <1>2 DEF Pair, Live
<1>3. PairsWait'
  BY <1>2 DEF PairsWait, PairWaits
<1>4. ASSUME NEW c \in Caller PROVE CallHolds(c)'
  BY CallHolds(c) DEF CallHolds, CallsFit
<1> QED
  BY <1>1, <1>3, <1>4

\* Creations: the new row belongs to no order.
LEMMA CreateStands ==
  ASSUME StandInv, NEW c \in Caller, NEW type \in SurveyType, NEW d \in Driver,
         NEW t \in Start, SurveyCreate(c, type, d, t)
  PROVE  AbsentPending' /\ OneOfAType' /\ PairsWait' /\ (\A b \in Caller : CallHolds(b)')
<1> USE DEF StandInv, SurveysInv
<1> DEFINE row == [AbsentRow EXCEPT !.state = "live", !.type = type, !.driver = d, !.start = t]
           held(s) == [IdleCall EXCEPT !.phase = "notify", !.survey = s, !.dto.driver = d]
<1>1. PICK s \in Survey : /\ surveys[s].state = "absent"
                          /\ surveys' = [surveys EXCEPT ![s] = row]
                          /\ call' = [call EXCEPT ![c] = held(s)]
  BY DEF SurveyCreate
<1>2. row.state = "live" /\ row.order = None
  BY DEF AbsentRow
<1>3. held(s).phase = "notify" /\ held(s).survey = s
  BY DEF IdleCall
<1>4. leads' = leads /\ leads \subseteq Order /\ None \notin Order
  BY SurveyConstants DEF SurveyCreate, SurveysTypeOK
<1>5. surveys \in [Survey -> SurveyRow] /\ call \in [Caller -> Call]
  BY DEF SurveysTypeOK
<1> HIDE DEF row, held
<1>6. AbsentPending' /\ OneOfAType'
  BY <1>1, <1>2, <1>5 DEF AbsentPending, OneOfAType
<1>7. ASSUME NEW p \in Survey, NEW q \in Survey, Pair(p, q)'
      PROVE  PairWaits(p, q)'
  <2>1. Pair(p, q) /\ p # s /\ q # s
    BY <1>1, <1>2, <1>4, <1>5, <1>7 DEF Pair, Live
  <2> QED
    BY <1>1, <1>3, <1>5, <2>1 DEF PairsWait, PairWaits
<1>8. ASSUME NEW b \in Caller PROVE CallHolds(b)'
  BY CallHolds(b), <1>1, <1>2, <1>3, <1>5 DEF CallHolds
<1> QED
  BY <1>6, <1>7, <1>8 DEF PairsWait

\* Re-assignments and date changes: no type changes, nor does a status.
LEMMA UpdateStands ==
  ASSUME "retype" \notin SurveyOps, StandInv, NEW c \in Caller,
         \/ \E s \in Survey, dto \in SurveyDto : SurveyUpdate(c, s, dto)
         \/ SurveyUpdateWrite(c)
  PROVE  AbsentPending' /\ OneOfAType' /\ PairsWait' /\ (\A b \in Caller : CallHolds(b)')
<1> USE DEF StandInv, SurveysInv
<1>1. ASSUME NEW s \in Survey, NEW dto \in SurveyDto, SurveyUpdate(c, s, dto)
      PROVE  AbsentPending' /\ OneOfAType' /\ PairsWait' /\ (\A b \in Caller : CallHolds(b)')
  <2> DEFINE held == [IdleCall EXCEPT !.phase = "update", !.survey = s, !.dto = dto]
  <2>1. held.phase = "update" /\ held.survey = s /\ held.dto = dto
    BY DEF IdleCall
  <2>2. call' = [call EXCEPT ![c] = held] /\ surveys' = surveys /\ leads' = leads
    BY <1>1 DEF SurveyUpdate
  <2>3. dto.type = Undefined /\ surveys[s].state # "absent"
    BY <1>1 DEF SurveyUpdate
  <2> HIDE DEF held
  <2>4. call'[c] = held /\ \A b \in Caller \ {c} : call'[b] = call[b]
    BY <2>2 DEF SurveysTypeOK
  <2> QED
    BY <2>1, <2>2, <2>3, <2>4, PairsStay
<1>2. ASSUME SurveyUpdateWrite(c)
      PROVE  AbsentPending' /\ OneOfAType' /\ PairsWait' /\ (\A b \in Caller : CallHolds(b)')
  <2> DEFINE s == call[c].survey
             row == Updated(surveys[s], call[c].dto)
  <2>1. s \in Survey /\ call[c].dto.type = Undefined /\ call[c].dto \in SurveyDto
    <3>1. call[c].phase = "update"
      BY <1>2 DEF SurveyUpdateWrite
    <3> QED
      BY <3>1 DEF CallsFit, CallHolds, SurveysTypeOK, Call
  <2>2. /\ row.state = surveys[s].state /\ row.order = surveys[s].order
        /\ row.type = surveys[s].type /\ row.status = surveys[s].status
    BY <2>1 DEF Updated, Given, SurveysTypeOK, SurveyRow
  <2>3. surveys' = [surveys EXCEPT ![s] = row] /\ leads' = leads /\ call' = [call EXCEPT ![c] = IdleCall]
    BY <1>2 DEF SurveyUpdateWrite
  <2>4. IdleCall.phase = "idle"
    BY DEF IdleCall
  <2> HIDE DEF s, row
  <2>5. \A r \in Survey : /\ surveys'[r].state = surveys[r].state /\ surveys'[r].type = surveys[r].type
                          /\ surveys'[r].order = surveys[r].order /\ surveys'[r].status = surveys[r].status
    BY <2>1, <2>2, <2>3 DEF SurveysTypeOK
  <2>6. call'[c] = IdleCall /\ \A b \in Caller \ {c} : call'[b] = call[b]
    BY <2>3 DEF SurveysTypeOK
  <2> QED
    BY <2>3, <2>4, <2>5, <2>6, PairsStay
<1> QED
  BY <1>1, <1>2

\* Logs: no log of a pair passes the check, and the ones that passed it before
\* are of other surveys.
LEMMA LogStands ==
  ASSUME StandInv, NEW c \in Caller,
         \/ \E s \in Survey, kind \in LogType : SurveyLog(c, s, kind)
         \/ SurveyLogStatus(c)
  PROVE  AbsentPending' /\ OneOfAType' /\ PairsWait' /\ (\A b \in Caller : CallHolds(b)')
<1> USE DEF StandInv, SurveysInv
<1>1. ASSUME NEW s \in Survey, NEW kind \in LogType, SurveyLog(c, s, kind)
      PROVE  AbsentPending' /\ OneOfAType' /\ PairsWait' /\ (\A b \in Caller : CallHolds(b)')
  <2> DEFINE held == [IdleCall EXCEPT !.phase = "log_status", !.survey = s, !.kind = kind]
  <2>1. held.phase = "log_status" /\ held.survey = s
    BY DEF IdleCall
  <2>2. call' = [call EXCEPT ![c] = held] /\ surveys' = surveys /\ leads' = leads
    BY <1>1 DEF SurveyLog
  <2>3. Live(s) /\ DeliveryDoneFirst(s)
    BY <1>1 DEF SurveyLog
  <2>4. \A p, q \in Survey : Pair(p, q) => s \notin {p, q}
    BY <2>3, PairIsRefused
  <2> HIDE DEF held
  <2>5. call'[c] = held /\ \A b \in Caller \ {c} : call'[b] = call[b]
    BY <2>2 DEF SurveysTypeOK
  <2>6. surveys[s].state # "absent"
    BY <2>3 DEF Live
  <2> QED
    BY <2>1, <2>2, <2>4, <2>5, <2>6, PairsStay
<1>2. ASSUME SurveyLogStatus(c)
      PROVE  AbsentPending' /\ OneOfAType' /\ PairsWait' /\ (\A b \in Caller : CallHolds(b)')
  <2> DEFINE s == call[c].survey
             status == StatusAfter(call[c].kind)
  <2>1. s \in Survey /\ call[c].phase = "log_status"
    BY <1>2 DEF SurveyLogStatus, CallsFit
  <2>2. surveys[s].state # "absent"
    BY <2>1 DEF CallHolds
  <2>3. surveys' = [surveys EXCEPT ![s].status = status] /\ leads' = leads
    BY <1>2 DEF SurveyLogStatus
  <2>4. \A r \in Survey :
          /\ surveys'[r].state = surveys[r].state /\ surveys'[r].type = surveys[r].type
          /\ surveys'[r].order = surveys[r].order
          /\ r # s => surveys'[r].status = surveys[r].status
    BY <2>1, <2>3 DEF SurveysTypeOK, SurveyRow
  <2>5. /\ call'[c].phase = "log_insert" /\ call'[c].survey = s
        /\ \A b \in Caller \ {c} : call'[b] = call[b]
    BY <1>2 DEF SurveyLogStatus, SurveysTypeOK, Call
  <2>6. ASSUME NEW p \in Survey, NEW q \in Survey, Pair(p, q)'
        PROVE  PairWaits(p, q)'
    <3>1. Pair(p, q)
      BY <2>3, <2>4, <2>6 DEF Pair, Live
    <3>2. s \notin {p, q} /\ PairWaits(p, q)
      BY <2>1, <3>1 DEF PairsWait, PairWaits
    <3> QED
      BY <2>4, <2>5, <3>2 DEF PairWaits
  <2> HIDE DEF s, status
  <2>7. AbsentPending' /\ OneOfAType'
    BY <2>1, <2>2, <2>4 DEF AbsentPending, OneOfAType
  <2>8. ASSUME NEW b \in Caller PROVE CallHolds(b)'
    <3>1. CASE b = c
      BY <2>1, <2>2, <2>4, <2>5, <3>1 DEF CallHolds
    <3>2. CASE b # c
      BY CallHolds(b), <2>4, <2>5, <3>2 DEF CallHolds, CallsFit
    <3> QED
      BY <3>1, <3>2
  <2> QED
    BY <2>6, <2>7, <2>8 DEF PairsWait
<1> QED
  BY <1>1, <1>2

\* Handlers that end, failed or not, and removals.
LEMMA EndStands ==
  ASSUME StandInv,
         \/ \E c \in Caller : SurveyCreateNotify(c) \/ SurveyLogInsert(c) \/ SurveyCallFails(c)
         \/ \E s \in Survey : SurveyRemove(s)
  PROVE  AbsentPending' /\ OneOfAType' /\ PairsWait' /\ (\A b \in Caller : CallHolds(b)')
<1> USE DEF StandInv, SurveysInv
<1>1. ASSUME NEW c \in Caller, SurveyCreateNotify(c) \/ SurveyLogInsert(c) \/ SurveyCallFails(c)
      PROVE  AbsentPending' /\ OneOfAType' /\ PairsWait' /\ (\A b \in Caller : CallHolds(b)')
  <2>1. IdleCall.phase = "idle"
    BY DEF IdleCall
  <2>2. /\ surveys' = surveys /\ leads' = leads
        /\ call'[c] = IdleCall /\ \A b \in Caller \ {c} : call'[b] = call[b]
    BY <1>1 DEF SurveyCreateNotify, SurveyLogInsert, SurveyCallFails, SurveysTypeOK
  <2> QED
    BY <2>1, <2>2, PairsStay
<1>2. ASSUME NEW s \in Survey, SurveyRemove(s)
      PROVE  AbsentPending' /\ OneOfAType' /\ PairsWait' /\ (\A b \in Caller : CallHolds(b)')
  <2>1. /\ leads' = leads /\ call' = call /\ surveys[s].state = "live"
        /\ \A r \in Survey :
             /\ surveys'[r].type = surveys[r].type /\ surveys'[r].order = surveys[r].order
             /\ surveys'[r].status = surveys[r].status
             /\ surveys'[r].state = IF r = s THEN "deleted" ELSE surveys[r].state
    BY <1>2 DEF SurveyRemove, Live, SurveysTypeOK, SurveyRow
  <2> QED
    BY <2>1, PairsStay
<1> QED
  BY <1>1, <1>2

\* The steps on the orders: a new pair, or rows that go.
LEMMA LeadStands ==
  ASSUME StandInv, LeadNext
  PROVE  AbsentPending' /\ OneOfAType' /\ PairsWait' /\ (\A b \in Caller : CallHolds(b)')
<1> USE DEF StandInv, SurveysInv
<1>1. ASSUME NEW o \in Order, NEW d \in RequestDriver, NEW e \in RequestDriver, LeadSaved(o, d, e)
      PROVE  AbsentPending' /\ OneOfAType' /\ PairsWait' /\ (\A b \in Caller : CallHolds(b)')
  <2> DEFINE delivery == RequestRow(o, "delivery", d)
             pickUp == RequestRow(o, "pick_up", e)
  <2>1. PICK r1 \in Unused, r2 \in Unused :
          r1 # r2 /\ surveys' = [surveys EXCEPT ![r1] = delivery, ![r2] = pickUp]
    BY <1>1 DEF LeadSaved, InsertRequests
  <2>2. /\ delivery.state = "live" /\ pickUp.state = "live"
        /\ delivery.order = o /\ pickUp.order = o
        /\ delivery.type = "delivery" /\ pickUp.type = "pick_up"
        /\ delivery.status = "pending" /\ pickUp.status = "pending"
    BY DEF RequestRow, AbsentRow
  <2>3. /\ leads' = leads \cup {o} /\ call' = call
        /\ \A s \in Survey : surveys[s].order # o
    BY <1>1 DEF LeadSaved
  <2>4. r1 \in Survey /\ r2 \in Survey
        /\ surveys[r1].state = "absent" /\ surveys[r2].state = "absent"
    BY DEF Unused
  <2> HIDE DEF delivery, pickUp
  <2>5. surveys'[r1] = delivery /\ surveys'[r2] = pickUp
        /\ \A s \in Survey \ {r1, r2} : surveys'[s] = surveys[s]
    BY <2>1, <2>4 DEF SurveysTypeOK
  <2>6. AbsentPending'
    BY <2>2, <2>5 DEF AbsentPending
  <2>7. ASSUME NEW s \in Survey, NEW r \in Survey,
               surveys'[s].state # "absent", surveys'[r].state # "absent",
               surveys'[s].order # None, surveys'[s].order = surveys'[r].order,
               surveys'[s].type = surveys'[r].type
        PROVE  s = r
    <3>1. CASE s \in {r1, r2}
      <4>1. r \in {r1, r2}
        BY <2>2, <2>3, <2>4, <2>5, <2>7, <3>1
      <4> QED
        BY <2>2, <2>4, <2>5, <2>7, <3>1, <4>1
    <3>2. CASE s \notin {r1, r2}
      <4>1. r \notin {r1, r2}
        BY <2>2, <2>3, <2>4, <2>5, <2>7, <3>2
      <4> QED
        BY <2>5, <2>7, <3>2, <4>1 DEF OneOfAType
    <3> QED
      BY <3>1, <3>2
  <2>8. ASSUME NEW c \in Caller, call[c].phase # "idle"
        PROVE  call[c].survey \in Survey \ {r1, r2}
    BY CallHolds(c), <2>4, <2>8 DEF CallHolds, CallsFit
  <2>9. ASSUME NEW p \in Survey, NEW q \in Survey, Pair(p, q)'
        PROVE  PairWaits(p, q)'
    <3>1. CASE p \in {r1, r2} \/ q \in {r1, r2}
      <4>1. p \in {r1, r2} /\ q \in {r1, r2}
        BY <2>2, <2>3, <2>4, <2>5, <2>9, <3>1 DEF Pair
      <4> QED
        BY <2>2, <2>3, <2>5, <2>8, <4>1 DEF PairWaits
    <3>2. CASE p \notin {r1, r2} /\ q \notin {r1, r2}
      <4>1. Pair(p, q)
        BY <2>3, <2>5, <2>9, <3>2 DEF Pair, Live
      <4> QED
        BY <2>3, <2>5, <3>2, <4>1 DEF PairsWait, PairWaits
    <3> QED
      BY <3>1, <3>2
  <2>10. ASSUME NEW c \in Caller PROVE CallHolds(c)'
    BY CallHolds(c), <2>3, <2>5, <2>8 DEF CallHolds
  <2> QED
    BY <2>6, <2>7, <2>9, <2>10 DEF OneOfAType, PairsWait
<1>2. ASSUME NEW o \in Order, LeadDeleted(o) \/ RemoveByOrderId(o)
      PROVE  AbsentPending' /\ OneOfAType' /\ PairsWait' /\ (\A b \in Caller : CallHolds(b)')
  <2>1. /\ leads' \subseteq leads /\ call' = call
        /\ \A s \in Survey :
             /\ surveys'[s].type = surveys[s].type /\ surveys'[s].order = surveys[s].order
             /\ surveys'[s].status = surveys[s].status
             /\ \/ surveys'[s].state = surveys[s].state
                \/ surveys[s].state = "live" /\ surveys'[s].state = "deleted"
    <3>1. CASE LeadDeleted(o)
      BY <3>1 DEF LeadDeleted
    <3>2. CASE RemoveByOrderId(o)
      <4>1. \A s \in Survey : surveys[s] \in SurveyRow
        BY DEF SurveysTypeOK
      <4> QED
        BY <3>2, <4>1 DEF RemoveByOrderId, SoftDeleteRequests, Live, SurveyRow
    <3> QED
      BY <1>2, <3>1, <3>2
  <2> QED
    BY <2>1, PairsStay
<1> QED
  BY <1>1, <1>2 DEF LeadNext

\* Every step keeps the pairs where they are.
LEMMA StandStep ==
  ASSUME "retype" \notin SurveyOps, StandInv, [SurveysNext]_surveyVars
  PROVE  StandInv'
<1>1. CASE UNCHANGED surveyVars
  BY <1>1
  DEF surveyVars, StandInv, SurveysInv, SurveysTypeOK, CallsFit, AbsentPending, OneOfAType,
      PairsWait, PairWaits, Pair, Live, CallHolds
<1>2. CASE ControllerNext
  <2>1. SurveysInv'
    BY <1>2, ControllerKeepsTypes DEF StandInv
  <2>2. AbsentPending' /\ OneOfAType' /\ PairsWait' /\ (\A b \in Caller : CallHolds(b)')
    BY <1>2, CreateStands, UpdateStands, LogStands, EndStands DEF ControllerNext, HandlerStep
  <2> QED
    BY <2>1, <2>2 DEF StandInv
<1>3. CASE LeadNext
  BY <1>3, LeadsKeepTypes, LeadStands DEF StandInv
<1> QED
  BY <1>1, <1>2, <1>3 DEF SurveysNext

\* The invariant holds of the empty tables.
LEMMA StandInit ==
  ASSUME SurveysInit
  PROVE  StandInv
<1>1. AbsentPending /\ OneOfAType /\ PairsWait
  BY DEF SurveysInit, AbsentPending, OneOfAType, PairsWait, Pair, Live, AbsentRow
<1>2. \A c \in Caller : CallHolds(c)
  BY DEF SurveysInit, CallHolds, IdleCall
<1> QED
  BY <1>1, <1>2, SurveysInvInit DEF StandInv

\* While types are not changed, neither request of an order that has both moves:
\* for any number of requests served at the same time, any failure, any number
\* of orders and surveys, the check of log lets nothing past.
THEOREM RequestsCannotMove == "retype" \notin SurveyOps => (SurveysSpec => []RequestsStandStill)
<1> SUFFICES ASSUME "retype" \notin SurveyOps PROVE SurveysSpec => []RequestsStandStill
  OBVIOUS
<1>1. StandInv /\ [SurveysNext]_surveyVars => StandInv'
  BY StandStep
<1>2. StandInv => RequestsStandStill
  BY DEF StandInv, PairsWait, PairWaits, RequestsStandStill
<1> QED
  BY <1>1, <1>2, StandInit, PTL DEF SurveysSpec

-----------------------------------------------------------------------------
(* One request at a time: statuses *)

OneCaller == \A c, d \in Caller : c = d

\* A log of the kind may be written for s.
MayLog(s, kind) ==
  /\ surveys[s].state # "absent" /\ surveys[s].status # "done"
  /\ kind = "start" => surveys[s].status = "pending"

\* What log has checked still holds when it writes the status.
CallsSound ==
  \A c \in Caller : call[c].phase = "log_status" => MayLog(call[c].survey, call[c].kind)

OneCallerInv == SurveysInv /\ AbsentPending /\ CallsSound

\* What a step may do to the statuses.
Forward == \A s \in Survey : Rank(surveys'[s].status) >= Rank(surveys[s].status)

\* A step that leaves the status of every row as it is moves none back.
LEMMA SameStatus ==
  ASSUME SurveysTypeOK, \A s \in Survey : surveys'[s].status = surveys[s].status
  PROVE  Forward
<1> SUFFICES ASSUME NEW s \in Survey PROVE Rank(surveys'[s].status) >= Rank(surveys[s].status)
  BY DEF Forward
<1>1. surveys[s].status \in SurveyStatus
  BY DEF SurveysTypeOK, SurveyRow
<1>2. Rank(surveys[s].status) \in Nat
  BY <1>1 DEF Rank, SurveyStatus
<1> QED
  BY <1>2

\* The steps that write neither a status nor a log row; they start no log that the
\* checks refuse.
Others ==
  \/ LeadNext
  \/ \E s \in Survey : SurveyRemove(s)
  \/ \E c \in Caller :
       \/ \E type \in SurveyType, d \in Driver, t \in Start : SurveyCreate(c, type, d, t)
       \/ \E s \in Survey, dto \in SurveyDto : SurveyUpdate(c, s, dto)
       \/ \E s \in Survey, kind \in LogType : SurveyLog(c, s, kind)
       \/ SurveyCreateNotify(c) \/ SurveyUpdateWrite(c) \/ SurveyCallFails(c)

\* What the other steps leave alone.
Left ==
  /\ surveyLogs' = surveyLogs
  /\ \A s \in Survey : /\ surveys'[s].status = surveys[s].status
                       /\ surveys'[s].state = "absent" => surveys[s].state = "absent"
  /\ \A c \in Caller :
       \/ call'[c] = call[c]
       \/ /\ call'[c].phase # "log_insert"
          /\ call'[c].phase = "log_status" => MayLog(call'[c].survey, call'[c].kind)

\* A step that inserts rows where none were leaves the statuses, for a row that is
\* not there is pending.
LEMMA InsertionsLeave ==
  ASSUME SurveysInv, AbsentPending, Others,
         \/ \E c \in Caller, type \in SurveyType, d \in Driver, t \in Start :
              SurveyCreate(c, type, d, t)
         \/ \E o \in Order, d \in RequestDriver, e \in RequestDriver : LeadSaved(o, d, e)
  PROVE  Left
<1> USE DEF SurveysInv, SurveysTypeOK
<1>1. ASSUME NEW c \in Caller, NEW type \in SurveyType, NEW d \in Driver, NEW t \in Start,
             SurveyCreate(c, type, d, t)
      PROVE  Left
  <2> DEFINE row == [AbsentRow EXCEPT !.state = "live", !.type = type, !.driver = d, !.start = t]
             held(s) == [IdleCall EXCEPT !.phase = "notify", !.survey = s, !.dto.driver = d]
  <2>1. PICK s \in Survey : /\ surveys[s].state = "absent"
                            /\ surveys' = [surveys EXCEPT ![s] = row]
                            /\ call' = [call EXCEPT ![c] = held(s)]
    BY <1>1 DEF SurveyCreate
  <2>2. row.status = "pending" /\ held(s).phase = "notify"
    BY DEF AbsentRow, IdleCall
  <2>3. row.state = "live"
    BY DEF AbsentRow
  <2>4. surveys[s].status = "pending" /\ surveyLogs' = surveyLogs
    BY <1>1, <2>1 DEF AbsentPending, SurveyCreate
  <2> HIDE DEF row, held
  <2> QED
    BY <2>1, <2>2, <2>3, <2>4 DEF Left
<1>2. ASSUME NEW o \in Order, NEW d \in RequestDriver, NEW e \in RequestDriver, LeadSaved(o, d, e)
      PROVE  Left
  <2>1. PICK r1 \in Unused, r2 \in Unused :
          surveys' = [surveys EXCEPT ![r1] = RequestRow(o, "delivery", d),
                                     ![r2] = RequestRow(o, "pick_up", e)]
    BY <1>2 DEF LeadSaved, InsertRequests
  <2>2. ASSUME NEW type, NEW f
        PROVE  RequestRow(o, type, f).status = "pending" /\ RequestRow(o, type, f).state = "live"
    BY DEF RequestRow, AbsentRow
  <2>3. surveys[r1].status = "pending" /\ surveys[r2].status = "pending"
    BY DEF Unused, AbsentPending
  <2>4. call' = call /\ surveyLogs' = surveyLogs
    BY <1>2 DEF LeadSaved
  <2> QED
    BY <2>1, <2>2, <2>3, <2>4 DEF Left
<1> QED
  BY <1>1, <1>2

\* Nor do the steps that change handlers, drivers, dates and what is deleted.
LEMMA OthersLeave ==
  ASSUME SurveysInv, AbsentPending, Others
  PROVE  Left
<1> USE DEF SurveysInv, SurveysTypeOK
<1>idle. IdleCall.phase = "idle"
  BY DEF IdleCall
<1>1. ASSUME NEW c \in Caller, NEW s \in Survey, NEW dto \in SurveyDto, SurveyUpdate(c, s, dto)
      PROVE  Left
  <2> DEFINE held == [IdleCall EXCEPT !.phase = "update", !.survey = s, !.dto = dto]
  <2>1. held.phase = "update"
    BY DEF IdleCall
  <2>2. call' = [call EXCEPT ![c] = held] /\ surveys' = surveys /\ surveyLogs' = surveyLogs
    BY <1>1 DEF SurveyUpdate
  <2> HIDE DEF held
  <2> QED
    BY <2>1, <2>2 DEF Left
<1>2. ASSUME NEW c \in Caller, NEW s \in Survey, NEW kind \in LogType, SurveyLog(c, s, kind)
      PROVE  Left
  <2> DEFINE held == [IdleCall EXCEPT !.phase = "log_status", !.survey = s, !.kind = kind]
  <2>1. held.phase = "log_status" /\ held.survey = s /\ held.kind = kind
    BY DEF IdleCall
  <2>2. call' = [call EXCEPT ![c] = held] /\ surveys' = surveys /\ surveyLogs' = surveyLogs
    BY <1>2 DEF SurveyLog
  <2>3. MayLog(s, kind)
    BY <1>2 DEF SurveyLog, Live, ValidSurveyStatus, SurveyRow, SurveyStatus, MayLog
  <2> HIDE DEF held
  <2> QED
    BY <2>1, <2>2, <2>3 DEF Left
<1>3. ASSUME NEW c \in Caller, SurveyCreateNotify(c) \/ SurveyCallFails(c)
      PROVE  Left
  BY <1>idle, <1>3 DEF SurveyCreateNotify, SurveyCallFails, Left
<1>4. ASSUME NEW c \in Caller, SurveyUpdateWrite(c)
      PROVE  Left
  <2>1. PICK s \in Survey : s = call[c].survey
    BY <1>4 DEF SurveyUpdateWrite, CallsFit
  <2>2. /\ surveys' = [surveys EXCEPT ![s] = Updated(surveys[s], call[c].dto)]
        /\ call' = [call EXCEPT ![c] = IdleCall] /\ surveyLogs' = surveyLogs
    BY <1>4, <2>1 DEF SurveyUpdateWrite
  <2>3. ASSUME NEW row \in SurveyRow, NEW dto
        PROVE  Updated(row, dto).state = row.state /\ Updated(row, dto).status = row.status
    BY DEF Updated, SurveyRow
  <2> QED
    BY <1>idle, <2>2, <2>3 DEF Left
<1>5. ASSUME NEW s \in Survey, SurveyRemove(s)
      PROVE  Left
  BY <1>5 DEF SurveyRemove, SurveyRow, Left
<1>6. ASSUME NEW o \in Order, LeadDeleted(o)
      PROVE  Left
  BY <1>6 DEF LeadDeleted, Left
<1>7. ASSUME NEW o \in Order, RemoveByOrderId(o)
      PROVE  Left
  <2>1. \A s \in Survey : surveys[s] \in SurveyRow
    OBVIOUS
  <2> QED
    BY <1>7, <2>1 DEF RemoveByOrderId, SoftDeleteRequests, SurveyRow, Left
<1> QED
  BY <1>1, <1>2, <1>3, <1>4, <1>5, <1>6, <1>7, InsertionsLeave DEF Others, LeadNext

\* The status that is written follows the one that was checked, because the only
\* handler of the service is this one.
LEMMA LogStatusForward ==
  ASSUME OneCaller, OneCallerInv, NEW c \in Caller, SurveyLogStatus(c)
  PROVE  AbsentPending' /\ CallsSound' /\ Forward
<1> USE DEF OneCallerInv, SurveysInv
<1> DEFINE s == call[c].survey
           status == StatusAfter(call[c].kind)
<1>1. s \in Survey /\ call[c].kind \in LogType
  BY DEF SurveyLogStatus, CallsFit
<1>2. MayLog(s, call[c].kind)
  BY DEF SurveyLogStatus, CallsSound
<1>3. \A r \in Survey :
        /\ surveys'[r].state = surveys[r].state
        /\ surveys'[r].status = IF r = s THEN status ELSE surveys[r].status
  BY <1>1 DEF SurveyLogStatus, SurveysTypeOK, SurveyRow
<1>4. call'[c].phase = "log_insert"
  BY DEF SurveyLogStatus, SurveysTypeOK, Call
<1>5. AbsentPending'
  BY <1>2, <1>3 DEF AbsentPending, MayLog
<1>6. CallsSound'
  BY <1>4 DEF OneCaller, CallsSound
<1>7. ASSUME NEW r \in Survey
      PROVE  Rank(surveys'[r].status) >= Rank(surveys[r].status)
  <2>1. surveys[r].status \in SurveyStatus
    BY DEF SurveysTypeOK, SurveyRow
  <2>2. CASE r = s
    BY <1>1, <1>2, <1>3, <2>1, <2>2 DEF MayLog, Rank, StatusAfter, SurveyStatus, LogType
  <2>3. CASE r # s
    BY <1>3, <2>1, <2>3 DEF Rank, SurveyStatus
  <2> QED
    BY <2>2, <2>3
<1> QED
  BY <1>5, <1>6, <1>7 DEF Forward

\* Every step keeps the invariant and moves no status back.
LEMMA OneCallerStep ==
  ASSUME OneCaller, OneCallerInv, [SurveysNext]_surveyVars
  PROVE  OneCallerInv' /\ Forward
<1> USE DEF OneCallerInv
<1>1. CASE UNCHANGED surveyVars
  BY <1>1, SameStatus
  DEF surveyVars, SurveysInv, SurveysTypeOK, CallsFit, AbsentPending, CallsSound, MayLog
<1>2. CASE SurveysNext
  <2>1. SurveysInv'
    BY <1>2, ControllerKeepsTypes, LeadsKeepTypes DEF SurveysNext
  <2>2. CASE Others
    <3>1. Left
      BY <2>2, OthersLeave
    <3>2. AbsentPending'
      BY <3>1 DEF Left, AbsentPending
    <3>3. ASSUME NEW c \in Caller, call'[c].phase = "log_status"
          PROVE  MayLog(call[c].survey, call[c].kind)'
      <4>1. MayLog(call'[c].survey, call'[c].kind)
        BY <3>1, <3>3 DEF Left, CallsSound
      <4>2. call'[c].survey \in Survey
        BY <2>1, <3>3 DEF SurveysInv, CallsFit
      <4> QED
        BY <3>1, <4>1, <4>2 DEF Left, MayLog
    <3> QED
      BY <2>1, <3>1, <3>2, <3>3, SameStatus DEF Left, CallsSound, SurveysInv
  <2>3. ASSUME NEW c \in Caller, SurveyLogStatus(c)
        PROVE  OneCallerInv' /\ Forward
    BY <2>1, <2>3, LogStatusForward
  <2>4. ASSUME NEW c \in Caller, SurveyLogInsert(c)
        PROVE  OneCallerInv' /\ Forward
    <3>1. surveys' = surveys /\ \A d \in Caller : call'[d] = call[d] \/ call'[d].phase = "idle"
      BY <2>4 DEF SurveyLogInsert, IdleCall, SurveysInv, SurveysTypeOK
    <3> QED
      BY <2>1, <3>1, SameStatus DEF AbsentPending, CallsSound, MayLog, SurveysInv
  <2> QED
    BY <1>2, <2>2, <2>3, <2>4 DEF SurveysNext, ControllerNext, HandlerStep, Others
<1> QED
  BY <1>1, <1>2

\* The invariant holds of the empty tables.
LEMMA OneCallerInit ==
  ASSUME SurveysInit
  PROVE  OneCallerInv
<1>1. AbsentPending
  BY DEF SurveysInit, AbsentPending, AbsentRow
<1>2. CallsSound
  BY DEF SurveysInit, CallsSound, IdleCall
<1> QED
  BY <1>1, <1>2, SurveysInvInit DEF OneCallerInv

\* With one request of the service at a time no step takes a status back, over
\* any creations, updates of every kind, removals and failures.
THEOREM StatusMovesForward == OneCaller => (SurveysSpec => StatusNeverGoesBack)
<1> SUFFICES ASSUME OneCaller PROVE SurveysSpec => StatusNeverGoesBack
  OBVIOUS
<1>1. OneCallerInv /\ [SurveysNext]_surveyVars => OneCallerInv' /\ [Forward]_surveyVars
  BY OneCallerStep
<1> QED
  BY <1>1, OneCallerInit, PTL DEF SurveysSpec, StatusNeverGoesBack, Forward

-----------------------------------------------------------------------------
(* One request at a time: what the logs say *)

LogsOf(status) ==
  CASE status = "pending"     -> {<< >>}
    [] status = "on_progress" -> {<< >>, <<"start">>}
    [] status = "done"        -> {<< >>, <<"start">>, <<"end">>, <<"start", "end">>}

\* The status is written for this log, and no log that says as much is there.
Written(c) ==
  IF call[c].kind = "start"
    THEN surveys[call[c].survey].status = "on_progress" /\ surveyLogs[call[c].survey] = << >>
    ELSE /\ surveys[call[c].survey].status = "done"
         /\ surveyLogs[call[c].survey] \in {<< >>, <<"start">>}

Inserting(c) == call[c].phase = "log_insert"

LogsInv ==
  /\ \A s \in Survey : surveyLogs[s] \in LogsOf(surveys[s].status)
  /\ \A c \in Caller : Inserting(c) => Written(c)

\* Appending to the sequences of logs that are there.
LEMMA LogsAppended ==
  /\ Append(<< >>, "start") = <<"start">>
  /\ Append(<< >>, "end") = <<"end">>
  /\ Append(<<"start">>, "end") = <<"start", "end">>
<1>1. Append(<< >>, "start") = <<"start">>
  OBVIOUS
<1>2. Append(<< >>, "end") = <<"end">>
  OBVIOUS
<1>3. Append(<<"start">>, "end") = <<"start", "end">>
  <2> DEFINE a == Append(<<"start">>, "end")
             b == <<"start", "end">>
  <2>1. a \in Seq(LogType) /\ b \in Seq(LogType)
    BY <<"start">> \in Seq(LogType) DEF LogType
  <2>2. Len(a) = 2 /\ Len(b) = 2
    OBVIOUS
  <2>3. a[1] = "start" /\ a[2] = "end" /\ b[1] = "start" /\ b[2] = "end"
    OBVIOUS
  <2> HIDE DEF a, b
  <2>4. \A i \in 1..Len(a) : a[i] = b[i]
    BY <2>2, <2>3
  <2>5. a = b
    BY <2>1, <2>2, <2>4, SeqEqual
  <2> QED
    BY <2>5 DEF a, b
<1> QED
  BY <1>1, <1>2, <1>3

\* The two halves of log: the status, then the log row.
LEMMA LogKeepsLogs ==
  ASSUME OneCaller, OneCallerInv, LogsInv, NEW c \in Caller,
         SurveyLogStatus(c) \/ SurveyLogInsert(c)
  PROVE  LogsInv'
<1> USE DEF OneCallerInv, SurveysInv
<1>1. PICK s \in Survey, kind \in LogType : s = call[c].survey /\ kind = call[c].kind
  BY DEF SurveyLogStatus, SurveyLogInsert, CallsFit
<1>one. \A d \in Caller : d = c
  BY DEF OneCaller
<1>2. ASSUME SurveyLogStatus(c)
      PROVE  LogsInv'
  <2>1. MayLog(s, kind)
    BY <1>1, <1>2 DEF SurveyLogStatus, CallsSound
  <2>2. surveys[s].status \in SurveyStatus
    BY <1>1 DEF SurveysTypeOK, SurveyRow
  <2>3. /\ surveyLogs' = surveyLogs
        /\ \A r \in Survey :
             surveys'[r].status = IF r = s THEN StatusAfter(kind) ELSE surveys[r].status
        /\ call'[c].phase = "log_insert" /\ call'[c].survey = s /\ call'[c].kind = kind
    <3>1. \A r \in Survey : surveys[r] \in SurveyRow
      BY DEF SurveysTypeOK
    <3> QED
      BY <1>1, <1>2, <3>1 DEF SurveyLogStatus, SurveysTypeOK, SurveyRow, Call
  <2>4. surveyLogs[s] \in LogsOf(surveys[s].status)
    BY <1>1 DEF LogsInv
  <2>5. surveyLogs[s] \in LogsOf(StatusAfter(kind)) /\ Written(c)'
    <3>1. CASE kind = "start"
      <4>1. surveyLogs[s] = << >>
        BY <2>1, <2>4, <3>1 DEF LogsOf, MayLog
      <4> QED
        BY <1>1, <2>3, <3>1, <4>1 DEF LogsOf, Written, StatusAfter
    <3>2. CASE kind # "start"
      <4>1. surveyLogs[s] \in {<< >>, <<"start">>}
        BY <2>1, <2>2, <2>4 DEF LogsOf, MayLog, SurveyStatus
      <4> QED
        BY <1>1, <2>3, <3>2, <4>1 DEF LogsOf, Written, StatusAfter
    <3> QED
      BY <3>1, <3>2
  <2>6. \A r \in Survey : surveyLogs'[r] \in LogsOf(surveys'[r].status)
    BY <2>3, <2>5 DEF LogsInv
  <2> QED
    BY <1>one, <2>5, <2>6 DEF LogsInv
<1>3. ASSUME SurveyLogInsert(c)
      PROVE  LogsInv'
  <2>1. Written(c)
    BY <1>3 DEF LogsInv, SurveyLogInsert, Inserting
  <2>2. /\ surveys' = surveys /\ call'[c].phase = "idle"
        /\ \A r \in Survey :
             surveyLogs'[r] = IF r = s THEN Append(surveyLogs[s], kind) ELSE surveyLogs[r]
    <3>1. IdleCall.phase = "idle"
      BY DEF IdleCall
    <3> QED
      BY <1>1, <1>3, <3>1 DEF SurveyLogInsert, LoggedType, SurveysTypeOK
  <2>3. /\ kind = "start" => surveys[s].status = "on_progress" /\ surveyLogs'[s] = <<"start">>
        /\ kind = "end" => /\ surveys[s].status = "done"
                           /\ surveyLogs'[s] \in {<<"end">>, <<"start", "end">>}
    BY <1>1, <2>1, <2>2, LogsAppended DEF Written
  <2>4. surveyLogs'[s] \in LogsOf(surveys'[s].status)
    BY <1>1, <2>2, <2>3 DEF LogsOf, LogType
  <2>5. \A r \in Survey : surveyLogs'[r] \in LogsOf(surveys'[r].status)
    BY <2>2, <2>4 DEF LogsInv
  <2> QED
    BY <1>one, <2>2, <2>5 DEF LogsInv, Inserting
<1> QED
  BY <1>2, <1>3

\* The logs stay in line over every step.
LEMMA LogsStep ==
  ASSUME OneCaller, OneCallerInv, LogsInv, [SurveysNext]_surveyVars
  PROVE  LogsInv'
<1>1. CASE UNCHANGED surveyVars
  BY <1>1 DEF surveyVars, LogsInv, Inserting, Written
<1>2. CASE Others
  <2>1. Left
    BY <1>2, OthersLeave DEF OneCallerInv
  <2>2. ASSUME NEW c \in Caller, Inserting(c)'
        PROVE  Written(c)'
    <3>1. call'[c] = call[c] /\ Inserting(c)
      BY <2>1, <2>2 DEF Left, Inserting
    <3>2. call[c].survey \in Survey
      BY <3>1 DEF Inserting, OneCallerInv, SurveysInv, CallsFit
    <3> QED
      BY <2>1, <3>1, <3>2 DEF LogsInv, Written, Left
  <2> QED
    BY <2>1, <2>2 DEF LogsInv, Left
<1>3. ASSUME NEW c \in Caller, SurveyLogStatus(c) \/ SurveyLogInsert(c)
      PROVE  LogsInv'
  BY <1>3, LogKeepsLogs
<1> QED
  BY <1>1, <1>2, <1>3 DEF SurveysNext, ControllerNext, HandlerStep, Others

\* Nothing is logged of rows that are not there.
LEMMA LogsInit ==
  ASSUME SurveysInit
  PROVE  LogsInv
<1>1. \A s \in Survey : surveys[s].status = "pending" /\ surveyLogs[s] = << >>
  BY DEF SurveysInit, AbsentRow
<1>2. \A c \in Caller : ~Inserting(c)
  BY DEF SurveysInit, IdleCall, Inserting
<1> QED
  BY <1>1, <1>2 DEF LogsInv, LogsOf

\* What is in line says no end before a start.
LEMMA LogsInOrder ==
  ASSUME SurveysTypeOK, LogsInv
  PROVE  ProgressNotNegative
<1> SUFFICES ASSUME NEW s \in Survey, NEW i \in DOMAIN surveyLogs[s], NEW j \in DOMAIN surveyLogs[s],
                    surveyLogs[s][i] = "start", surveyLogs[s][j] = "end"
             PROVE  i < j
  BY DEF ProgressNotNegative
<1>1. surveys[s].status \in SurveyStatus
  BY DEF SurveysTypeOK, SurveyRow
<1>2. surveyLogs[s] \in {<< >>, <<"start">>, <<"end">>, <<"start", "end">>}
  BY <1>1 DEF LogsInv, LogsOf, SurveyStatus
<1>3. CASE surveyLogs[s] = << >>
  BY <1>3
<1>4. CASE surveyLogs[s] = <<"start">>
  BY <1>4
<1>5. CASE surveyLogs[s] = <<"end">>
  BY <1>5
<1>6. CASE surveyLogs[s] = <<"start", "end">>
  BY <1>6
<1> QED
  BY <1>2, <1>3, <1>4, <1>5, <1>6

\* With one request of the service at a time no survey takes a negative time,
\* whatever fails between a status and its log row, for any number of surveys
\* and orders.
THEOREM ProgressIsNotNegative == OneCaller => (SurveysSpec => []ProgressNotNegative)
<1> SUFFICES ASSUME OneCaller PROVE SurveysSpec => []ProgressNotNegative
  OBVIOUS
<1>1. OneCallerInv /\ LogsInv /\ [SurveysNext]_surveyVars => OneCallerInv' /\ LogsInv'
  BY OneCallerStep, LogsStep
<1>2. OneCallerInv /\ LogsInv => ProgressNotNegative
  BY LogsInOrder DEF OneCallerInv, SurveysInv
<1> QED
  BY <1>1, <1>2, OneCallerInit, LogsInit, PTL DEF SurveysSpec

\* What is in line runs ahead of no status.
LEMMA LogsBehind ==
  ASSUME SurveysTypeOK, LogsInv
  PROVE  LogsNeverAhead
<1> SUFFICES ASSUME NEW s \in Survey, NEW i \in DOMAIN surveyLogs[s], NEW j \in DOMAIN surveyLogs[s]
             PROVE  /\ surveyLogs[s][i] = "end" => surveys[s].status = "done"
                    /\ surveyLogs[s][i] = "start" => surveys[s].status # "pending"
                    /\ surveyLogs[s][i] = surveyLogs[s][j] => i = j
  BY DEF LogsNeverAhead
<1>1. surveys[s].status \in SurveyStatus
  BY DEF SurveysTypeOK, SurveyRow
<1>2. /\ surveyLogs[s] \in LogsOf(surveys[s].status)
      /\ surveyLogs[s] \in {<< >>, <<"start">>, <<"end">>, <<"start", "end">>}
  BY <1>1 DEF LogsInv, LogsOf, SurveyStatus
<1>3. CASE surveyLogs[s] = << >>
  BY <1>3
<1>4. CASE surveyLogs[s] = <<"start">>
  <2>1. i = 1 /\ j = 1 /\ surveyLogs[s][i] = "start"
    BY <1>4
  <2>2. surveys[s].status # "pending"
    <3>1. <<"start">> # << >>
      OBVIOUS
    <3> QED
      BY <1>2, <1>4, <3>1 DEF LogsOf
  <2> QED
    BY <2>1, <2>2
<1>5. CASE surveyLogs[s] = <<"end">> \/ surveyLogs[s] = <<"start", "end">>
  <2>1. surveyLogs[s][i] = surveyLogs[s][j] => i = j
    BY <1>5
  <2>2. surveys[s].status = "done"
    <3>1. /\ <<"end">> # << >> /\ <<"end">> # <<"start">>
          /\ <<"start", "end">> # << >> /\ <<"start", "end">> # <<"start">>
      OBVIOUS
    <3> QED
      BY <1>1, <1>2, <1>5, <3>1 DEF LogsOf, SurveyStatus
  <2> QED
    BY <2>1, <2>2
<1> QED
  BY <1>2, <1>3, <1>4, <1>5

\* Under the same assumption no log row runs ahead of its status, whatever fails
\* between the two and is tried again.
THEOREM LogsFollowStatus == OneCaller => (SurveysSpec => []LogsNeverAhead)
<1> SUFFICES ASSUME OneCaller PROVE SurveysSpec => []LogsNeverAhead
  OBVIOUS
<1>1. OneCallerInv /\ LogsInv /\ [SurveysNext]_surveyVars => OneCallerInv' /\ LogsInv'
  BY OneCallerStep, LogsStep
<1>2. OneCallerInv /\ LogsInv => LogsNeverAhead
  BY LogsBehind DEF OneCallerInv, SurveysInv
<1> QED
  BY <1>1, <1>2, OneCallerInit, LogsInit, PTL DEF SurveysSpec
=============================================================================
