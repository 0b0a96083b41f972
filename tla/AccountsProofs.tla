--------------------------- MODULE AccountsProofs ---------------------------
(***************************************************************************)
(* Proofs about module Accounts, for every number of users, tokens,        *)
(* devices and concurrent requests.  One inductive invariant, AccountsInv, *)
(* says what a handler may rely on after an await; the properties follow.  *)
(***************************************************************************)
EXTENDS Accounts, TLAPS

\* A save() of a loaded row keeps the row's state and gives it columns again; the
\* password is the entity's one when the entity has one.
LEMMA WrittenRow ==
  ASSUME NEW old \in UserRow, NEW entity \in UserColumns
  PROVE  /\ Written(old, entity) \in UserRow
         /\ Written(old, entity).state = old.state
         /\ Written(old, entity).columns.password
              = IF entity.password = None THEN old.columns.password ELSE entity.password
BY SMT DEF Written, UserRow, UserColumns

-----------------------------------------------------------------------------
(* Types *)

\* A handler that will still write on behalf of an account knows the account.
Writing == {"find_device", "save_device", "save_user", "save_token"}

HandlersHaveUsers ==
  \A r \in Request : request[r].phase \in Writing => request[r].user \in User

TypedInv == AccountsTypeOK /\ HandlersHaveUsers

\* What a handler holds after a step is well typed, whichever await it reached.
LEMMA HandlerShapes ==
  ASSUME NEW u \in User
  PROVE  /\ Blank \in UserColumns
         /\ Idle \in Held /\ Idle.phase = "idle"
         /\ \A push \in Push, signed \in BOOLEAN :
              LET h == [Idle EXCEPT !.phase = "find_device", !.user = u, !.push = push,
                                    !.signed = signed]
              IN  h \in Held /\ h.user = u
         /\ \A push \in Push :
              LET h == [Idle EXCEPT !.phase = "find_device", !.user = u, !.push = push]
              IN  h \in Held /\ h.user = u
         /\ LET h == [Idle EXCEPT !.phase = "save_token", !.user = u]
            IN  h \in Held /\ h.user = u
         /\ \A t \in Token :
              LET h == [Idle EXCEPT !.phase = "delete_token", !.token = t]
              IN  h \in Held /\ h.phase = "delete_token"
BY DEF Held, Idle, Phase, Blank, UserColumns

\* The step of one handler leaves what the others hold alone.
LEMMA OneHandlerSteps ==
  ASSUME TypedInv, NEW r \in Request, NEW h \in Held,
         h.phase \in Writing => h.user \in User,
         request' = [request EXCEPT ![r] = h]
  PROVE  request' \in [Request -> Held] /\ HandlersHaveUsers'
BY DEF TypedInv, AccountsTypeOK, HandlersHaveUsers

\* The first state is well typed.
LEMMA AccountsTypesInit == AccountsInit => TypedInv
BY AccountConstants DEF AccountsInit, TypedInv, HandlersHaveUsers, Writing, AccountsTypeOK,
   UserRow, UserTokenRow, DeviceRow, Held, Idle, Phase, Blank, UserColumns

\* One step of any handler keeps the types.
LEMMA AccountsTypesNext == TypedInv /\ [AccountsNext]_accountVars => TypedInv'
<1> SUFFICES ASSUME TypedInv, [AccountsNext]_accountVars
             PROVE  TypedInv'
  OBVIOUS
<1> USE DEF TypedInv, AccountsTypeOK
<1>b. ASSUME NEW r \in Request, Finish(r)
      PROVE  request' \in [Request -> Held] /\ HandlersHaveUsers'
  <2>1. Idle \in Held /\ Idle.phase = "idle"
    BY DEF Idle, Held, Phase, Blank, UserColumns
  <2>2. QED  BY <1>b, <2>1, OneHandlerSteps DEF Finish, Writing
<1>c. ASSUME NEW u \in User, NEW columns \in Dtos, InsertUser(u, columns)
      PROVE  users' \in [User -> UserRow]
  BY <1>c, AccountConstants DEF InsertUser, UserRow
<1>d. ASSUME NEW r \in Request, NEW u \in User, NEW push \in Push \cup {None},
             InsertToken(r, u, push)
      PROVE  /\ sessions' \subseteq Session
             /\ request' \in [Request -> Held]
             /\ HandlersHaveUsers'
  <2>1. CASE push = None
    BY <1>b, <1>d, <2>1 DEF InsertToken, Session
  <2>2. CASE push # None
    <3> DEFINE h == [Idle EXCEPT !.phase = "find_device", !.user = u, !.push = push]
    <3>1. h \in Held /\ h.user = u
      BY <2>2, HandlerShapes
    <3>2. request' = [request EXCEPT ![r] = h] /\ sessions' = sessions
      BY <1>d, <2>2 DEF InsertToken
    <3> HIDE DEF h
    <3>3. QED  BY <3>1, <3>2, OneHandlerSteps
  <2>3. QED  BY <2>1, <2>2
<1>1. ASSUME NEW r \in Request, NEW u \in User, NEW columns \in Dtos,
             NEW push \in Push \cup {None}, Register(r, u, columns, push)
      PROVE  TypedInv'
  BY <1>1, <1>c, <1>d DEF Register
<1>2. ASSUME NEW r \in Request, NEW u \in User, NEW email \in Email,
             NEW password \in Password, NEW push \in Push \cup {None},
             Login(r, u, email, password, push)
      PROVE  TypedInv'
  BY <1>2, <1>d DEF Login
<1>3. ASSUME NEW r \in Request, NEW s \in sessions, NEW push \in Push \cup {None},
             Me(r, s, push)
      PROVE  TypedInv'
  <2>1. s.user \in User
    BY DEF Session
  <2>2. CASE push = None
    BY <1>3, <1>d, <2>1, <2>2 DEF Me
  <2>3. CASE push # None
    <3> DEFINE h == [Idle EXCEPT !.phase = "find_device", !.user = s.user, !.push = push,
                                 !.signed = TRUE]
    <3>1. h \in Held /\ h.user = s.user
      BY <2>1, <2>3, HandlerShapes
    <3>2. request' = [request EXCEPT ![r] = h] /\ sessions' = sessions
      BY <1>3, <2>3 DEF Me
    <3> HIDE DEF h
    <3>3. request' \in [Request -> Held] /\ HandlersHaveUsers'
      BY <2>1, <3>1, <3>2, OneHandlerSteps
    <3>4. QED  BY <1>3, <3>2, <3>3 DEF Me
  <2>4. QED  BY <2>2, <2>3
<1>4. ASSUME NEW r \in Request, NEW u \in User, NEW asked \in Dtos, UpdateRead(r, u, asked)
      PROVE  TypedInv'
  <2> DEFINE h == [Idle EXCEPT !.phase = "save_user", !.user = u, !.asked = asked,
                               !.entity = asked]
  <2>1. h \in Held /\ h.user = u
    <3>1. asked \in UserColumns /\ Idle \in Held
      BY AccountConstants, HandlerShapes
    <3>2. QED  BY <3>1 DEF Held, Phase
  <2>2. request' = [request EXCEPT ![r] = h]
    BY <1>4 DEF UpdateRead, Edited
  <2> HIDE DEF h
  <2>3. request' \in [Request -> Held] /\ HandlersHaveUsers'
    BY <2>1, <2>2, OneHandlerSteps
  <2>4. QED  BY <1>4, <2>3 DEF UpdateRead
<1>5. ASSUME NEW r \in Request, NEW u \in User, Forgot(r, u)
      PROVE  TypedInv'
  <2> DEFINE h == [Idle EXCEPT !.phase = "save_token", !.user = u]
  <2>1. h \in Held /\ h.user = u
    BY HandlerShapes
  <2>2. request' = [request EXCEPT ![r] = h]
    BY <1>5 DEF Forgot
  <2> HIDE DEF h
  <2>3. request' \in [Request -> Held] /\ HandlersHaveUsers'
    BY <2>1, <2>2, OneHandlerSteps
  <2>4. QED  BY <1>5, <2>3 DEF Forgot
<1>6. ASSUME NEW r \in Request, NEW t \in Token, NEW password \in Password,
             Reset(r, t, password)
      PROVE  TypedInv'
  <2> DEFINE u == tokens[t].user
             asked == [Blank EXCEPT !.password = password]
             entity == [Blank EXCEPT !.name = users[u].columns.name, !.password = password]
             h == [Idle EXCEPT !.phase = "save_user", !.user = u, !.token = t,
                               !.asked = asked, !.entity = entity]
  <2>1. u \in User
    BY <1>6 DEF Reset, ValidToken
  <2>2. users[u].columns \in UserColumns
    BY <2>1 DEF UserRow
  <2>3. asked \in UserColumns /\ entity \in UserColumns
    BY <2>2 DEF UserColumns, Blank
  <2>4. request' = [request EXCEPT ![r] = h]
    BY <1>6 DEF Reset
  <2> HIDE DEF u, asked, entity
  <2>5. h \in Held /\ h.user = u
    <3>1. Idle \in Held
      BY <2>1, HandlerShapes
    <3>2. QED  BY <2>1, <2>3, <3>1 DEF Held, Phase
  <2> HIDE DEF h
  <2>6. request' \in [Request -> Held] /\ HandlersHaveUsers'
    BY <2>1, <2>4, <2>5, OneHandlerSteps
  <2>7. QED  BY <1>6, <2>6 DEF Reset
<1>7. ASSUME NEW r \in Request, DeviceFind(r)
      PROVE  TypedInv'
  <2>1. PICK d \in Device \cup {None} :
          request' = [request EXCEPT ![r].phase = "save_device", ![r].device = d]
    BY <1>7 DEF DeviceFind, DevicesOf
  <2> DEFINE h == [request[r] EXCEPT !.phase = "save_device", !.device = d]
  <2>2. request[r] \in Held /\ request[r].user \in User
    BY <1>7 DEF DeviceFind, HandlersHaveUsers, Writing
  <2>3. h \in Held /\ h.user = request[r].user
    BY <2>2 DEF Held, Phase
  <2>4. request' = [request EXCEPT ![r] = h]
    BY <2>1
  <2> HIDE DEF h
  <2>5. request' \in [Request -> Held] /\ HandlersHaveUsers'
    BY <2>2, <2>3, <2>4, OneHandlerSteps
  <2>6. QED  BY <1>7, <2>5 DEF DeviceFind
<1>8. ASSUME NEW r \in Request, DeviceSave(r)
      PROVE  TypedInv'
  <2>1. request[r] \in Held /\ request[r].user \in User
    BY <1>8 DEF DeviceSave, HandlersHaveUsers, Writing
  <2>2. devices' \in [Device -> DeviceRow]
    BY <1>8, <2>1 DEF DeviceSave, DeviceRow, Held
  <2>3. sessions' \subseteq Session
    BY <1>8, <2>1 DEF DeviceSave, Session, Held
  <2>4. QED  BY <1>8, <1>b, <2>2, <2>3 DEF DeviceSave
<1>9. ASSUME NEW r \in Request, UserSave(r)
      PROVE  TypedInv'
  <2> DEFINE u == request[r].user
             t == request[r].token
  <2>1. u \in User /\ t \in Token \cup {None} /\ request[r].entity \in UserColumns
    BY <1>9 DEF UserSave, HandlersHaveUsers, Writing, Held
  <2>2. Written(users[u], request[r].entity) \in UserRow
    BY <2>1, WrittenRow
  <2>3. users' = [users EXCEPT ![u] = Written(users[u], request[r].entity)]
    BY <1>9, <2>1 DEF UserSave
  <2>4. users' \in [User -> UserRow]
    BY <2>1, <2>2, <2>3
  <2>5. request' \in [Request -> Held] /\ HandlersHaveUsers'
    <3>1. CASE t = None
      BY <1>9, <1>b, <3>1 DEF UserSave
    <3>2. CASE t # None
      <4> DEFINE h == [Idle EXCEPT !.phase = "delete_token", !.token = t]
      <4>1. h \in Held /\ h.phase = "delete_token"
        BY <2>1, <3>2, HandlerShapes
      <4>2. request' = [request EXCEPT ![r] = h]
        BY <1>9, <3>2 DEF UserSave
      <4> HIDE DEF h
      <4>3. QED  BY <4>1, <4>2, OneHandlerSteps DEF Writing
    <3>3. QED  BY <3>1, <3>2
  <2>6. QED  BY <1>9, <2>4, <2>5 DEF UserSave
<1>10. ASSUME NEW r \in Request, UserSaveRefused(r)
       PROVE  TypedInv'
  BY <1>10, <1>b DEF UserSaveRefused
<1>11. ASSUME NEW r \in Request, TokenSave(r)
       PROVE  TypedInv'
  <2>1. request[r].user \in User
    BY <1>11 DEF TokenSave, HandlersHaveUsers, Writing
  <2>2. tokens' \in [Token -> UserTokenRow]
    BY <1>11, <2>1 DEF TokenSave, NewToken, UserTokenRow
  <2>3. QED  BY <1>11, <1>b, <2>2 DEF TokenSave
<1>12. ASSUME NEW r \in Request, TokenDelete(r)
       PROVE  TypedInv'
  <2>1. tokens' \in [Token -> UserTokenRow]
    BY <1>12 DEF TokenDelete, TokenDeleted, UserTokenRow
  <2>2. QED  BY <1>12, <1>b, <2>1 DEF TokenDelete
<1>13. ASSUME NEW u \in User, NEW columns \in Dtos, CustomerCreate(u, columns)
       PROVE  TypedInv'
  BY <1>13, <1>c DEF CustomerCreate, HandlersHaveUsers
<1>14. ASSUME NEW u \in User, CustomerRemove(u)
       PROVE  TypedInv'
  <2>1. [users[u] EXCEPT !.state = "deleted"] \in UserRow
    BY <1>14 DEF CustomerRemove, LiveUser, UserRow
  <2>2. QED  BY <1>14, <2>1 DEF CustomerRemove, HandlersHaveUsers
<1>15. ASSUME NEW t \in Token, Expire(t)
       PROVE  TypedInv'
  BY <1>15 DEF Expire, UserTokenRow, HandlersHaveUsers
<1>16. CASE UNCHANGED accountVars
  BY <1>16 DEF accountVars, HandlersHaveUsers
<1>17. QED
  BY <1>1, <1>2, <1>3, <1>4, <1>5, <1>6, <1>7, <1>8, <1>9, <1>10, <1>11, <1>12, <1>13,
     <1>14, <1>15, <1>16 DEF AccountsNext, RequestNext

\* Every account, token, device, session and handler keeps its declared columns
\* through every interleaving of the controllers' requests.
THEOREM AccountsTypes == AccountsSpec => []AccountsTypeOK
<1>1. TypedInv => AccountsTypeOK
  BY DEF TypedInv
<1>2. QED  BY <1>1, AccountsTypesInit, AccountsTypesNext, PTL DEF AccountsSpec

-----------------------------------------------------------------------------
(* Sessions and devices *)

\* The row upsert found is still the row it looked for when it is saved.
FoundDeviceHolds ==
  \A r \in Request :
    request[r].phase = "save_device" /\ request[r].device # None
      => devices[request[r].device] = [user |-> request[r].user, push |-> request[r].push]

DeviceInv == FoundDeviceHolds /\ SessionDeviceIsOwn

\* No session and no device at first.
LEMMA DeviceInit == AccountsInit => DeviceInv
BY DEF AccountsInit, DeviceInv, FoundDeviceHolds, SessionDeviceIsOwn, Idle

\* Everything but the two steps of upsert leaves the devices alone and gives no
\* session a device.
LEMMA DeviceElsewhere ==
  ASSUME TypedInv, DeviceInv,
         devices' = devices,
         \A s \in sessions' : s \in sessions \/ s.device = None,
         \A r \in Request : request'[r] = request[r] \/ request'[r].phase # "save_device"
  PROVE  DeviceInv'
BY DEF DeviceInv, FoundDeviceHolds, SessionDeviceIsOwn

\* A step that no handler's upsert takes.
DeviceQuiet ==
  /\ devices' = devices
  /\ \A s \in sessions' : s \in sessions \/ s.device = None
  /\ \A r \in Request : request'[r] = request[r] \/ request'[r].phase # "save_device"

\* One step of any handler keeps the invariant about devices.
LEMMA DeviceNext == TypedInv /\ DeviceInv /\ [AccountsNext]_accountVars => DeviceInv'
<1> SUFFICES ASSUME TypedInv, DeviceInv, [AccountsNext]_accountVars
             PROVE  DeviceInv'
  OBVIOUS
<1> USE DEF TypedInv, AccountsTypeOK
<1>a. ASSUME NEW r \in Request, Finish(r), devices' = devices, sessions' = sessions
      PROVE  DeviceQuiet
  BY <1>a DEF Finish, Idle, DeviceQuiet
<1>b. ASSUME NEW r \in Request, NEW u \in User, NEW push \in Push \cup {None},
             InsertToken(r, u, push), devices' = devices
      PROVE  DeviceQuiet
  <2>1. CASE push = None
    BY <1>b, <2>1 DEF InsertToken, Finish, Idle, DeviceQuiet
  <2>2. CASE push # None
    BY <1>b, <2>2 DEF InsertToken, Idle, DeviceQuiet
  <2>3. QED  BY <2>1, <2>2
<1>c. ASSUME DeviceQuiet
      PROVE  DeviceInv'
  BY <1>c, DeviceElsewhere DEF DeviceQuiet
<1>1. ASSUME NEW r \in Request, RequestNext(r)
      PROVE  DeviceQuiet
  <2>1. ASSUME NEW u \in User, NEW columns \in Dtos, NEW push \in Push \cup {None},
               Register(r, u, columns, push)
        PROVE  DeviceQuiet
    BY <2>1, <1>b DEF Register
  <2>2. ASSUME NEW u \in User, NEW email \in Email, NEW password \in Password,
               NEW push \in Push \cup {None}, Login(r, u, email, password, push)
        PROVE  DeviceQuiet
    BY <2>2, <1>b DEF Login
  <2>3. ASSUME NEW s \in sessions, NEW push \in Push \cup {None}, Me(r, s, push)
        PROVE  DeviceQuiet
    <3>1. s.user \in User
      BY DEF Session
    <3>2. CASE push = None
      BY <2>3, <1>b, <3>1, <3>2 DEF Me
    <3>3. CASE push # None
      BY <2>3, <3>3 DEF Me, Idle, DeviceQuiet
    <3>4. QED  BY <3>2, <3>3
  <2>4. ASSUME NEW u \in User, NEW asked \in Dtos, UpdateRead(r, u, asked)
        PROVE  DeviceQuiet
    BY <2>4 DEF UpdateRead, Idle, DeviceQuiet
  <2>5. ASSUME NEW u \in User, Forgot(r, u)
        PROVE  DeviceQuiet
    BY <2>5 DEF Forgot, Idle, DeviceQuiet
  <2>6. ASSUME NEW t \in Token, NEW password \in Password, Reset(r, t, password)
        PROVE  DeviceQuiet
    BY <2>6 DEF Reset, Idle, DeviceQuiet
  <2>7. QED
    BY <1>1, <2>1, <2>2, <2>3, <2>4, <2>5, <2>6 DEF RequestNext
<1>2. ASSUME NEW r \in Request, DeviceFind(r)
      PROVE  DeviceInv'
  <2> DEFINE u == request[r].user
             push == request[r].push
  <2>1. PICK d \in DevicesOf(u, push) \cup {None} :
          request' = [request EXCEPT ![r].phase = "save_device", ![r].device = d]
    BY <1>2 DEF DeviceFind
  <2>2. devices' = devices /\ sessions' = sessions
    BY <1>2 DEF DeviceFind
  <2>3. d # None => devices[d] = [user |-> u, push |-> push]
    BY <2>1 DEF DevicesOf
  <2>4. /\ request'[r].device = d /\ request'[r].user = u /\ request'[r].push = push
        /\ \A q \in Request \ {r} : request'[q] = request[q]
    BY <2>1 DEF Held
  <2> HIDE DEF u, push
  <2>5. FoundDeviceHolds'
    BY <2>2, <2>3, <2>4 DEF DeviceInv, FoundDeviceHolds
  <2>6. QED  BY <2>2, <2>5 DEF DeviceInv, SessionDeviceIsOwn
<1>3. ASSUME NEW r \in Request, DeviceSave(r)
      PROVE  DeviceInv'
  <2> DEFINE u == request[r].user
             push == request[r].push
  <2>1. PICK d \in Device :
          /\ IF request[r].device = None
             THEN /\ d \in NewDevice
                  /\ devices' = [devices EXCEPT ![d] = [user |-> u, push |-> push]]
             ELSE /\ d = request[r].device
                  /\ devices' = devices
          /\ sessions' = sessions \cup
               {IF request[r].signed THEN [user |-> u, push |-> None, device |-> None]
                                     ELSE [user |-> u, push |-> push, device |-> d]}
    BY <1>3 DEF DeviceSave
  <2>2. request[r].phase = "save_device" /\ u \in User
    BY <1>3 DEF DeviceSave, HandlersHaveUsers, Writing
  <2>3. devices'[d] = [user |-> u, push |-> push]
    BY <2>1, <2>2 DEF DeviceInv, FoundDeviceHolds
  <2>4. \A e \in Device : devices[e].user # None => devices'[e] = devices[e]
    BY <2>1 DEF NewDevice
  <2>5. \A s \in sessions' : s \in sessions \/ s.device = None
                             \/ s = [user |-> u, push |-> push, device |-> d]
    BY <2>1
  <2>6. \A s \in sessions : s.user \in User /\ s.device \in Device \cup {None}
    BY DEF Session
  <2>7. SessionDeviceIsOwn'
    <3> SUFFICES ASSUME NEW s \in sessions', s.device # None
                 PROVE  devices'[s.device] = [user |-> s.user, push |-> s.push]
      BY DEF SessionDeviceIsOwn
    <3>1. CASE s \in sessions
      <4>1. devices[s.device] = [user |-> s.user, push |-> s.push]
        BY <3>1 DEF DeviceInv, SessionDeviceIsOwn
      <4>2. devices[s.device].user # None /\ s.device \in Device
        BY <3>1, <4>1, <2>6, AccountConstants
      <4>3. QED  BY <4>1, <4>2, <2>4
    <3>2. CASE s = [user |-> u, push |-> push, device |-> d]
      BY <3>2, <2>3
    <3>3. QED  BY <2>5, <3>1, <3>2
  <2>8. FoundDeviceHolds'
    <3> SUFFICES ASSUME NEW q \in Request, request'[q].phase = "save_device",
                        request'[q].device # None
                 PROVE  devices'[request'[q].device]
                          = [user |-> request'[q].user, push |-> request'[q].push]
      BY DEF FoundDeviceHolds
    <3>1. request'[q] = request[q]
      BY <1>3 DEF DeviceSave, Finish, Idle
    <3>2. devices[request[q].device] = [user |-> request[q].user, push |-> request[q].push]
      BY <3>1 DEF DeviceInv, FoundDeviceHolds
    <3>3. request[q].user \in User /\ request[q].device \in Device
      BY <3>1 DEF HandlersHaveUsers, Writing, Held
    <3>4. devices[request[q].device].user # None
      BY <3>2, <3>3, AccountConstants
    <3>5. QED  BY <2>4, <3>1, <3>2, <3>3, <3>4
  <2>9. QED  BY <2>7, <2>8 DEF DeviceInv
<1>4. ASSUME NEW r \in Request, UserSave(r)
      PROVE  DeviceQuiet
  <2>1. CASE request[r].token = None
    BY <1>4, <1>a, <2>1 DEF UserSave
  <2>2. CASE request[r].token # None
    BY <1>4, <2>2 DEF UserSave, Idle, DeviceQuiet
  <2>3. QED  BY <2>1, <2>2
<1>5. ASSUME NEW r \in Request, UserSaveRefused(r) \/ TokenSave(r) \/ TokenDelete(r)
      PROVE  DeviceQuiet
  BY <1>5, <1>a DEF UserSaveRefused, TokenSave, TokenDelete
<1>6. ASSUME NEW u \in User, CustomerRemove(u) \/ \E columns \in Dtos : CustomerCreate(u, columns)
      PROVE  DeviceQuiet
  BY <1>6 DEF CustomerRemove, CustomerCreate, DeviceQuiet
<1>7. ASSUME NEW t \in Token, Expire(t)
      PROVE  DeviceQuiet
  BY <1>7 DEF Expire, DeviceQuiet
<1>8. CASE UNCHANGED accountVars
  BY <1>8, <1>c DEF accountVars, DeviceQuiet
<1>9. QED
  BY <1>c, <1>1, <1>2, <1>3, <1>4, <1>5, <1>6, <1>7, <1>8 DEF AccountsNext

\* upsert, login and register: the device a session was signed with is the row of
\* its own user and phone, also when users share a phone and logins race.
THEOREM SessionsNameOwnDevices == AccountsSpec => []SessionDeviceIsOwn
<1>1. DeviceInv => SessionDeviceIsOwn
  BY DEF DeviceInv
<1>2. QED
  BY <1>1, AccountsTypesInit, AccountsTypesNext, DeviceInit, DeviceNext, PTL DEF AccountsSpec

-----------------------------------------------------------------------------
(* What a save writes *)

\* A loaded row carries a password only when the caller gave one.
OnlyAskedPassword ==
  \A r \in Request :
    request[r].phase = "save_user" => request[r].entity.password = request[r].asked.password

\* No handler holds a row at first.
LEMMA AskedInit == AccountsInit => OnlyAskedPassword
BY DEF AccountsInit, OnlyAskedPassword, Idle

\* Only the two handlers that load a row put one in front of a save.
LEMMA AskedNext ==
  TypedInv /\ OnlyAskedPassword /\ [AccountsNext]_accountVars => OnlyAskedPassword'
<1> SUFFICES ASSUME TypedInv, OnlyAskedPassword, [AccountsNext]_accountVars
             PROVE  OnlyAskedPassword'
  OBVIOUS
<1> USE DEF TypedInv, AccountsTypeOK
<1> DEFINE SavesNothingNew ==
             \A q \in Request : request'[q] = request[q] \/ request'[q].phase # "save_user"
<1>a. ASSUME SavesNothingNew
      PROVE  OnlyAskedPassword'
  BY <1>a DEF OnlyAskedPassword
<1>b. ASSUME NEW r \in Request, Finish(r)
      PROVE  SavesNothingNew
  BY <1>b DEF Finish, Idle
<1>c. ASSUME NEW r \in Request, NEW u, NEW push, InsertToken(r, u, push)
      PROVE  SavesNothingNew
  BY <1>b, <1>c DEF InsertToken, Idle
<1>d. ASSUME NEW r \in Request, NEW h, request' = [request EXCEPT ![r] = h],
             h.entity.password = h.asked.password
      PROVE  OnlyAskedPassword'
  BY <1>d DEF OnlyAskedPassword
<1>1. ASSUME NEW r \in Request, RequestNext(r)
      PROVE  OnlyAskedPassword'
  <2>1. ASSUME NEW u \in User, NEW asked \in Dtos, UpdateRead(r, u, asked)
        PROVE  OnlyAskedPassword'
    <3> DEFINE h == [Idle EXCEPT !.phase = "save_user", !.user = u, !.asked = asked,
                                 !.entity = asked]
    <3>1. h.entity.password = h.asked.password
      BY DEF Idle
    <3>2. request' = [request EXCEPT ![r] = h]
      BY <2>1 DEF UpdateRead, Edited
    <3> HIDE DEF h
    <3>3. QED  BY <3>1, <3>2, <1>d
  <2>2. ASSUME NEW t \in Token, NEW password \in Password, Reset(r, t, password)
        PROVE  OnlyAskedPassword'
    <3> DEFINE u == tokens[t].user
               h == [Idle EXCEPT !.phase = "save_user", !.user = u, !.token = t,
                      !.asked = [Blank EXCEPT !.password = password],
                      !.entity = [Blank EXCEPT !.name = users[u].columns.name,
                                               !.password = password]]
    <3>1. h.entity.password = h.asked.password
      BY DEF Idle, Blank
    <3>2. request' = [request EXCEPT ![r] = h]
      BY <2>2 DEF Reset
    <3> HIDE DEF h
    <3>3. QED  BY <3>1, <3>2, <1>d
  <2>3. ASSUME NEW u \in User, NEW columns \in Dtos, NEW push \in Push \cup {None},
               Register(r, u, columns, push)
        PROVE  OnlyAskedPassword'
    BY <2>3, <1>a, <1>c DEF Register
  <2>4. ASSUME NEW u \in User, NEW email \in Email, NEW password \in Password,
               NEW push \in Push \cup {None}, Login(r, u, email, password, push)
        PROVE  OnlyAskedPassword'
    BY <2>4, <1>a, <1>c DEF Login
  <2>5. ASSUME NEW s \in sessions, NEW push \in Push \cup {None}, Me(r, s, push)
        PROVE  OnlyAskedPassword'
    <3>1. CASE push = None
      BY <2>5, <1>a, <1>c, <3>1 DEF Me
    <3>2. CASE push # None
      <4>1. SavesNothingNew
        BY <2>5, <3>2 DEF Me, Idle
      <4>2. QED  BY <4>1, <1>a
    <3>3. QED  BY <3>1, <3>2
  <2>6. ASSUME NEW u \in User, Forgot(r, u)
        PROVE  OnlyAskedPassword'
    <3>1. SavesNothingNew
      BY <2>6 DEF Forgot, Idle
    <3>2. QED  BY <3>1, <1>a
  <2>7. QED
    BY <1>1, <2>1, <2>2, <2>3, <2>4, <2>5, <2>6 DEF RequestNext
<1>2. ASSUME NEW r \in Request, DeviceFind(r)
      PROVE  OnlyAskedPassword'
  <2>1. request'[r].phase = "save_device"
        /\ \A q \in Request \ {r} : request'[q] = request[q]
    BY <1>2 DEF DeviceFind, Held
  <2>2. SavesNothingNew
    BY <2>1
  <2>3. QED  BY <2>2, <1>a
<1>3. ASSUME NEW r \in Request,
             DeviceSave(r) \/ UserSaveRefused(r) \/ TokenSave(r) \/ TokenDelete(r)
      PROVE  OnlyAskedPassword'
  BY <1>3, <1>a, <1>b DEF DeviceSave, UserSaveRefused, TokenSave, TokenDelete
<1>4. ASSUME NEW r \in Request, UserSave(r)
      PROVE  OnlyAskedPassword'
  <2>1. CASE request[r].token = None
    BY <1>4, <1>a, <1>b, <2>1 DEF UserSave
  <2>2. CASE request[r].token # None
    <3>1. SavesNothingNew
      BY <1>4, <2>2 DEF UserSave, Idle
    <3>2. QED  BY <3>1, <1>a
  <2>3. QED  BY <2>1, <2>2
<1>5. CASE UNCHANGED request
  BY <1>5 DEF OnlyAskedPassword
<1>6. QED
  BY <1>1, <1>2, <1>3, <1>4, <1>5
     DEF AccountsNext, CustomerCreate, CustomerRemove, Expire, accountVars

\* A row keeps state and columns in every step but three: an insertion, a save and
\* a removal.
LEMMA UsersChange ==
  ASSUME TypedInv, [AccountsNext]_accountVars, NEW u \in User
  PROVE  \/ users'[u] = users[u]
         \/ users[u].state = "absent"
         \/ users'[u] = [users[u] EXCEPT !.state = "deleted"]
         \/ \E r \in Request : /\ request[r].phase = "save_user"
                               /\ request[r].user = u
                               /\ users'[u] = Written(users[u], request[r].entity)
<1> USE DEF TypedInv, AccountsTypeOK
<1>1. ASSUME NEW v \in User, NEW columns \in Dtos, InsertUser(v, columns)
      PROVE  users'[u] = users[u] \/ users[u].state = "absent"
  BY <1>1 DEF InsertUser, NewUser
<1>2. ASSUME NEW v \in User, CustomerRemove(v)
      PROVE  users'[u] = users[u] \/ users'[u] = [users[u] EXCEPT !.state = "deleted"]
  BY <1>2 DEF CustomerRemove
<1>3. ASSUME NEW r \in Request, UserSave(r)
      PROVE  \/ users'[u] = users[u]
             \/ /\ request[r].phase = "save_user"
                /\ request[r].user = u
                /\ users'[u] = Written(users[u], request[r].entity)
  BY <1>3 DEF UserSave
<1>4. QED
  BY <1>1, <1>2, <1>3
     DEF AccountsNext, RequestNext, Register, Login, Me, UpdateRead, Forgot, Reset,
         DeviceFind, DeviceSave, UserSaveRefused, TokenSave, TokenDelete, CustomerCreate,
         Expire, accountVars

\* update and changePassword: a password changes only to the one that the request
\* saving the account was asked to set.
THEOREM PasswordsAreAsked == AccountsSpec => PasswordIsAsked
<1>1. TypedInv /\ OnlyAskedPassword /\ [AccountsNext]_accountVars
        => [\A u \in User :
              /\ users[u].state # "absent"
              /\ users'[u].columns.password # users[u].columns.password
              => \E r \in Request :
                   /\ request[r].phase = "save_user"
                   /\ request[r].user = u
                   /\ request[r].asked.password = users'[u].columns.password]_accountVars
  <2> SUFFICES ASSUME TypedInv, OnlyAskedPassword, [AccountsNext]_accountVars,
                      NEW u \in User, users[u].state # "absent",
                      users'[u].columns.password # users[u].columns.password
               PROVE  \E r \in Request :
                        /\ request[r].phase = "save_user"
                        /\ request[r].user = u
                        /\ request[r].asked.password = users'[u].columns.password
    OBVIOUS
  <2>1. users[u] \in UserRow
    BY DEF TypedInv, AccountsTypeOK
  <2>2. users'[u] # [users[u] EXCEPT !.state = "deleted"]
    BY <2>1 DEF UserRow
  <2>3. PICK r \in Request : /\ request[r].phase = "save_user"
                             /\ request[r].user = u
                             /\ users'[u] = Written(users[u], request[r].entity)
    BY <2>2, UsersChange
  <2>4. request[r].entity \in UserColumns
    BY DEF TypedInv, AccountsTypeOK, Held
  <2>5. users'[u].columns.password = request[r].entity.password
    BY <2>1, <2>3, <2>4, WrittenRow
  <2>6. QED  BY <2>3, <2>5 DEF OnlyAskedPassword
<1>2. QED
  BY <1>1, AccountsTypesInit, AccountsTypesNext, AskedInit, AskedNext, PTL
     DEF AccountsSpec, PasswordIsAsked

\* remove: no save of a row that was loaded before the removal revives an account.
THEOREM RemovedAccountsStay == AccountsSpec => RemovedStaysRemoved
<1>1. TypedInv /\ [AccountsNext]_accountVars
        => [\A u \in User : users[u].state = "deleted" => users'[u].state = "deleted"]_accountVars
  <2> SUFFICES ASSUME TypedInv, [AccountsNext]_accountVars,
                      NEW u \in User, users[u].state = "deleted"
               PROVE  users'[u].state = "deleted"
    OBVIOUS
  <2>1. users[u] \in UserRow
    BY DEF TypedInv, AccountsTypeOK
  <2>2. CASE users'[u] = [users[u] EXCEPT !.state = "deleted"]
    BY <2>1, <2>2 DEF UserRow
  <2>3. CASE \E r \in Request : users'[u] = Written(users[u], request[r].entity)
    <3>1. PICK r \in Request : users'[u] = Written(users[u], request[r].entity)
      BY <2>3
    <3>2. request[r].entity \in UserColumns
      BY DEF TypedInv, AccountsTypeOK, Held
    <3>3. QED  BY <2>1, <3>1, <3>2, WrittenRow
  <2>4. QED  BY <2>2, <2>3, UsersChange
<1>2. QED
  BY <1>1, AccountsTypesInit, AccountsTypesNext, PTL DEF AccountsSpec, RemovedStaysRemoved
=============================================================================
