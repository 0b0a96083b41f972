------------------------------ MODULE Accounts ------------------------------
(***************************************************************************)
(* The accounts: UsersService, AuthService, DeviceTokensService and        *)
(* CustomersService over the tables users, user_tokens and device_tokens.  *)
(*                                                                         *)
(* A Request is a call of one of their controllers.  Its handler is cut at *)
(* each await; request[r] holds what it read before and uses after.  A     *)
(* handler that fails half-way is a request that takes no further step.    *)
(* A password stands for its hash: comparePassword holds for it alone.     *)
(***************************************************************************)
EXTENDS Naturals, FiniteSets

CONSTANTS
  User,          \* identities of users rows
  Email,         \* addresses
  Name,          \* names
  Password,      \* passwords
  Token,         \* identities of user_tokens rows, each with its random string
  Push,          \* push tokens of phones
  Device,        \* identities of device_tokens rows
  Request,       \* requests served at the same time
  Dtos,          \* the bodies that registrations and edits are sent with
  None           \* a column that is null, a value that is undefined

VARIABLES
  users,         \* the users table
  tokens,        \* the user_tokens table
  devices,       \* the device_tokens table
  sessions,      \* the signed JWTs, each with the push token it was asked with
  request        \* what each request's handler holds between two awaits

accountVars == <<users, tokens, devices, sessions, request>>

-----------------------------------------------------------------------------
(* Rows and handlers *)

UserColumns == [email    : Email \cup {None},
                name     : Name \cup {None},
                password : Password \cup {None}]

ASSUME AccountConstants ==
  /\ None \notin User \cup Email \cup Name \cup Password \cup Token \cup Push \cup Device
  /\ Dtos \subseteq UserColumns

Blank == [email |-> None, name |-> None, password |-> None]

\* The name is the one column that may not be null.
UserRow ==
  {row \in [state : {"absent", "live", "deleted"}, columns : UserColumns] :
     row.state # "absent" => row.columns.name # None}

UserTokenRow == [user : User \cup {None}, live : BOOLEAN, expired : BOOLEAN]

DeviceRow == [user : User \cup {None}, push : Push \cup {None}]

Session == [user : User, push : Push \cup {None}, device : Device \cup {None}]

Phase == {"idle", "find_device", "save_device", "save_user", "delete_token",
          "save_token"}

Held == [phase  : Phase,
         user   : User \cup {None},
         asked  : UserColumns,            \* the dto
         entity : UserColumns,            \* the row as save() will write it
         token  : Token \cup {None},
         push   : Push \cup {None},
         device : Device \cup {None},
         signed : BOOLEAN]                \* the JWT was signed without a device

Idle == [phase |-> "idle", user |-> None, asked |-> Blank, entity |-> Blank,
         token |-> None, push |-> None, device |-> None, signed |-> FALSE]

LiveUser(u) == users[u].state = "live"

\* Identities are interchangeable, so a new row takes a fixed one of those left.
Lowest(ids) == CHOOSE id \in ids : TRUE
NewUser == {u \in User : users[u].state = "absent"}
NewToken == {t \in Token : tokens[t].user = None}
NewDevice == {d \in Device : devices[d].user = None}

AccountsInit ==
  /\ users = [u \in User |-> [state |-> "absent", columns |-> Blank]]
  /\ tokens = [t \in Token |-> [user |-> None, live |-> FALSE, expired |-> FALSE]]
  /\ devices = [d \in Device |-> [user |-> None, push |-> None]]
  /\ sessions = {}
  /\ request = [r \in Request |-> Idle]

Finish(r) == request' = [request EXCEPT ![r] = Idle]

\* The unique index on email, which covers the rows that are not deleted.
EmailFree(u, email) ==
  email # None => \A v \in User \ {u} : ~ (LiveUser(v) /\ users[v].columns.email = email)

-----------------------------------------------------------------------------
(* Push tokens and sessions *)

\* What insertToken and the return after it do: without a push token no row is
\* looked for and the session has no device.
InsertToken(r, u, push) ==
  IF push = None
  THEN /\ sessions' = sessions \cup {[user |-> u, push |-> None, device |-> None]}
       /\ Finish(r)
  ELSE /\ request' = [request EXCEPT ![r] = [Idle EXCEPT !.phase = "find_device",
                                                         !.user = u, !.push = push]]
       /\ UNCHANGED sessions

\* Variant: the row of the phone is looked for, whoever uses the phone.
DevicesOfPhone(u, push) == {d \in Device : devices[d].push = push}

DevicesOf(u, push) == {d \in Device : devices[d] = [user |-> u, push |-> push]}

\* findOne without an order may return any of the rows that match.
DeviceFind(r) ==
  LET u == request[r].user  push == request[r].push IN
  /\ request[r].phase = "find_device"
  /\ \E d \in DevicesOf(u, push) \cup {None} :
       /\ d = None => DevicesOf(u, push) = {}
       /\ request' = [request EXCEPT ![r].phase = "save_device", ![r].device = d]
  /\ UNCHANGED <<users, tokens, devices, sessions>>

\* A found row is saved as it is; otherwise a row is inserted.
DeviceSave(r) ==
  LET u == request[r].user  push == request[r].push IN
  /\ request[r].phase = "save_device"
  /\ \E d \in Device :
       /\ IF request[r].device = None
          THEN /\ d \in NewDevice
               /\ d = Lowest(NewDevice)
               /\ devices' = [devices EXCEPT ![d] = [user |-> u, push |-> push]]
          ELSE /\ d = request[r].device
               /\ UNCHANGED devices
       /\ sessions' = sessions \cup
            {IF request[r].signed THEN [user |-> u, push |-> None, device |-> None]
                                  ELSE [user |-> u, push |-> push, device |-> d]}
  /\ Finish(r)
  /\ UNCHANGED <<users, tokens>>

-----------------------------------------------------------------------------
(* Registration, login and the account of the caller *)

\* save({...user}) of a body with the columns its DTO declares, hence without an id.
InsertUser(u, columns) ==
  /\ u \in NewUser /\ u = Lowest(NewUser)
  /\ columns.name # None
  /\ EmailFree(u, columns.email)
  /\ users' = [users EXCEPT ![u] = [state |-> "live", columns |-> columns]]

Register(r, u, columns, push) ==
  /\ request[r].phase = "idle"
  /\ InsertUser(u, columns)
  /\ InsertToken(r, u, push)
  /\ UNCHANGED <<tokens, devices>>

CustomerCreate(u, columns) ==
  /\ InsertUser(u, columns)
  /\ UNCHANGED <<tokens, devices, sessions, request>>

ValidUser(u, email, password) ==
  /\ LiveUser(u)
  /\ users[u].columns.email = email
  /\ users[u].columns.password = password

Login(r, u, email, password, push) ==
  /\ request[r].phase = "idle"
  /\ ValidUser(u, email, password)
  /\ InsertToken(r, u, push)
  /\ UNCHANGED <<users, tokens, devices>>

\* validate() returns the users row only, so user.device_id is undefined: the new
\* session is signed without a device.  (For the same reason logOut, which removes
\* the row of user.device_id, removes nothing; it has no action here.)
Me(r, s, push) ==
  /\ request[r].phase = "idle"
  /\ LiveUser(s.user)
  /\ IF push = None
     THEN InsertToken(r, s.user, None)
     ELSE /\ request' = [request EXCEPT ![r] =
                          [Idle EXCEPT !.phase = "find_device", !.user = s.user,
                                       !.push = push, !.signed = TRUE]]
          /\ UNCHANGED sessions
  /\ UNCHANGED <<users, tokens, devices>>

-----------------------------------------------------------------------------
(* The edit of an account by CustomersController *)

\* Variant: the password is loaded with the row and written with it.
EditedWithPassword(u, asked) ==
  [asked EXCEPT !.password = IF @ = None THEN users[u].columns.password ELSE @]

\* update assigns every column of the dto, the undefined ones too, and save()
\* leaves an undefined column alone; the password is not selected when the row
\* is loaded.
Edited(u, asked) == asked

UpdateRead(r, u, asked) ==
  /\ request[r].phase = "idle"
  /\ LiveUser(u)
  /\ request' = [request EXCEPT ![r] = [Idle EXCEPT !.phase = "save_user", !.user = u,
                                          !.asked = asked, !.entity = Edited(u, asked)]]
  /\ UNCHANGED <<users, tokens, devices, sessions>>

\* Variant: deleted_at is selected with the row and written back as null.
WrittenWithDeletedAt(old, entity) ==
  [state   |-> "live",
   columns |-> [c \in DOMAIN entity |->
                  IF entity[c] = None THEN old.columns[c] ELSE entity[c]]]

\* Variant: an undefined column is written as null.
WrittenWithNulls(old, entity) == [old EXCEPT !.columns = entity]

\* save() of a loaded row: its defined columns, by id, of a deleted row as well.
Written(old, entity) ==
  [old EXCEPT !.columns = [c \in DOMAIN entity |->
                             IF entity[c] = None THEN @[c] ELSE entity[c]]]

UserSave(r) ==
  LET u == request[r].user  entity == request[r].entity  t == request[r].token IN
  /\ request[r].phase = "save_user"
  /\ LiveUser(u) => EmailFree(u, entity.email)
  /\ users' = [users EXCEPT ![u] = Written(@, entity)]
  /\ IF t = None THEN Finish(r)
     ELSE request' = [request EXCEPT ![r] = [Idle EXCEPT !.phase = "delete_token",
                                                         !.token = t]]
  /\ UNCHANGED <<tokens, devices, sessions>>

UserSaveRefused(r) ==
  LET u == request[r].user IN
  /\ request[r].phase = "save_user"
  /\ LiveUser(u)
  /\ ~ EmailFree(u, request[r].entity.email)
  /\ Finish(r)
  /\ UNCHANGED <<users, tokens, devices, sessions>>

CustomerRemove(u) ==
  /\ LiveUser(u)
  /\ users' = [users EXCEPT ![u].state = "deleted"]
  /\ UNCHANGED <<tokens, devices, sessions, request>>

-----------------------------------------------------------------------------
(* The forgotten password *)

Forgot(r, u) ==
  /\ request[r].phase = "idle"
  /\ LiveUser(u)
  /\ users[u].columns.email # None
  /\ request' = [request EXCEPT ![r] = [Idle EXCEPT !.phase = "save_token", !.user = u]]
  /\ UNCHANGED <<users, tokens, devices, sessions>>

\* createToken saves the row; no mail is sent.
TokenSave(r) ==
  /\ request[r].phase = "save_token"
  /\ \E t \in NewToken :
       /\ t = Lowest(NewToken)
       /\ tokens' = [tokens EXCEPT ![t] = [user |-> request[r].user, live |-> TRUE,
                                           expired |-> FALSE]]
  /\ Finish(r)
  /\ UNCHANGED <<users, devices, sessions>>

\* Time passes expired_at; nothing reads it once the token is deleted.
Expire(t) ==
  /\ tokens[t].live
  /\ ~ tokens[t].expired
  /\ tokens' = [tokens EXCEPT ![t].expired = TRUE]
  /\ UNCHANGED <<users, devices, sessions, request>>

\* The inner join leaves a token of a deleted user out.
ValidToken(t) ==
  /\ tokens[t].live
  /\ ~ tokens[t].expired
  /\ \E u \in User : u = tokens[t].user /\ LiveUser(u)

\* The row loaded with the token has its name but neither email nor password.
Reset(r, t, password) ==
  LET u == tokens[t].user IN
  /\ request[r].phase = "idle"
  /\ ValidToken(t)
  /\ request' = [request EXCEPT ![r] =
       [Idle EXCEPT !.phase = "save_user", !.user = u, !.token = t,
                    !.asked = [Blank EXCEPT !.password = password],
                    !.entity = [Blank EXCEPT !.name = users[u].columns.name,
                                             !.password = password]]]
  /\ UNCHANGED <<users, tokens, devices, sessions>>

TokenDeleted(t) == [tokens EXCEPT ![t].live = FALSE]

TokenDelete(r) ==
  /\ request[r].phase = "delete_token"
  /\ tokens' = TokenDeleted(request[r].token)
  /\ Finish(r)
  /\ UNCHANGED <<users, devices, sessions>>

-----------------------------------------------------------------------------
(* Specification *)

\* A request to AuthController or CustomersController that reaches its service.
RequestNext(r) ==
  \/ \E u \in User, columns \in Dtos, push \in Push \cup {None} :
       Register(r, u, columns, push)
  \/ \E u \in User, email \in Email, password \in Password, push \in Push \cup {None} :
       Login(r, u, email, password, push)
  \/ \E s \in sessions, push \in Push \cup {None} : Me(r, s, push)
  \/ \E u \in User, asked \in Dtos : UpdateRead(r, u, asked)
  \/ \E u \in User : Forgot(r, u)
  \/ \E t \in Token, password \in Password : Reset(r, t, password)

AccountsNext ==
  \/ \E r \in Request :
       \/ RequestNext(r)
       \/ DeviceFind(r)
       \/ DeviceSave(r)
       \/ UserSave(r)
       \/ UserSaveRefused(r)
       \/ TokenSave(r)
       \/ TokenDelete(r)
  \/ \E u \in User, columns \in Dtos : CustomerCreate(u, columns)
  \/ \E u \in User : CustomerRemove(u)
  \/ \E t \in Token : Expire(t)

AccountsSpec == AccountsInit /\ [][AccountsNext]_accountVars

-----------------------------------------------------------------------------
(* Properties *)

\* Every row and every handler has the columns its entity declares (users.service.ts,
\* auth.service.ts, device_token.service.ts).
AccountsTypeOK ==
  /\ users \in [User -> UserRow]
  /\ tokens \in [Token -> UserTokenRow]
  /\ devices \in [Device -> DeviceRow]
  /\ sessions \subseteq Session
  /\ request \in [Request -> Held]

\* The password of an account changes only to the one that a request saving this
\* account was asked to set: an edit or a reset that runs beside another never
\* brings an older password back (UsersService.update and changePassword).
PasswordIsAsked ==
  [][\A u \in User :
       /\ users[u].state # "absent"
       /\ users'[u].columns.password # users[u].columns.password
       => \E r \in Request : /\ request[r].phase = "save_user"
                             /\ request[r].user = u
                             /\ request[r].asked.password = users'[u].columns.password]_accountVars

\* A removed account stays removed, whatever a handler that loaded it before the
\* removal saves afterwards (UsersService.remove, update and changePassword).
RemovedStaysRemoved ==
  [][\A u \in User : users[u].state = "deleted" => users'[u].state = "deleted"]_accountVars

\* The device a session names is the row of the session's own user and of the push
\* token the session was asked with, also when a phone is shared and logins race
\* (DeviceTokensService.upsert, AuthService.login and register).
SessionDeviceIsOwn ==
  \A s \in sessions : s.device # None =>
    devices[s.device] = [user |-> s.user, push |-> s.push]
=============================================================================
