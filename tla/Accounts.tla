------------------------------- MODULE Accounts -------------------------------
(***************************************************************************)
(* The accounts of auth.service.ts and users.service.ts behind JwtStrategy *)
(* and RolesGuard: the first login creates an administrator, a token       *)
(* carries the role its account had when it was signed, the guards compare *)
(* that claim with what a handler asks for, and an update reads the row,   *)
(* spreads the body over it and writes the result.  Every await is a point *)
(* where other requests come in between.                                   *)
(*                                                                         *)
(* An account is identified by the request that created it, or is one of   *)
(* those there from the start.                                             *)
(***************************************************************************)
EXTENDS Naturals, FiniteSets

CONSTANTS
  Requests,    \* requests to /auth and /users
  Seeded,      \* the ids of accounts that may be there from the start
  SeedRole,    \* the role of each
  Names,       \* usernames
  Passwords,
  Edits,       \* bodies of PATCH /users/:id, None for an absent field
  NewRoles,    \* roles the bodies of sign-ups name
  None

Ids == Requests \cup Seeded

Hierarchy == [USER |-> 1, SECONDARY |-> 2, PRIMARY |-> 3, ADMIN |-> 4]
Roles == DOMAIN Hierarchy

\* password is what was typed; hashed says that bcrypt.hash was applied to it.
Accounts == [username : Names, role : Roles, isActive : BOOLEAN,
             password : Passwords, hashed : BOOLEAN]
NoAccount == [username |-> None]

ASSUME IdsAssumption == Requests \cap Seeded = {}
ASSUME NoneAssumption == None \notin Ids \cup Names \cup Passwords
ASSUME EditsAssumption ==
  Edits \subseteq [role : Roles \cup {None}, isActive : BOOLEAN \cup {None},
                   password : Passwords \cup {None}]
ASSUME SeedAssumption == SeedRole \in [Seeded -> Roles] /\ NewRoles \subseteq Roles

VARIABLES
  users,      \* User rows by id
  tokens,     \* access and refresh tokens signed so far: sub and role
  pc,         \* progress of each request
  claim,      \* the role its access token claims
  target,     \* the id it works on
  body,       \* the account it creates or the edit it applies
  row,        \* the row it has read
  intended,   \* history: each account as its last successful requests put it
  overwritten \* history: accounts written over a change made since the read

requestVars == <<pc, claim, target, body, row>>
histories == <<intended, overwritten>>
vars == <<users, tokens, requestVars, histories>>

Exists(i) == users[i] # NoAccount
Taken(n) == \E i \in Ids : users[i].username = n
WithName(n) == CHOOSE i \in Ids : users[i].username = n

NewAccount(n, role, p) ==
  [username |-> n, role |-> role, isActive |-> TRUE, password |-> p, hashed |-> TRUE]

Claims(i, account) == [sub |-> i, role |-> account.role]

\* An empty database, or one with the seeded accounts and their tokens.
Init ==
  /\ \E seeds \in {{}, Seeded}, name \in [Seeded -> Names], p \in Passwords :
       /\ \A i, j \in Seeded : name[i] = name[j] => i = j
       /\ users = [i \in Ids |-> IF i \in seeds THEN NewAccount(name[i], SeedRole[i], p)
                                 ELSE NoAccount]
  /\ tokens = {Claims(i, users[i]) : i \in {j \in Ids : Exists(j)}}
  /\ pc = [r \in Requests |-> "idle"]
  /\ claim = [r \in Requests |-> None]
  /\ target = [r \in Requests |-> None]
  /\ body = [r \in Requests |-> None]
  /\ row = [r \in Requests |-> NoAccount]
  /\ intended = users
  /\ overwritten = {}

Goto(r, label) == pc' = [pc EXCEPT ![r] = label]

\* The request is answered, with whatever status; its locals are gone.
Answer(r) ==
  /\ Goto(r, "answered")
  /\ claim' = [claim EXCEPT ![r] = None]
  /\ target' = [target EXCEPT ![r] = None]
  /\ body' = [body EXCEPT ![r] = None]
  /\ row' = [row EXCEPT ![r] = NoAccount]

-----------------------------------------------------------------------------
(* POST /auth/login *)

Matches(account, p) == account.hashed /\ account.password = p

\* findByUsername, isActive and bcrypt.compare; without the user the accounts
\* are counted.
Login(r, n, p) ==
  /\ pc[r] = "idle"
  /\ \/ /\ ~Taken(n)
        /\ body' = [body EXCEPT ![r] = NewAccount(n, "ADMIN", p)]
        /\ Goto(r, "counting")
        /\ UNCHANGED <<target, row>>
     \/ /\ Taken(n)
        /\ LET i == WithName(n) IN
           /\ target' = [target EXCEPT ![r] = i]
           /\ row' = [row EXCEPT ![r] = users[i]]
           /\ body' = [body EXCEPT ![r] = p]
           /\ Goto(r, IF ~users[i].isActive THEN "deactivated"
                      ELSE IF Matches(users[i], p) THEN "signing" ELSE "invalid")
  /\ UNCHANGED <<users, tokens, claim, histories>>

\* Mutant: any unknown user name creates an administrator.
CountIgnored(r) ==
  /\ pc[r] = "counting"
  /\ Goto(r, "bootstrapping")
  /\ UNCHANGED <<users, tokens, claim, target, body, row, histories>>

\* Only an empty table makes the unknown user the first administrator.
CountUsers(r) ==
  /\ pc[r] = "counting"
  /\ \/ /\ \A i \in Ids : ~Exists(i)
        /\ Goto(r, "bootstrapping")
        /\ UNCHANGED <<claim, target, body, row>>
     \/ (\E i \in Ids : Exists(i)) /\ Answer(r)
  /\ UNCHANGED <<users, tokens, histories>>

Inserting == {"bootstrapping", "registering", "creating"}

\* A login or a registration goes on to sign tokens for the new account.
AfterInsert(r) ==
  \/ pc[r] = "creating" /\ Answer(r)
  \/ /\ pc[r] # "creating"
     /\ Goto(r, "signing")
     /\ target' = [target EXCEPT ![r] = r]
     /\ row' = [row EXCEPT ![r] = body[r]]
     /\ UNCHANGED <<claim, body>>

\* Mutant: only the check before bcrypt.hash looks for the user name.
InsertUnchecked(r) ==
  /\ pc[r] \in Inserting
  /\ users' = [users EXCEPT ![r] = body[r]]
  /\ intended' = [intended EXCEPT ![r] = body[r]]
  /\ AfterInsert(r)
  /\ UNCHANGED <<tokens, overwritten>>

\* The insert after bcrypt.hash; username is unique, a second one conflicts.
InsertUser(r) ==
  /\ pc[r] \in Inserting
  /\ \/ /\ ~Taken(body[r].username)
        /\ users' = [users EXCEPT ![r] = body[r]]
        /\ intended' = [intended EXCEPT ![r] = body[r]]
        /\ AfterInsert(r)
     \/ /\ Taken(body[r].username)
        /\ Answer(r)
        /\ UNCHANGED <<users, intended>>
  /\ UNCHANGED <<tokens, overwritten>>

\* The access and the refresh token carry the role of the row as read.
SignTokens(r) ==
  /\ pc[r] = "signing"
  /\ tokens' = tokens \cup {Claims(target[r], row[r])}
  /\ Answer(r)
  /\ UNCHANGED <<users, histories>>

(* POST /auth/register: the user name is looked up before the hash. *)
Register(r, n, role, p) ==
  /\ pc[r] = "idle" /\ ~Taken(n)
  /\ body' = [body EXCEPT ![r] = NewAccount(n, role, p)]
  /\ Goto(r, "registering")
  /\ UNCHANGED <<users, tokens, claim, target, row, histories>>

(* POST /auth/refresh: the new tokens carry the role the row has now. *)
Refresh(r, t) ==
  /\ pc[r] = "idle" /\ Exists(t.sub)
  /\ target' = [target EXCEPT ![r] = t.sub]
  /\ row' = [row EXCEPT ![r] = users[t.sub]]
  /\ Goto(r, "signing")
  /\ UNCHANGED <<users, tokens, claim, body, histories>>

-----------------------------------------------------------------------------
(* The guards: JwtStrategy.validate looks the account up, RolesGuard       *)
(* compares the claim.  A request they refuse changes nothing.             *)

Authenticated(t) == Exists(t.sub) /\ users[t.sub].isActive

AtLeast(t, role) == Hierarchy[t.role] >= Hierarchy[role]

\* A handler behind @MinRole(PRIMARY).
Admitted(r, t, label) ==
  /\ pc[r] = "idle" /\ Authenticated(t) /\ AtLeast(t, "PRIMARY")
  /\ claim' = [claim EXCEPT ![r] = t.role]
  /\ Goto(r, label)

(* POST /users *)
CreateUser(r, t, n, role, p) ==
  /\ Admitted(r, t, "creating")
  /\ body' = [body EXCEPT ![r] = NewAccount(n, role, p)]
  /\ UNCHANGED <<users, tokens, target, row, histories>>

Protected == {"role", "isActive"}

\* Mutant: everybody's body is taken as it is.
AnyDto(t, e) == e

\* Only an ADMIN's body keeps role and isActive; from another's they are
\* deleted, which is not the same as being absent (see Applied).
SafeDto(t, e) ==
  [f \in IF t.role = "ADMIN" THEN DOMAIN e ELSE DOMAIN e \ Protected |-> e[f]]

(* PATCH /users/:id *)
PatchUser(r, t, i, e) ==
  /\ Admitted(r, t, "reading")
  /\ target' = [target EXCEPT ![r] = i]
  /\ body' = [body EXCEPT ![r] = SafeDto(t, e)]
  /\ UNCHANGED <<users, tokens, row, histories>>

Columns == {"role", "isActive", "password"}

\* Mutant: columns the body leaves out are written back as they were read.
AppliedToRow(account, dto) ==
  [f \in Columns |-> IF f \in DOMAIN dto /\ dto[f] # None THEN dto[f] ELSE account[f]]

\* applyUpdate spreads the body over the row.  A field the client left out is
\* an own property of the body, with the value undefined (None), and hides
\* the row's; one that was deleted is not, and leaves the row's in place.
Applied(account, dto) ==
  [f \in Columns |-> IF f \in DOMAIN dto THEN dto[f] ELSE account[f]]

ReadUser(r) ==
  LET i == target[r] IN
  /\ pc[r] = "reading"
  /\ \/ /\ Exists(i)
        /\ row' = [row EXCEPT ![r] = users[i]]
        /\ Goto(r, "writing")
        /\ UNCHANGED <<claim, target, body>>
     \/ ~Exists(i) /\ Answer(r)
  /\ UNCHANGED <<users, tokens, histories>>

Or(new, old) == IF new = None THEN old ELSE new

\* The columns whose value is not undefined are written, a new password as
\* it was typed.
Merged(account, new) ==
  [account EXCEPT !.role = Or(new.role, @), !.isActive = Or(new.isActive, @),
                  !.password = Or(new.password, @), !.hashed = @ /\ new.password = None]

\* A row that is gone makes the update throw.
WriteUser(r) ==
  LET i == target[r]
      given == DOMAIN body[r]
      new == Applied(row[r], body[r])
  IN
  /\ pc[r] = "writing"
  /\ \/ /\ Exists(i)
        /\ users' = [users EXCEPT ![i] = Merged(@, new)]
        /\ intended' = [intended EXCEPT ![i] =
             [f \in DOMAIN @ |-> IF f \in given THEN Or(body[r][f], @[f]) ELSE @[f]]]
        /\ overwritten' = IF \A f \in Columns \ given : users[i][f] = row[r][f]
                            THEN overwritten ELSE overwritten \cup {i}
     \/ ~Exists(i) /\ UNCHANGED <<users, histories>>
  /\ Answer(r)
  /\ UNCHANGED tokens

(* DELETE /users/:id *)
RemoveUser(r, t, i) ==
  /\ Admitted(r, t, "removing")
  /\ target' = [target EXCEPT ![r] = i]
  /\ UNCHANGED <<users, tokens, body, row, histories>>

DeleteUser(r) ==
  /\ pc[r] = "removing"
  /\ users' = [users EXCEPT ![target[r]] = NoAccount]
  /\ Answer(r)
  /\ UNCHANGED <<tokens, histories>>

\* @User('sub') reads a field that the object JwtStrategy returns for a token
\* does not have.
UserSub(t) == None

\* Looking a user up by undefined throws before anything else is done: so end
\* the change of the own password and the requests to /users/me.
FailsWithoutSub(r, t) ==
  /\ pc[r] = "idle" /\ Authenticated(t) /\ UserSub(t) \notin Ids
  /\ target' = [target EXCEPT ![r] = t.sub]
  /\ Goto(r, "error")
  /\ UNCHANGED <<users, tokens, claim, row, histories>>

(* POST /auth/change-password *)
ChangePassword(r, t, p) == FailsWithoutSub(r, t) /\ body' = [body EXCEPT ![r] = p]

(* GET and PATCH /users/me *)
OwnProfile(r, t) == FailsWithoutSub(r, t) /\ UNCHANGED body

-----------------------------------------------------------------------------
AuthStep(r) == CountUsers(r) \/ InsertUser(r) \/ SignTokens(r)
UserStep(r) == ReadUser(r) \/ WriteUser(r) \/ DeleteUser(r)

Existing == {i \in Ids : Exists(i)}

Arrives(r) ==
  \/ \E n \in Names, p \in Passwords : Login(r, n, p)
  \/ \E n \in Names, role \in NewRoles, p \in Passwords : Register(r, n, role, p)
  \/ \E t \in tokens :
       \/ Refresh(r, t)
       \/ \E n \in Names, role \in NewRoles, p \in Passwords : CreateUser(r, t, n, role, p)
       \/ \E i \in Existing, e \in Edits : PatchUser(r, t, i, e)
       \/ \E i \in Existing : RemoveUser(r, t, i)
       \/ \E p \in Passwords : ChangePassword(r, t, p)
       \/ OwnProfile(r, t)

Next == \E r \in Requests : Arrives(r) \/ AuthStep(r) \/ UserStep(r)

Spec == Init /\ [][Next]_vars

-----------------------------------------------------------------------------
(* Properties *)

AccountStates == {"idle", "counting", "bootstrapping", "registering", "creating",
                  "signing", "reading", "writing", "removing", "answered",
                  "invalid", "deactivated", "error"}

Fields == [role |-> Roles \cup {None}, isActive |-> BOOLEAN \cup {None},
           password |-> Passwords \cup {None}]

\* A body, or what is left of it without the protected fields.
EditBody(b) == DOMAIN b \in {Columns, Columns \ Protected} /\ \A f \in DOMAIN b : b[f] \in Fields[f]

TypeOK ==
  /\ users \in [Ids -> Accounts \cup {NoAccount}]
  /\ tokens \subseteq [sub : Ids, role : Roles]
  /\ pc \in [Requests -> AccountStates]
  /\ claim \in [Requests -> Roles \cup {None}]
  /\ target \in [Requests -> Ids \cup {None}]
  /\ \A r \in Requests :
       CASE pc[r] \in Inserting -> body[r] \in Accounts
         [] pc[r] \in {"reading", "writing"} -> EditBody(body[r])
         [] OTHER -> body[r] \in Accounts \cup Passwords \cup {None}
  /\ row \in [Requests -> Accounts \cup {NoAccount}]
  /\ intended \in [Ids -> Accounts \cup {NoAccount}]
  /\ overwritten \subseteq Ids

\* However sign-ups for one user name race past the check before the hash,
\* two accounts never share a name: a login finds the account it means.
NamesDiffer == \A i, j \in Ids : Exists(i) /\ users[i].username = users[j].username => i = j

\* "Only provided fields will be updated": an account is what its requests
\* made of it, each field as last given, however their reads and writes
\* interleave.  The exception is an update by another role than ADMIN, which
\* writes role and isActive back as it read them.
UpdatesStick ==
  \A i \in Ids \ overwritten :
    Exists(i) => /\ users[i].role = intended[i].role
                 /\ users[i].isActive = intended[i].isActive
                 /\ users[i].password = intended[i].password

\* "Only ADMIN can change roles or activation status": a request whose token
\* claims less changes neither, except by writing a stale row back.
OnlyAdminsElevate ==
  [][\A i \in Ids, r \in Requests :
       /\ pc[r] = "writing" /\ pc'[r] # "writing" /\ target[r] = i /\ claim[r] # "ADMIN"
       /\ Exists(i) /\ i \notin overwritten'
       => users'[i].role = users[i].role /\ users'[i].isActive = users[i].isActive]_vars

\* A login makes an administrator only of a database that was empty after it
\* arrived: never while an account lives that was there before.
BootstrapsOnlyEmpty ==
  [][\A r \in Requests, i \in Seeded :
       pc[r] = "bootstrapping" /\ users'[r] # NoAccount => ~Exists(i)]_vars

\* Whoever knows the password last given for an active account can log in,
\* and a change of it goes through ("New password", "Change current user
\* password").
RightPasswordIsAccepted ==
  [][\A r \in Requests :
       /\ pc[r] = "idle" /\ pc'[r] \in {"invalid", "error"}
       /\ target'[r] \notin overwritten
       => body'[r] # intended[target'[r]].password]_vars
=============================================================================
