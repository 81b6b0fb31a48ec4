-------------------------------- MODULE Auth --------------------------------
(***************************************************************************)
(* Users, groups and permissions: class AuthManager, the file it keeps     *)
(* them in, and the commands of the entry point that log in and that       *)
(* change them.  Every method holds one mutex; a change writes the whole   *)
(* file again before it lets go of it.  The process may be killed at every *)
(* line, the file may not open, and a line may not be written; nobody      *)
(* looks at the state of the stream, and the client is answered as ever.   *)
(* A command that changes something asks first whether its user is an      *)
(* administrator and takes the mutex again for the change.                 *)
(*                                                                         *)
(* Assumptions: names of users, groups and databases hold no colon, comma  *)
(* or equals sign, and a line is written whole or not at all.              *)
(***************************************************************************)
EXTENDS Naturals

CONSTANTS
  Clients, Users, Groups, Databases,
  Operations,  \* what a flag of a permission allows
  Salts,       \* the salts a new user may get, by what load() makes of them
  MaxFaults,   \* bound of kills, of files that do not open and of lines not written
  MaxCommands

Nothing == [x \in {} |-> x]

\* Flags of one database each.
Flags == SUBSET Operations

Maps(keys, values) == UNION {[ks -> values] : ks \in SUBSET keys}

Permissions == Maps(Databases, Flags)

\* A salt is any printable text.  A "plain" one reads back; one with a "colon" spells
\* groups and, after a second colon, permissions; a "fatal" one has two colons and,
\* behind an equals sign, no number.  What is left of a salt with a colon is "broken".
SaltTexts == [kind : {"plain", "colon", "fatal"}, groups : SUBSET Groups, permissions : Permissions]

Broken == [kind |-> "broken", groups |-> {}, permissions |-> Nothing]

ASSUME AuthAssumption ==
  /\ "admin" \in Users /\ "admin" \in Groups
  /\ "nobody" \notin Users \cup Clients /\ "starting" \notin Clients
  /\ Salts \subseteq SaltTexts
  /\ \A salt \in Salts : salt.kind = "plain" => salt.groups = {} /\ salt.permissions = Nothing
  /\ MaxFaults \in Nat /\ MaxCommands \in Nat

VARIABLES
  alive,     \* the process runs
  memory,    \* what AuthManager knows; of a dead process, what it knew
  file,      \* what the lines of the file say
  saving,    \* the client whose thread is inside save(), or Starting, or Nobody
  stream,    \* the file stream of the last save: "none" yet, "good", "bad", "unopened"
  session,   \* per connection: current_user, the command and how far it is
  tokens,    \* history: the tokens given out that are not an hour old
  promised,  \* history: what clients were told has been done
  durable,   \* history: the promises that the last whole save has made last
  faults, commands

vars == <<alive, memory, file, saving, stream, session, tokens, promised, durable,
          faults, commands>>

\* A map with one entry more, or another one in its place.
Put(f, k, v) == [x \in DOMAIN f \cup {k} |-> IF x = k THEN v ELSE f[x]]

Empty   == [secret |-> 0, users |-> Nothing, groups |-> Nothing, defaults |-> Nothing]

Nobody   == "nobody"
Starting == "starting"

\* Whose permissions a command sets.
Owners == [kind : {"user"}, user : Users] \cup [kind : {"group"}, group : Groups]
            \cup [kind : {"everyone"}]

Commands ==
  [method : {"createUser"}, user : Users, admin : BOOLEAN]
    \cup [method : {"addGroup"}, group : Groups]
    \cup [method : {"addUserToGroup"}, user : Users, group : Groups]
    \cup [method : {"setPermissions"}, owner : Owners, db : Databases, flags : Flags]

Idle(user) == [user |-> user, stage |-> "idle", command |-> Nothing]

-----------------------------------------------------------------------------
(* Questions *)

IsAdmin(m, u) == u \in DOMAIN m.users /\ "admin" \in m.users[u].groups

Grants(permissions, db, op) == db \in DOMAIN permissions /\ op \in permissions[db]

\* checkPermission, for the operations on a database.
Allowed(m, u, db, op) ==
  /\ u \in DOMAIN m.users
  /\ \/ Grants(m.users[u].permissions, db, op)
     \/ \E g \in m.users[u].groups \cap DOMAIN m.groups : Grants(m.groups[g], db, op)
     \/ Grants(m.defaults, db, op)

\* A user of a broken line is there, but no password fits.
CanLogin(m, u) == u \in DOMAIN m.users /\ m.users[u].salt # Broken

-----------------------------------------------------------------------------
(* Saving *)

\* Mutant: the secret comes last.
NextFiles_SecretLast(m, f) ==
  IF DOMAIN f.users # DOMAIN m.users
  THEN {[f EXCEPT !.users = Put(@, u, m.users[u])] : u \in DOMAIN m.users \ DOMAIN f.users}
  ELSE IF DOMAIN f.groups # DOMAIN m.groups
  THEN {[f EXCEPT !.groups = Put(@, g, m.groups[g])] : g \in DOMAIN m.groups \ DOMAIN f.groups}
  ELSE IF DOMAIN f.defaults # DOMAIN m.defaults
  THEN {[f EXCEPT !.defaults = Put(@, d, m.defaults[d])] :
          d \in DOMAIN m.defaults \ DOMAIN f.defaults}
  ELSE IF f.secret = 0 THEN {[f EXCEPT !.secret = m.secret]} ELSE {}

\* The file with the next line of save(): first the secret, then the users, the groups
\* and the defaults, each in the order of a hash map.
NextFiles(m, f) ==
  IF f.secret = 0 THEN {[f EXCEPT !.secret = m.secret]}
  ELSE IF DOMAIN f.users # DOMAIN m.users
  THEN {[f EXCEPT !.users = Put(@, u, m.users[u])] : u \in DOMAIN m.users \ DOMAIN f.users}
  ELSE IF DOMAIN f.groups # DOMAIN m.groups
  THEN {[f EXCEPT !.groups = Put(@, g, m.groups[g])] : g \in DOMAIN m.groups \ DOMAIN f.groups}
  ELSE {[f EXCEPT !.defaults = Put(@, d, m.defaults[d])] :
          d \in DOMAIN m.defaults \ DOMAIN f.defaults}

\* Mutant: what the file says is kept.
BeginSave_Kept(who, replaced) ==
  saving' = who /\ file' = file /\ stream' = "good" /\ durable' = {} /\ faults' = faults

\* The file is opened, and thereby emptied, or it cannot be opened, and stands.  The
\* promises in replaced are taken back.
BeginSave(who, replaced) ==
  /\ saving' = who
  /\ \/ file' = Empty /\ stream' = "good" /\ durable' = {} /\ faults' = faults
     \/ /\ faults < MaxFaults /\ faults' = faults + 1
        /\ file' = file /\ stream' = "unopened" /\ durable' = durable \ replaced

WriteLine ==
  /\ alive /\ saving # Nobody /\ stream = "good"
  /\ file' \in NextFiles(memory, file)
  /\ UNCHANGED <<alive, memory, saving, stream, session, tokens, promised, durable,
                 faults, commands>>

\* A line cannot be written, and with it none of those that follow.
WriteFails ==
  /\ alive /\ saving # Nobody /\ stream = "good" /\ NextFiles(memory, file) # {}
  /\ faults < MaxFaults /\ faults' = faults + 1
  /\ stream' = "bad"
  /\ UNCHANGED <<alive, memory, file, saving, session, tokens, promised, durable, commands>>

\* save() comes to its end.
Saved(who) == alive /\ saving = who /\ (stream = "good" => NextFiles(memory, file) = {})

\* What lasts of what has been promised when it does.
Lasting(promises) == IF stream = "good" THEN promises ELSE durable

-----------------------------------------------------------------------------
(* Promises *)

UserThere(u)         == [kind |-> "user", user |-> u]
GroupThere(g)        == [kind |-> "group", group |-> g]
InGroup(u, g)        == [kind |-> "member", user |-> u, group |-> g]
Given(owner, db, fs) == [kind |-> "flags", owner |-> owner, db |-> db, flags |-> fs]

\* What the answer to a command tells its client.  A permission for a user or a
\* group that is not there is answered like any other, and is none.
Promise(command) ==
  IF command.method = "createUser"
  THEN {UserThere(command.user)}
         \cup (IF command.admin THEN {InGroup(command.user, "admin")} ELSE {})
  ELSE IF command.method = "addGroup" THEN {GroupThere(command.group)}
  ELSE IF command.method = "addUserToGroup" THEN {InGroup(command.user, command.group)}
  ELSE {Given(command.owner, command.db, command.flags)}

\* The promises a command takes back when it is carried out.
Replaced(command) ==
  IF command.method = "setPermissions"
  THEN {Given(command.owner, command.db, flags) : flags \in Flags}
  ELSE {}

\* The first start promises an administrator.
FirstPromises == {UserThere("admin"), GroupThere("admin"), InGroup("admin", "admin")}

-----------------------------------------------------------------------------
(* Changes, by a client whose command was found permitted *)

Mutex(c, stage) == alive /\ saving = Nobody /\ session[c].stage = stage

\* The change is made and its save begins.
Change(c, m) ==
  /\ memory' = m
  /\ BeginSave(c, Replaced(session[c].command))
  /\ promised' = promised \ Replaced(session[c].command)
  /\ UNCHANGED <<alive, session, tokens, commands>>

\* Nothing is changed, and the command is at its end.
Refuse(c) ==
  /\ session' = [session EXCEPT ![c] = Idle(@.user)]
  /\ UNCHANGED <<alive, memory, file, saving, stream, tokens, promised, durable,
                 faults, commands>>

\* Mutant: a user who is there is replaced.
CreateUser_Anew(c) ==
  LET command == session[c].command IN
  /\ Mutex(c, "checked") /\ command.method = "createUser"
  /\ \E salt \in Salts :
       Change(c, [memory EXCEPT !.users =
                    Put(@, command.user, [salt |-> salt, groups |-> {},
                                          permissions |-> Nothing])])

CreateUser(c) ==
  LET command == session[c].command IN
  /\ Mutex(c, "checked") /\ command.method = "createUser"
  /\ IF command.user \in DOMAIN memory.users THEN Refuse(c)
     ELSE \E salt \in Salts :
            Change(c, [memory EXCEPT !.users =
                         Put(@, command.user, [salt |-> salt, groups |-> {},
                                               permissions |-> Nothing])])

AddGroup(c) ==
  LET command == session[c].command IN
  /\ Mutex(c, "checked") /\ command.method = "addGroup"
  /\ IF command.group \in DOMAIN memory.groups THEN Refuse(c)
     ELSE Change(c, [memory EXCEPT !.groups = Put(@, command.group, Nothing)])

\* Mutant: the new group takes the place of the others.
Member_Only(u, g) == [memory EXCEPT !.users[u].groups = {g}]

Member(u, g) == [memory EXCEPT !.users[u].groups = @ \cup {g}]

AddUserToGroup(c) ==
  LET command == session[c].command IN
  /\ Mutex(c, "checked") /\ command.method = "addUserToGroup"
  /\ IF /\ command.user \in DOMAIN memory.users
        /\ command.group \in DOMAIN memory.groups
        /\ command.group \notin memory.users[command.user].groups
     THEN Change(c, Member(command.user, command.group))
     ELSE Refuse(c)

\* The second half of CREATE USER ... ADMIN.  Its result is not looked at: after a
\* kill inside save() there may be no group "admin", and the user is none.
MakeAdmin(c) ==
  LET u == session[c].command.user IN
  /\ Mutex(c, "created")
  /\ IF u \in DOMAIN memory.users /\ "admin" \in DOMAIN memory.groups
        /\ "admin" \notin memory.users[u].groups
     THEN Change(c, Member(u, "admin"))
     ELSE /\ session' = [session EXCEPT ![c] = Idle(@.user)]
          /\ promised' = promised \cup {UserThere(u)}
                          \cup (IF IsAdmin(memory, u) THEN {InGroup(u, "admin")} ELSE {})
          /\ durable' = Lasting(promised')
          /\ UNCHANGED <<alive, memory, file, saving, stream, tokens, faults, commands>>

\* setUserDBPermissions, setGroupDBPermissions, setDefaultDBPermissions
SetPermissions(c) ==
  LET command == session[c].command
      owner   == command.owner
      With(permissions) == Put(permissions, command.db, command.flags)
  IN  /\ Mutex(c, "checked") /\ command.method = "setPermissions"
      /\ \/ /\ owner.kind = "user"
            /\ IF owner.user \in DOMAIN memory.users
               THEN Change(c, [memory EXCEPT !.users[owner.user].permissions = With(@)])
               ELSE Refuse(c)
         \/ /\ owner.kind = "group"
            /\ IF owner.group \in DOMAIN memory.groups
               THEN Change(c, [memory EXCEPT !.groups[owner.group] = With(@)])
               ELSE Refuse(c)
         \/ /\ owner.kind = "everyone"
            /\ Change(c, [memory EXCEPT !.defaults = With(@)])

\* Mutant: the mutex is kept.
EndSave_Locked(c) ==
  /\ Saved(c)
  /\ session' = [session EXCEPT ![c] = Idle(@.user)]
  /\ promised' = promised \cup Promise(session[c].command)
  /\ durable' = Lasting(promised')
  /\ UNCHANGED <<alive, memory, file, saving, stream, tokens, faults, commands>>

\* The command is answered, unless its second half is due.
EndSave(c) ==
  LET s == session[c]
      halfway == s.stage = "checked" /\ s.command.method = "createUser" /\ s.command.admin
  IN  /\ Saved(c)
      /\ saving' = Nobody
      /\ session' = [session EXCEPT ![c] = IF halfway THEN [@ EXCEPT !.stage = "created"]
                                           ELSE Idle(@.user)]
      /\ promised' = IF halfway THEN promised ELSE promised \cup Promise(s.command)
      /\ durable' = Lasting(promised')
      /\ UNCHANGED <<alive, memory, file, stream, tokens, faults, commands>>

-----------------------------------------------------------------------------
(* Sessions *)

\* LOGIN, on a connection without a user.
Login(c, u) ==
  /\ Mutex(c, "idle") /\ session[c].user = Nobody
  /\ CanLogin(memory, u)
  /\ tokens' = tokens \cup {[user |-> u, secret |-> memory.secret]}
  /\ UNCHANGED <<alive, memory, file, saving, stream, session, promised, durable,
                 faults, commands>>

\* BEARER: the signature fits the secret; who the user is now is not looked up.
Accepted(t) == t.secret = memory.secret

Bearer(c, t) ==
  /\ alive /\ saving # Starting
  /\ session[c] = Idle(Nobody)
  /\ Accepted(t)
  /\ session' = [session EXCEPT ![c].user = t.user]
  /\ UNCHANGED <<alive, memory, file, saving, stream, tokens, promised, durable,
                 faults, commands>>

\* An hour has passed since the token was given out.
Expire(t) ==
  /\ tokens' = tokens \ {t}
  /\ UNCHANGED <<alive, memory, file, saving, stream, session, promised, durable,
                 faults, commands>>

\* A command that changes something comes in and is found permitted.
Command(c, command) ==
  /\ Mutex(c, "idle") /\ commands < MaxCommands
  /\ IsAdmin(memory, session[c].user)
  /\ session' = [session EXCEPT ![c].stage = "checked", ![c].command = command]
  /\ commands' = commands + 1
  /\ UNCHANGED <<alive, memory, file, saving, stream, tokens, promised, durable, faults>>

Disconnect(c) ==
  /\ session[c].stage = "idle" /\ session[c].user # Nobody
  /\ session' = [session EXCEPT ![c] = Idle(Nobody)]
  /\ UNCHANGED <<alive, memory, file, saving, stream, tokens, promised, durable,
                 faults, commands>>

-----------------------------------------------------------------------------
(* Kill and start *)

\* What no save has made last is lost, a secret that none could write included.
Kill ==
  /\ alive /\ faults < MaxFaults
  /\ alive' = FALSE /\ saving' = Nobody /\ faults' = faults + 1
  /\ session' = [c \in Clients |-> Idle(Nobody)]
  /\ promised' = durable
  /\ tokens' = IF stream = "unopened" /\ file.secret # memory.secret THEN {} ELSE tokens
  /\ UNCHANGED <<memory, file, stream, durable, commands>>

\* What load() makes of the line of a user.  A salt is written as it is, and a
\* colon in it ends the field: the groups are read from the rest of the salt, the
\* permissions begin after a second colon and go on with the groups, which spoil the
\* first of them (which one is first is up to the hash map, but the same for as long
\* as the line stands).
ReadUser(user) ==
  IF user.salt.kind # "colon" THEN user
  ELSE LET p    == user.permissions
           kept == {d \in DOMAIN p : d # CHOOSE e \in DOMAIN p : TRUE}
       IN  [salt        |-> Broken,
            groups      |-> user.salt.groups,
            permissions |-> [d \in kept \cup DOMAIN user.salt.permissions |->
                               IF d \in kept THEN p[d] ELSE user.salt.permissions[d]]]

ReadUsers(f) == [u \in DOMAIN f.users |-> ReadUser(f.users[u])]

\* stoi throws at a fatal salt, and there is no start.
Readable(f) == \A u \in DOMAIN f.users : f.users[u].salt.kind # "fatal"

\* load() found a secret.
Start ==
  /\ ~alive /\ file.secret # 0 /\ Readable(file)
  /\ alive' = TRUE
  /\ memory' = [file EXCEPT !.users = ReadUsers(file)]
  /\ stream' = "none"
  /\ UNCHANGED <<file, saving, session, tokens, promised, durable, faults, commands>>

\* load() found none: there is no file, it is empty, or it cannot be opened.
FirstStart ==
  \E found \in {file, Empty} :
    /\ ~alive /\ found.secret = 0 /\ Readable(found)
    /\ alive' = TRUE
    /\ \E salt \in Salts :
         memory' = [secret   |-> memory.secret + 1,
                    users    |-> Put(ReadUsers(found), "admin",
                                     [salt |-> salt, groups |-> {"admin"},
                                      permissions |-> Nothing]),
                    groups   |-> Put(found.groups, "admin", Nothing),
                    defaults |-> found.defaults]
    /\ BeginSave(Starting, durable)
    /\ promised' = {}
    /\ tokens' = IF found = Empty THEN {} ELSE tokens
    /\ UNCHANGED <<session, commands>>

Started ==
  /\ Saved(Starting)
  /\ saving' = Nobody
  /\ promised' = promised \cup FirstPromises
  /\ durable' = Lasting(promised')
  /\ UNCHANGED <<alive, memory, file, stream, session, tokens, faults, commands>>

-----------------------------------------------------------------------------

Init ==
  /\ alive = FALSE /\ memory = Empty /\ file = Empty /\ saving = Nobody /\ stream = "none"
  /\ session = [c \in Clients |-> Idle(Nobody)]
  /\ tokens = {} /\ promised = {} /\ durable = {} /\ faults = 0 /\ commands = 0

Next ==
  \/ WriteLine \/ WriteFails \/ Kill \/ Start \/ FirstStart \/ Started
  \/ \E c \in Clients :
       \/ CreateUser(c) \/ AddGroup(c) \/ AddUserToGroup(c) \/ MakeAdmin(c)
       \/ SetPermissions(c) \/ EndSave(c) \/ Disconnect(c)
       \/ \E u \in Users : Login(c, u)
       \/ \E t \in tokens : Bearer(c, t)
       \/ \E command \in Commands : Command(c, command)
  \/ \E t \in tokens : Expire(t)

Spec == Init /\ [][Next]_vars

-----------------------------------------------------------------------------
(* Properties *)

Accounts == [salt : Salts \cup {Broken}, groups : SUBSET Groups, permissions : Permissions]

Stores == [secret : 0 .. MaxFaults + 1, users : Maps(Users, Accounts),
           groups : Maps(Groups, Permissions), defaults : Permissions]

Sessions ==
  [user : Users \cup {Nobody}, stage : {"idle"}, command : {Nothing}]
    \cup [user : Users \cup {Nobody}, stage : {"checked", "created"}, command : Commands]

Tokens == [user : Users, secret : 0 .. MaxFaults + 1]

Promises ==
  [kind : {"user"}, user : Users] \cup [kind : {"group"}, group : Groups]
    \cup [kind : {"member"}, user : Users, group : Groups]
    \cup [kind : {"flags"}, owner : Owners, db : Databases, flags : Flags]

TypeOK ==
  /\ alive \in BOOLEAN
  /\ memory \in Stores /\ file \in Stores
  /\ saving \in Clients \cup {Starting, Nobody}
  /\ saving # Nobody => alive
  /\ saving \in Clients => session[saving].stage # "idle"
  /\ stream \in {"none", "good", "bad", "unopened"}
  /\ session \in [Clients -> Sessions]
  /\ tokens \subseteq Tokens /\ promised \subseteq Promises /\ durable \subseteq Promises
  /\ faults \in 0 .. MaxFaults /\ commands \in 0 .. MaxCommands

\* A promise that is kept by what a process knows.  What was promised of a user whose
\* salt has a colon is after a start only that there is one.
Kept(m, p) ==
  LET Spoilt(u) == m.users[u].salt = Broken
      Same(permissions) == p.db \in DOMAIN permissions /\ permissions[p.db] = p.flags
  IN  /\ p.kind = "user"   => p.user \in DOMAIN m.users
      /\ p.kind = "group"  => p.group \in DOMAIN m.groups
      /\ p.kind = "member" =>
           /\ p.user \in DOMAIN m.users
           /\ Spoilt(p.user) \/ p.group \in m.users[p.user].groups
      /\ p.kind = "flags" /\ p.owner.kind = "user" =>
           /\ p.owner.user \in DOMAIN m.users
           /\ Spoilt(p.owner.user) \/ Same(m.users[p.owner.user].permissions)
      /\ p.kind = "flags" /\ p.owner.kind = "group" =>
           /\ p.owner.group \in DOMAIN m.groups
           /\ Same(m.groups[p.owner.group])
      /\ p.kind = "flags" /\ p.owner.kind = "everyone" => Same(m.defaults)

\* What a client was told is so, whichever commands of others ran in between, for as
\* long as the process runs; and once a save was whole, it is still so after any
\* number of kills and starts, until another save has emptied the file and failed or a
\* start could not read it and began anew.
PromisesKept == alive => \A p \in promised : Kept(memory, p)

\* A token is good for its hour, also over restarts, if a start finds anything at all
\* in the file: the secret is on its first line.
TokensHold == alive => \A t \in tokens : Accepted(t)

\* The check and the change are two turns at the mutex, three for CREATE USER ...
\* ADMIN: whoever passed the check is an administrator until the command is done.
StillAdmin == \A c \in Clients : session[c].stage # "idle" => IsAdmin(memory, session[c].user)

\* What the salt of a user spells.
Spelt(u) ==
  IF u \in DOMAIN memory.users THEN memory.users[u].salt ELSE Broken

\* A start, also from a file cut short, gives nobody a right that the process which
\* was killed would have denied, but what a salt with a colon spells; and the first
\* administrator may come back.  Where the last save could not open the file, the
\* start goes back to the one before.
StartsAddNoRight ==
  [][~alive /\ alive' /\ stream # "unopened" =>
       \A u \in Users :
         /\ IsAdmin(memory', u) =>
              IsAdmin(memory, u) \/ u = "admin" \/ "admin" \in Spelt(u).groups
         /\ \A db \in Databases, op \in Operations :
              Allowed(memory', u, db, op) =>
                \/ Allowed(memory, u, db, op)
                \/ Grants(Spelt(u).permissions, db, op)
                \/ \E g \in Spelt(u).groups \cap DOMAIN memory.groups :
                     Grants(memory.groups[g], db, op)]_vars

=============================================================================
