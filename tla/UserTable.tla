------------------------------ MODULE UserTable ------------------------------
(***************************************************************************)
(* The accounts of the exchange: class User and class UserTable of         *)
(* 3/User.h and 3/User.cpp.                                                *)
(*                                                                         *)
(* Two maps index the same accounts: users (by uid) and logins (uid by     *)
(* login).  A uid is never given back, so uids are 1 .. maxUid-1.          *)
(***************************************************************************)
EXTENDS Integers

CONSTANTS Logins,      \* names a client may register or log in with
          Passwords    \* passwords a client may type

VARIABLES maxUid,      \* UserTable::maxUid, the next uid
          users,       \* UserTable::users, uid -> account
          logins       \* UserTable::logins, login -> uid

tableVars == <<maxUid, users, logins>>

\* map[key] = value
Put(map, key, value) ==
    [k \in DOMAIN map \cup {key} |-> IF k = key THEN value ELSE map[k]]

UserType == [login : Logins, password : Passwords, usd : Int, rub : Int]

TableInit ==
    /\ maxUid = 1
    /\ users = <<>>
    /\ logins = <<>>

\* IsUserInTable of a login.
IsLoginInTable(login) == login \in DOMAIN logins

IsUserDataCorrect(login, password) ==
    IsLoginInTable(login) /\ users[logins[login]].password = password

\* GetUid: 0 is no account's uid.
GetUid(login) == IF IsLoginInTable(login) THEN logins[login] ELSE 0

NewUser(login, password) ==
    [login |-> login, password |-> password, usd |-> 0, rub |-> 0]

\* Faulty variants of AddUser: the uid is not advanced; it is advanced too early.
AddUserSameUid(login, password) ==
    IF IsLoginInTable(login)
    THEN UNCHANGED tableVars
    ELSE /\ maxUid' = maxUid
         /\ logins' = Put(logins, login, maxUid)
         /\ users' = Put(users, maxUid, NewUser(login, password))
AddUserPreIncrement(login, password) ==
    IF IsLoginInTable(login)
    THEN UNCHANGED tableVars
    ELSE /\ maxUid' = maxUid + 1
         /\ logins' = Put(logins, login, maxUid')
         /\ users' = Put(users, maxUid', NewUser(login, password))

\* AddUser: a new account gets the next uid and both maps get an entry.  A login
\* that is taken changes nothing.
AddUser(login, password) ==
    IF IsLoginInTable(login)
    THEN UNCHANGED tableVars
    ELSE /\ maxUid' = maxUid + 1
         /\ logins' = Put(logins, login, maxUid)
         /\ users' = Put(users, maxUid, NewUser(login, password))

\* AddUser's return value.
AddedUid(login) == IF IsLoginInTable(login) THEN 0 ELSE maxUid

\* User::AddUsd and User::AddRub.
AddUsd(user, volume) == [user EXCEPT !.usd = @ + volume]
AddRub(user, volume) == [user EXCEPT !.rub = @ + volume]

\* AddUsdToUser and AddRubToUser on one account, the way the matching loops call
\* them: dollars first, then roubles, and neither for a uid without an account.
Credit(table, uid, usd, rub) ==
    IF uid \in DOMAIN table
    THEN [table EXCEPT ![uid] = AddRub(AddUsd(table[uid], usd), rub)]
    ELSE table

=============================================================================
