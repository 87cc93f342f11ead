------------------------------ MODULE Accounts ------------------------------
(***************************************************************************)
(* Accounts and the wallets they are reached by: the wallet providers of   *)
(* the two web apps ask for a challenge, have it signed and log in;        *)
(* walletLogin of auth.service.ts takes the challenge, looks the wallet up *)
(* and writes its user or makes a new one; wallets.service.ts adds and     *)
(* disconnects wallets and users.service.ts suspends, reactivates and      *)
(* deletes users.  Refreshing and roles are left out.                      *)
(***************************************************************************)
CONSTANTS
    Addresses,      \* wallet addresses
    Logins,         \* calls of walletLogin; a user it makes goes by its name
    Absentee        \* no user

\* What is known of the constants.
ASSUME AccountsAssumption == Absentee \notin Logins \cup Addresses

VARIABLES
    userStatus,     \* users.status, "Absent" before the insert
    erased,         \* the users with a deletedAt
    holder,         \* wallets.userId of the row with this address
    walletStatus,   \* wallets.status, "Absent" before the insert
    challenge,      \* the address of a login's challenge, while it is valid
    login           \* what each login does next and the user it is about

accountVars == <<userStatus, erased, holder, walletStatus, challenge, login>>

LoginAwait == {"none", "sign", "take", "look", "known", "wallet", "new", "tokens", "done",
    "refused"}

AccountsTypeOK ==
    /\ userStatus \in [Logins -> {"Absent", "ACTIVE", "SUSPENDED", "DELETED"}]
    /\ erased \subseteq Logins
    /\ holder \in [Addresses -> Logins \cup {Absentee}]
    /\ walletStatus \in [Addresses -> {"Absent", "ACTIVE", "DISCONNECTED", "REVOKED"}]
    /\ challenge \in [Logins -> Addresses \cup {Absentee}]
    /\ login \in [Logins -> [at : LoginAwait, user : Logins \cup {Absentee},
                             address : Addresses \cup {Absentee}]]

AccountsInit ==
    /\ userStatus = [l \in Logins |-> "Absent"]
    /\ erased = {}
    /\ holder = [a \in Addresses |-> Absentee]
    /\ walletStatus = [a \in Addresses |-> "Absent"]
    /\ challenge = [l \in Logins |-> Absentee]
    /\ login = [l \in Logins |-> [at |-> "none", user |-> Absentee, address |-> Absentee]]

LoginGoto(l, await) == login' = [login EXCEPT ![l].at = await]

\* connect: the page asks for a challenge, kept for five minutes.
issueWalletChallenge(l, a) ==
    /\ login[l].at = "none"
    /\ challenge' = [challenge EXCEPT ![l] = a]
    /\ login' = [login EXCEPT ![l].at = "sign", ![l].address = a]
    /\ UNCHANGED <<userStatus, erased, holder, walletStatus>>

ExpireChallenge(l) ==
    /\ challenge[l] # Absentee
    /\ challenge' = [challenge EXCEPT ![l] = Absentee]
    /\ UNCHANGED <<userStatus, erased, holder, walletStatus, login>>

\* The signed challenge arrives; the cache is asked for the nonce.
CheckNonce(l) ==
    /\ login[l].at = "sign"
    /\ LoginGoto(l, IF challenge[l] = login[l].address THEN "take" ELSE "refused")
    /\ UNCHANGED <<userStatus, erased, holder, walletStatus, challenge>>

\* The nonce is deleted, the signature is that of the address or it is not.
TakeNonce(l) ==
    /\ login[l].at = "take"
    /\ challenge' = [challenge EXCEPT ![l] = Absentee]
    /\ LoginGoto(l, "look") \/ LoginGoto(l, "refused")
    /\ UNCHANGED <<userStatus, erased, holder, walletStatus>>

LookWallet(l) ==
    /\ login[l].at = "look"
    /\ LET u == holder[login[l].address]
       IN login' = [login EXCEPT ![l].user = u,
                                 ![l].at = IF u = Absentee THEN "new" ELSE "known"]
    /\ UNCHANGED <<userStatus, erased, holder, walletStatus, challenge>>

\* The user of a known wallet is active from now on, whatever it was before.
UseUser(l) ==
    /\ login[l].at = "known"
    /\ userStatus' = [userStatus EXCEPT ![login[l].user] = "ACTIVE"]
    /\ LoginGoto(l, "wallet")
    /\ UNCHANGED <<erased, holder, walletStatus, challenge>>

UseWallet(l) ==
    /\ login[l].at = "wallet"
    /\ walletStatus' = [walletStatus EXCEPT ![login[l].address] = "ACTIVE"]
    /\ LoginGoto(l, "tokens")
    /\ UNCHANGED <<userStatus, erased, holder, challenge>>

\* Mutant of CreateUser: the user first, the wallet in an insert of its own.
CreateUserFirst(l) ==
    /\ login[l].at = "new"
    /\ userStatus' = [userStatus EXCEPT ![l] = "ACTIVE"]
    /\ IF holder[login[l].address] = Absentee
       THEN /\ holder' = [holder EXCEPT ![login[l].address] = l]
            /\ walletStatus' = [walletStatus EXCEPT ![login[l].address] = "ACTIVE"]
            /\ login' = [login EXCEPT ![l].at = "tokens", ![l].user = l]
       ELSE UNCHANGED <<holder, walletStatus>> /\ LoginGoto(l, "refused")
    /\ UNCHANGED <<erased, challenge>>

\* One nested insert of user and wallet: if the address has a row by now, the
\* unique index on it refuses both.
CreateUser(l) ==
    LET a == login[l].address
    IN  /\ login[l].at = "new"
        /\ IF holder[a] = Absentee
           THEN /\ userStatus' = [userStatus EXCEPT ![l] = "ACTIVE"]
                /\ holder' = [holder EXCEPT ![a] = l]
                /\ walletStatus' = [walletStatus EXCEPT ![a] = "ACTIVE"]
                /\ login' = [login EXCEPT ![l].at = "tokens", ![l].user = l]
           ELSE UNCHANGED <<userStatus, holder, walletStatus>> /\ LoginGoto(l, "refused")
        /\ UNCHANGED <<erased, challenge>>

generateTokens(l) ==
    /\ login[l].at = "tokens"
    /\ LoginGoto(l, "done")
    /\ UNCHANGED <<userStatus, erased, holder, walletStatus, challenge>>

\* An await throws, or the process goes down.
ThrowLogin(l) ==
    /\ login[l].at \in {"take", "look", "known", "wallet", "new", "tokens"}
    /\ LoginGoto(l, "refused")
    /\ UNCHANGED <<userStatus, erased, holder, walletStatus, challenge>>

\* wallets.service.ts
addWallet(u, a) ==
    /\ userStatus[u] # "Absent"
    /\ holder[a] = Absentee
    /\ holder' = [holder EXCEPT ![a] = u]
    /\ walletStatus' = [walletStatus EXCEPT ![a] = "ACTIVE"]
    /\ UNCHANGED <<userStatus, erased, challenge, login>>

disconnect(a) ==
    /\ holder[a] # Absentee
    /\ walletStatus' = [walletStatus EXCEPT ![a] = "DISCONNECTED"]
    /\ UNCHANGED <<userStatus, erased, holder, challenge, login>>

updateWallet(a, status) ==
    /\ holder[a] # Absentee
    /\ walletStatus' = [walletStatus EXCEPT ![a] = status]
    /\ UNCHANGED <<userStatus, erased, holder, challenge, login>>

\* users.service.ts
setStatus(u, status) ==
    /\ userStatus[u] # "Absent"
    /\ userStatus' = [userStatus EXCEPT ![u] = status]
    /\ UNCHANGED <<erased, holder, walletStatus, challenge, login>>

\* The administrator's delete leaves the wallets alone, the user's own revokes
\* them.
softDelete(u) ==
    /\ userStatus[u] # "Absent"
    /\ userStatus' = [userStatus EXCEPT ![u] = "DELETED"]
    /\ erased' = erased \cup {u}
    /\ UNCHANGED <<holder, walletStatus, challenge, login>>

deleteOwnAccount(u) ==
    /\ userStatus[u] # "Absent"
    /\ userStatus' = [userStatus EXCEPT ![u] = "DELETED"]
    /\ erased' = erased \cup {u}
    /\ walletStatus' = [a \in Addresses |-> IF holder[a] = u THEN "REVOKED" ELSE walletStatus[a]]
    /\ UNCHANGED <<holder, challenge, login>>

AccountsNext ==
    \/ \E l \in Logins :
        \/ ExpireChallenge(l) \/ CheckNonce(l) \/ TakeNonce(l) \/ LookWallet(l)
        \/ UseUser(l) \/ UseWallet(l) \/ CreateUser(l) \/ generateTokens(l) \/ ThrowLogin(l)
        \/ softDelete(l) \/ deleteOwnAccount(l)
        \/ \E a \in Addresses : issueWalletChallenge(l, a) \/ addWallet(l, a)
        \/ \E status \in {"ACTIVE", "SUSPENDED"} : setStatus(l, status)
    \/ \E a \in Addresses : disconnect(a)
    \/ \E a \in Addresses, status \in {"ACTIVE", "DISCONNECTED", "REVOKED"} : updateWallet(a,
        status)

AccountsSpec == AccountsInit /\ [][AccountsNext]_accountVars

-----------------------------------------------------------------------------
\* Every account a wallet login made can be reached again: it holds a wallet,
\* also when two first logins with one address race (CreateUser), and however
\* wallets are disconnected and accounts suspended or deleted since.
AccountsHoldTheirWallet ==
    \A u \in Logins : userStatus[u] # "Absent" => \E a \in Addresses : holder[a] = u
=============================================================================
