--------------------------- MODULE PersonalAccount ---------------------------
(* The account of one Telegram user: the beta grant, login, and erasure with *)
(* everything the account owns, while the collection adds to its history.   *)
EXTENDS Integers

CONSTANTS
    Visits,          \* requests of the web processes
    BetaRequired,    \* BETA_ACCESS_REQUIRED
    MaxAccounts      \* bound of the accounts created one after the other

ASSUME AccountAssumption == MaxAccounts \in Nat /\ BetaRequired \in BOOLEAN

VARIABLES
    account,         \* id of user, identity and tenant, created together; 0: none
    created,         \* ids given so far
    grant,           \* BetaAccessGrant: its state and the user who redeemed it
    hasHistory,      \* the tenant has price observations
    ownBot,          \* the tenant's bot; "deaf" once its webhook was removed
    visit            \* what each request has read

accountVars == <<account, created, grant, hasHistory, ownBot, visit>>

Away == [at |-> "away", id |-> 0]
GrantLocked == BetaRequired /\ \E v \in Visits : visit[v].at = "creating"

AccountInit ==
    /\ account = 0 /\ created = 0 /\ hasHistory = FALSE /\ ownBot = "none"
    /\ grant = [state |-> "none", redeemer |-> 0]
    /\ visit = [v \in Visits |-> Away]

(* register_beta_user.                                                      *)
RegisterBeta ==
    /\ ~ GrantLocked
    /\ \E s \in {"active", "disabled"} : grant' = [grant EXCEPT !.state = s]
    /\ UNCHANGED <<account, created, hasHistory, ownBot, visit>>

(* login_or_create_telegram_user: the grant is locked until the end of the  *)
(* transaction; a known identity redeems it, an unknown one is created.     *)
MayLogIn == BetaRequired => grant.state = "active"
Redeemed(id) == IF BetaRequired THEN [grant EXCEPT !.redeemer = id] ELSE grant

LogInAgain(v) ==
    /\ visit[v].at = "away" /\ ~ GrantLocked /\ MayLogIn /\ account # 0
    /\ grant' = Redeemed(account)
    /\ UNCHANGED <<account, created, hasHistory, ownBot, visit>>

FirstLogin(v) ==
    /\ visit[v].at = "away" /\ ~ GrantLocked /\ MayLogIn /\ account = 0
    /\ visit' = [visit EXCEPT ![v].at = "creating"]
    /\ UNCHANGED <<account, created, grant, hasHistory, ownBot>>

(* A unique constraint refuses the second of two first logins: rolled back. *)
CreateAccount(v) ==
    /\ visit[v].at = "creating" /\ created < MaxAccounts
    /\ visit' = [visit EXCEPT ![v] = Away]
    /\ IF account # 0 THEN UNCHANGED <<account, created, grant, hasHistory>>
       ELSE /\ account' = created + 1 /\ created' = created + 1
            /\ grant' = Redeemed(created + 1)
            /\ hasHistory' = FALSE
    /\ UNCHANGED ownBot

ConnectAccountBot ==
    /\ account # 0 /\ ownBot = "none"
    /\ ownBot' = "connected"
    /\ UNCHANGED <<account, created, grant, hasHistory, visit>>

(* A collection stores the first observation of the tenant's products.      *)
Observe ==
    /\ account # 0 /\ ~ hasHistory
    /\ hasHistory' = TRUE
    /\ UNCHANGED <<account, created, grant, ownBot, visit>>

(* delete_personal_account reads tenant and bot, removes the webhook as best *)
(* it can, reads the identity, and erases in a transaction.                 *)
StartErasure(v) ==
    /\ visit[v].at = "away" /\ account # 0
    /\ visit' = [visit EXCEPT ![v] =
           [at |-> IF ownBot = "none" THEN "looking" ELSE "unhooking", id |-> account]]
    /\ UNCHANGED <<account, created, grant, hasHistory, ownBot>>

RemoveWebhook(v) ==
    /\ visit[v].at = "unhooking"
    /\ \/ ownBot' = IF account = visit[v].id /\ ownBot # "none" THEN "deaf" ELSE ownBot
       \/ UNCHANGED ownBot
    /\ visit' = [visit EXCEPT ![v].at = "looking"]
    /\ UNCHANGED <<account, created, grant, hasHistory>>

(* Of an account erased meanwhile there is no identity, and then nothing    *)
(* the transaction would delete: the grant is looked up by the identity.    *)
ReadIdentity(v) ==
    /\ visit[v].at = "looking"
    /\ visit' = [visit EXCEPT ![v] =
           IF account = visit[v].id THEN [@ EXCEPT !.at = "erasing"] ELSE Away]
    /\ UNCHANGED <<account, created, grant, hasHistory, ownBot>>

(* Wrong one: whatever account the Telegram user has by now is erased.      *)
EraseByTelegramUser(v) ==
    /\ visit[v].at = "erasing"
    /\ visit' = [visit EXCEPT ![v] = Away]
    /\ account' = 0 /\ ownBot' = "none" /\ hasHistory' = FALSE
    /\ grant' = [state |-> "none", redeemer |-> 0]
    /\ UNCHANGED created

(* PriceObservation protects its source, so a tenant with history cannot be *)
(* deleted: ProtectedError, and the transaction is rolled back. If another  *)
(* request has erased the account since its identity was read, user and     *)
(* tenant are gone, but the grant goes too: also one registered or redeemed *)
(* anew.                                                                    *)
Erase(v) ==
    LET mine == account = visit[v].id IN
    /\ visit[v].at = "erasing"
    /\ visit' = [visit EXCEPT ![v] = Away]
    /\ ~ GrantLocked
    /\ IF mine /\ hasHistory THEN UNCHANGED <<account, grant, ownBot, hasHistory>>
       ELSE /\ grant' = [state |-> "none", redeemer |-> 0]
            /\ IF mine THEN account' = 0 /\ ownBot' = "none" /\ hasHistory' = FALSE
               ELSE UNCHANGED <<account, ownBot, hasHistory>>
    /\ UNCHANGED created

AccountNext ==
    \/ \E v \in Visits : \/ LogInAgain(v) \/ FirstLogin(v) \/ CreateAccount(v)
                         \/ StartErasure(v) \/ RemoveWebhook(v)
                         \/ ReadIdentity(v) \/ Erase(v)
    \/ RegisterBeta \/ ConnectAccountBot \/ Observe

AccountSpec == AccountInit /\ [][AccountNext]_accountVars

----------------------------------------------------------------------------
(* Every variable holds a value of its type.                                *)
AccountTypeOK ==
    /\ created \in 0 .. MaxAccounts /\ account \in 0 .. created
    /\ grant \in [state: {"none", "active", "disabled"}, redeemer: 0 .. created]
    /\ hasHistory \in BOOLEAN /\ ownBot \in {"none", "connected", "deaf"}
    /\ visit \in [Visits -> [at: {"away", "creating", "unhooking", "looking", "erasing"},
                            id: 0 .. created]]

(* An account is never replaced by another, and is erased only by a request *)
(* that was made for it, not by one for an account before it.               *)
ErasedByItsOwner ==
    [][account' # account /\ account # 0 =>
          /\ account' = 0
          /\ \E v \in Visits : visit[v].at = "erasing" /\ visit[v].id = account]_accountVars

(* What the privacy page promises: once the erasure the user asked for is   *)
(* over, the account is gone, with its products and history.                *)
ErasureErases ==
    [][\A v \in Visits : visit[v].at = "erasing" /\ visit'[v].at # "erasing"
                            => account' # visit[v].id]_accountVars
=============================================================================
