----------------------------- MODULE ManagedBot -----------------------------
(***************************************************************************)
(* One tenant's personal bot: its ManagedBot row, its token and webhook at *)
(* Telegram, and everything that writes the row: the managed_bot webhook,  *)
(* the rotation command, the panel's disconnection, the bot's own webhook, *)
(* check_managed_bots and the delivery of alerts.                          *)
(*                                                                         *)
(* None of them locks the row while it talks to Telegram. Each reads it    *)
(* into a ManagedBot object, changes the object and saves some columns.    *)
(* An action is one read, one call of the Telegram API or one save.        *)
(* Left out: the onboarding session that must be open before the first     *)
(* managed_bot update, names, dates and error codes.                       *)
(***************************************************************************)
EXTENDS Naturals, FiniteSets

CONSTANTS
    Handlers,   \* requests and commands at work at the same time
    MaxToken,   \* bound: tokens issued by Telegram, 1..MaxToken
    MaxSecret,  \* bound: webhook secrets generated, 1..MaxSecret
    MaxFaults   \* bound: crashes, failed calls, changes made elsewhere

ASSUME BotAssumption ==
    MaxToken \in Nat \ {0} /\ MaxSecret \in Nat /\ MaxFaults \in Nat

VARIABLES
    bot,       \* the ManagedBot row
    telegram,  \* what Telegram knows: valid token, secret of the webhook
    secrets,   \* webhook secrets generated so far
    handler,   \* [Handlers -> local state of a request or command]
    stale,     \* history: was the row ever saved from an outdated object
    faults

vars == <<bot, telegram, secrets, handler, stale, faults>>

-----------------------------------------------------------------------------
Status == {"NONE", "CONFIGURING", "AWAITING_START", "ACTIVE", "BLOCKED", "REVOKED",
           "OWNER_CHANGED", "WEBHOOK_ERROR", "DISCONNECTED", "ERROR"}

Nothing == 0   \* no token, no secret, no webhook

(* chat: the owner's private chat is known. NONE: the row does not exist.  *)
BotRow == [status : Status, token : 0..MaxToken, secret : 0..MaxSecret, chat : BOOLEAN]
NoBot  == [status |-> "NONE", token |-> Nothing, secret |-> Nothing, chat |-> FALSE]

Phase == {"idle", "fetching", "upserting", "replacing", "storing", "calling",
          "deleting", "wiping", "starting", "replying", "checking", "delivering",
          "marking"}

(* copy is the object in memory, token and secret are those being set up,  *)
(* status is the one the handler is about to save.                         *)
HandlerState == [pc : Phase, copy : BotRow, token : 0..MaxToken,
                 secret : 0..MaxSecret, status : Status]
Resting == [pc |-> "idle", copy |-> NoBot, token |-> Nothing, secret |-> Nothing,
            status |-> "NONE"]

TypeOK ==
    /\ bot \in BotRow
    /\ telegram \in [token : 1..MaxToken, webhook : 0..MaxSecret]
    /\ secrets \in 0..MaxSecret
    /\ handler \in [Handlers -> HandlerState]
    /\ stale \in BOOLEAN
    /\ faults \in 0..MaxFaults

Init ==
    /\ bot = NoBot
    /\ telegram = [token |-> 1, webhook |-> Nothing]
    /\ secrets = 0
    /\ handler = [h \in Handlers |-> Resting]
    /\ stale = FALSE
    /\ faults = 0

-----------------------------------------------------------------------------
(* A handler goes on, having read or written nothing.                      *)
GoTo(h, state) ==
    /\ handler' = [handler EXCEPT ![h] = state]
    /\ UNCHANGED <<bot, telegram, secrets, stale, faults>>

Leave(h) == GoTo(h, Resting)

(* The object is read from the row.                                        *)
Read(h, pc, status) ==
    GoTo(h, [Resting EXCEPT !.pc = pc, !.copy = bot, !.status = status])

About(h, pc, status) == [handler[h] EXCEPT !.pc = pc, !.status = status]

(* save(update_fields=...) of an object changes these columns of the row,  *)
(* and leaves the others as they are now.                                  *)
(* Mutants: a disconnection that keeps the chat, or all credentials; a     *)
(* webhook secret that is not saved.                                       *)
WipedButChat(row, status) == [row EXCEPT !.status = status, !.token = Nothing,
                                         !.secret = Nothing]
WipedStatusOnly(row, status) == [row EXCEPT !.status = status]
StoredWithoutSecret(row, token, secret) ==
    [row EXCEPT !.status = "CONFIGURING", !.token = token]

WithStatus(row, status) == [row EXCEPT !.status = status]
Wiped(row, status) == [row EXCEPT !.status = status, !.token = Nothing,
                                  !.secret = Nothing, !.chat = FALSE]
Stored(row, token, secret) == [row EXCEPT !.status = "CONFIGURING", !.token = token,
                                          !.secret = secret]
Started(row) == [row EXCEPT !.status = "ACTIVE", !.chat = TRUE]

SaveRow(h, row) == bot' = row /\ stale' = (stale \/ handler[h].copy # bot)

-----------------------------------------------------------------------------
(* The bound on secrets leaves one for every configuration under way.      *)
MayConfigure ==
    secrets + Cardinality({h \in Handlers : handler[h].pc \in
                  {"fetching", "upserting", "replacing", "storing"}}) < MaxSecret

(* process_managed_bot_update: the owner created the bot with the manager  *)
(* bot, or Telegram repeats the update. The token is fetched, the row is   *)
(* created or updated under its lock, then configured.                     *)
ReceiveManagedBot(h) ==
    /\ handler[h].pc = "idle"
    /\ MayConfigure
    /\ GoTo(h, [Resting EXCEPT !.pc = "fetching"])

FetchToken(h) ==
    /\ handler[h].pc = "fetching"
    /\ GoTo(h, [handler[h] EXCEPT !.pc = "upserting", !.token = telegram.token])

UpsertBot(h) ==
    /\ handler[h].pc = "upserting"
    /\ bot' = WithStatus(bot, "CONFIGURING")
    /\ handler' = [handler EXCEPT ![h].pc = "storing",
                                  ![h].copy = WithStatus(bot, "CONFIGURING")]
    /\ UNCHANGED <<telegram, secrets, stale, faults>>

(* The same update from somebody else: the bot has changed hands.          *)
ReceiveOwnerChange(h) ==
    /\ handler[h].pc = "idle"
    /\ bot.status # "NONE"
    /\ Read(h, "wiping", "OWNER_CHANGED")

(* rotate_managed_bot_token: Telegram revokes the old token at once.       *)
StartRotation(h) ==
    /\ handler[h].pc = "idle"
    /\ bot.status # "NONE"
    /\ MayConfigure
    /\ Read(h, "replacing", "NONE")

ReplaceToken(h) ==
    /\ handler[h].pc = "replacing"
    /\ telegram.token < MaxToken
    /\ telegram' = [telegram EXCEPT !.token = @ + 1]
    /\ handler' = [handler EXCEPT ![h].pc = "storing", ![h].token = telegram.token + 1]
    /\ UNCHANGED <<bot, secrets, stale, faults>>

(* Telegram refuses to give a token: the update or the command fails.      *)
TokenRefused(h) ==
    /\ handler[h].pc \in {"fetching", "replacing"}
    /\ Leave(h)

(* configure_personal_bot: the token and a new webhook secret are saved    *)
(* first,                                                                  *)
StoreToken(h) ==
    LET secret == secrets + 1 IN
    /\ handler[h].pc = "storing"
    /\ secrets < MaxSecret
    /\ SaveRow(h, Stored(bot, handler[h].token, secret))
    /\ secrets' = secret
    /\ handler' = [handler EXCEPT
                     ![h].pc = "calling",
                     ![h].copy = Stored(@, handler[h].token, secret),
                     ![h].secret = secret]
    /\ UNCHANGED <<telegram, faults>>

(* then the bot is set up; the calls work with the valid token only.       *)
TokenWorks(token) == token = telegram.token

SetWebhook(h) ==
    /\ handler[h].pc = "calling"
    /\ TokenWorks(handler[h].token)
    /\ telegram' = [telegram EXCEPT !.webhook = handler[h].secret]
    /\ handler' = [handler EXCEPT ![h] = About(h, "marking", "AWAITING_START")]
    /\ UNCHANGED <<bot, secrets, stale, faults>>

(* Mutant: a refused call goes unnoticed.                                  *)
SetupIgnored(h) ==
    /\ handler[h].pc = "calling"
    /\ ~ TokenWorks(handler[h].token)
    /\ GoTo(h, About(h, "marking", "AWAITING_START"))

SetupRefused(h) ==
    /\ handler[h].pc = "calling"
    /\ ~ TokenWorks(handler[h].token)
    /\ GoTo(h, About(h, "marking", "ERROR"))

-----------------------------------------------------------------------------
(* disconnect_bot: the webhook is deleted if Telegram lets it, the local   *)
(* credentials go in any case.                                             *)
StartDisconnect(h) ==
    /\ handler[h].pc = "idle"
    /\ bot.status # "NONE"
    /\ Read(h, IF bot.token = Nothing THEN "wiping" ELSE "deleting", "DISCONNECTED")

DeleteWebhook(h) ==
    /\ handler[h].pc = "deleting"
    /\ telegram' = IF TokenWorks(handler[h].copy.token)
                   THEN [telegram EXCEPT !.webhook = Nothing] ELSE telegram
    /\ handler' = [handler EXCEPT ![h].pc = "wiping"]
    /\ UNCHANGED <<bot, secrets, stale, faults>>

(* The last save of disconnect_bot, of an owner change, of                 *)
(* mark_bot_revoked and of its twin in updates.py.                         *)
WipeCredentials(h) ==
    /\ handler[h].pc = "wiping"
    /\ SaveRow(h, Wiped(bot, handler[h].status))
    /\ handler' = [handler EXCEPT ![h] = Resting]
    /\ UNCHANGED <<telegram, secrets, faults>>

(* A save of the status and of columns nobody decides by.                  *)
SaveStatus(h) ==
    /\ handler[h].pc = "marking"
    /\ SaveRow(h, WithStatus(bot, handler[h].status))
    /\ handler' = [handler EXCEPT ![h] = Resting]
    /\ UNCHANGED <<telegram, secrets, faults>>

-----------------------------------------------------------------------------
(* An update of the personal bot: Telegram sends the secret of its webhook,*)
(* personal_bot_webhook compares it with the row it reads.                 *)
(* Mutant: any secret will do.                                             *)
AcceptsAnySecret == telegram.webhook # Nothing /\ bot.status # "NONE"

Authenticated == telegram.webhook # Nothing /\ telegram.webhook = bot.secret

(* /start, another command or a button, my_chat_member: blocked, unblocked,*)
(* or anything else, which saves the status as it was read.                *)
ReceiveStart(h) ==
    /\ handler[h].pc = "idle" /\ Authenticated
    /\ Read(h, "starting", "ACTIVE")

ReceiveCommand(h) ==
    /\ handler[h].pc = "idle" /\ Authenticated
    /\ Read(h, "replying", "NONE")

ReceiveMembership(h, status) ==
    /\ handler[h].pc = "idle" /\ Authenticated
    /\ \/ status = "BLOCKED"
       \/ status = IF bot.chat THEN "ACTIVE" ELSE "AWAITING_START"
       \/ status = bot.status
    /\ Read(h, "marking", status)

ActivateBot(h) ==
    /\ handler[h].pc = "starting"
    /\ SaveRow(h, Started(bot))
    /\ handler' = [handler EXCEPT ![h].pc = "replying", ![h].copy = Started(@)]
    /\ UNCHANGED <<telegram, secrets, faults>>

(* A 401 answer wipes the credentials of the row, whichever token it holds.*)
Reply(h) ==
    /\ handler[h].pc = "replying"
    /\ GoTo(h, IF TokenWorks(handler[h].copy.token) THEN Resting
               ELSE About(h, "wiping", "REVOKED"))

(* deliver_alert_event and send_test_notification: 403 when the owner has  *)
(* blocked the bot.                                                        *)
StartDelivery(h) ==
    /\ handler[h].pc = "idle"
    /\ bot.status = "ACTIVE" /\ bot.chat /\ bot.token # Nothing
    /\ Read(h, "delivering", "NONE")

Deliver(h) ==
    /\ handler[h].pc = "delivering"
    /\ IF TokenWorks(handler[h].copy.token)
       THEN Leave(h) \/ GoTo(h, About(h, "marking", "BLOCKED"))
       ELSE GoTo(h, About(h, "wiping", "REVOKED"))

-----------------------------------------------------------------------------
(* check_managed_bots. Without a token it only notes an error code.        *)
StartCheck(h) ==
    /\ handler[h].pc = "idle"
    /\ bot.status \notin {"NONE", "DISCONNECTED"} /\ bot.token # Nothing
    /\ Read(h, "checking", "NONE")

(* Mutant: the error code ends up in the status.                           *)
CheckedCode(row) ==
    IF telegram.webhook = Nothing THEN "WEBHOOK_MISMATCH" ELSE row.status

(* It sees whether a webhook is registered for the bot's address, not with *)
(* which secret.                                                           *)
CheckedStatus(row) ==
    IF telegram.webhook = Nothing THEN "WEBHOOK_ERROR"
    ELSE IF row.status \notin {"ERROR", "WEBHOOK_ERROR", "REVOKED"} THEN row.status
    ELSE IF row.chat THEN "ACTIVE" ELSE "AWAITING_START"

CheckBot(h) ==
    LET copy == handler[h].copy IN
    /\ handler[h].pc = "checking"
    /\ GoTo(h, IF TokenWorks(copy.token)
               THEN About(h, "marking", CheckedStatus(copy))
               ELSE About(h, "wiping", "REVOKED"))

-----------------------------------------------------------------------------
FaultPossible == faults < MaxFaults

(* The process dies or is cancelled.                                       *)
Crash(h) ==
    /\ FaultPossible
    /\ handler[h].pc # "idle"
    /\ handler' = [handler EXCEPT ![h] = Resting]
    /\ faults' = faults + 1
    /\ UNCHANGED <<bot, telegram, secrets, stale>>

(* A call fails, or its answer is lost after it had its effect.            *)
CallFails(h) ==
    /\ FaultPossible
    /\ \/ /\ handler[h].pc \in {"fetching", "replacing", "replying", "delivering",
                                "checking"}
          /\ handler' = [handler EXCEPT ![h] = Resting]
          /\ \/ UNCHANGED telegram
             \/ /\ handler[h].pc = "replacing" /\ telegram.token < MaxToken
                /\ telegram' = [telegram EXCEPT !.token = @ + 1]
       \/ /\ handler[h].pc = "calling"
          /\ handler' = [handler EXCEPT ![h] = About(h, "marking", "ERROR")]
          /\ \/ UNCHANGED telegram
             \/ /\ TokenWorks(handler[h].token)
                /\ telegram' = [telegram EXCEPT !.webhook = handler[h].secret]
       \/ /\ handler[h].pc = "deleting"
          /\ handler' = [handler EXCEPT ![h].pc = "wiping"]
          /\ UNCHANGED telegram
    /\ faults' = faults + 1
    /\ UNCHANGED <<bot, secrets, stale>>

(* _client_for cannot decrypt the token (a key was removed).               *)
Undecryptable(h) ==
    /\ FaultPossible
    /\ handler[h].pc \in {"replying", "delivering"}
    /\ handler' = [handler EXCEPT ![h] = About(h, "marking", "ERROR")]
    /\ faults' = faults + 1
    /\ UNCHANGED <<bot, telegram, secrets, stale>>

(* The owner revokes the token, or somebody changes the webhook.           *)
ChangedElsewhere ==
    /\ FaultPossible
    /\ \/ /\ telegram.token < MaxToken
          /\ telegram' = [telegram EXCEPT !.token = @ + 1]
       \/ telegram' = [telegram EXCEPT !.webhook = Nothing]
    /\ faults' = faults + 1
    /\ UNCHANGED <<bot, secrets, handler, stale>>

Step(h) ==
    \/ ReceiveManagedBot(h) \/ FetchToken(h) \/ UpsertBot(h) \/ ReceiveOwnerChange(h)
    \/ StartRotation(h) \/ ReplaceToken(h) \/ TokenRefused(h)
    \/ StoreToken(h) \/ SetWebhook(h) \/ SetupRefused(h)
    \/ StartDisconnect(h) \/ DeleteWebhook(h) \/ WipeCredentials(h) \/ SaveStatus(h)
    \/ ReceiveStart(h) \/ ReceiveCommand(h) \/ ActivateBot(h) \/ Reply(h)
    \/ \E status \in Status : ReceiveMembership(h, status)
    \/ StartDelivery(h) \/ Deliver(h)
    \/ StartCheck(h) \/ CheckBot(h)
    \/ Crash(h) \/ CallFails(h) \/ Undecryptable(h)

Next == ChangedElsewhere \/ \E h \in Handlers : Step(h)

Spec == Init /\ [][Next]_vars

-----------------------------------------------------------------------------
(* What the panel shows as connected can be used: an ACTIVE bot has a      *)
(* token, a webhook secret and a chat - as long as no handler has saved an *)
(* object that no longer was the row. Comparing versions at each save      *)
(* would be enough.                                                        *)
ActiveIsConnected ==
    ~ stale /\ bot.status = "ACTIVE" =>
        bot.token # Nothing /\ bot.secret # Nothing /\ bot.chat

(* And a bot that was disconnected, revoked or taken away keeps nothing.   *)
WipedKeepsNothing ==
    ~ stale /\ bot.status \in {"DISCONNECTED", "REVOKED", "OWNER_CHANGED"} =>
        bot = [NoBot EXCEPT !.status = bot.status]

(* Only a configuration brings a disconnected bot back.                    *)
StaysDisconnected ==
    [][bot.status = "DISCONNECTED" /\ ~ stale' =>
         bot'.status \in {"DISCONNECTED", "OWNER_CHANGED", "CONFIGURING"}]_vars

(* Nobody is between the first and the last step of configuring the bot or *)
(* disconnecting it.                                                       *)
Settled == \A h \in Handlers :
             handler[h].pc \notin {"upserting", "storing", "calling", "marking",
                                   "deleting", "wiping"}

(* Without faults a bot that waits for /start or is active has the token   *)
(* Telegram accepts,                                                       *)
TokenIsCurrent ==
    /\ ~ stale /\ faults = 0 /\ Settled
    /\ bot.status \in {"AWAITING_START", "ACTIVE"}
    => bot.token = telegram.token

(* and hears its owner: the webhook carries the secret the row expects.    *)
BotListens ==
    /\ ~ stale /\ faults = 0 /\ Settled
    /\ bot.status \in {"AWAITING_START", "ACTIVE"}
    => bot.secret = telegram.webhook

(* The inductive invariant behind the first three: a row holds a token and *)
(* a webhook secret or neither, and a handler's object has what the saves  *)
(* still to come rely on.                                                  *)
WipedStatus == {"DISCONNECTED", "REVOKED", "OWNER_CHANGED"}

RowConsistent(row) ==
    /\ row.token = Nothing <=> row.secret = Nothing
    /\ row.status = "ACTIVE" => row.token # Nothing /\ row.chat
    /\ row.status \in WipedStatus => row.token = Nothing /\ ~ row.chat

HandlerPrepared(state) ==
    /\ state.pc \in {"starting", "replying", "delivering", "checking", "calling",
                     "marking"} => state.copy.token # Nothing
    /\ state.pc \in {"upserting", "storing"} => state.token # Nothing
    /\ state.pc = "checking" => RowConsistent(state.copy)
    /\ state.pc = "marking" => /\ state.status \notin WipedStatus
                               /\ state.status = "ACTIVE" => state.copy.chat
    /\ state.pc = "deleting" => state.status = "DISCONNECTED"
    /\ state.pc = "wiping" => state.status \in WipedStatus
    /\ state.pc = "wiping" /\ state.status = "REVOKED" => state.copy.token # Nothing

BotInv ==
    /\ TypeOK
    /\ ~ stale => RowConsistent(bot) /\ \A h \in Handlers : HandlerPrepared(handler[h])

(* The inductive invariant behind the last two, while nothing fails. A     *)
(* rotation that has replaced the token keeps its handler in "storing"     *)
(* until the row has it; whoever is about to call the bot live has seen    *)
(* the token work or an update arrive with the secret of the row; and each *)
(* stored secret is at Telegram, unless its token was replaced or somebody *)
(* is still at work whose last save will wipe the row or be outdated.      *)
Quiet == ~ stale /\ faults = 0

LiveStatus == {"AWAITING_START", "ACTIVE"}

Current ==
    \/ bot.token = telegram.token
    \/ \E h \in Handlers : handler[h].pc = "storing" /\ handler[h].token = telegram.token

Unfinished ==
    \E h \in Handlers :
        \/ handler[h].pc = "wiping"
        \/ handler[h].pc = "calling" /\ handler[h].secret = bot.secret
        \/ /\ handler[h].pc \in {"calling", "marking"}
           /\ handler[h].copy.secret \notin {Nothing, bot.secret}

Vouches(state) ==
    \/ state.pc = "starting"
    \/ state.pc = "marking" /\ state.status \in LiveStatus

HandlerKnows(state) ==
    /\ state.token <= telegram.token /\ state.copy.secret <= secrets
    /\ state.pc = "calling" => /\ state.copy.token = state.token
                               /\ state.copy.secret = state.secret
                               /\ state.secret # Nothing
    /\ state.pc \in {"calling", "checking"} /\ state.copy.secret = bot.secret =>
         state.copy.token = bot.token
    /\ Vouches(state) => /\ state.copy.secret # Nothing
                         /\ state.copy.secret = bot.secret => Current

QuietInv ==
    Quiet =>
      /\ bot.token <= telegram.token /\ bot.secret <= secrets /\ telegram.webhook <= secrets
      /\ bot.status \in LiveStatus => Current
      /\ telegram.webhook # Nothing /\ telegram.webhook = bot.secret => Current
      /\ bot.secret # Nothing => \/ bot.secret = telegram.webhook
                                 \/ bot.token # telegram.token
                                 \/ Unfinished
      /\ \A h \in Handlers : HandlerKnows(handler[h])

(* docs/stage-3-managed-bots.md: check_managed_bots verifies getMe and     *)
(* getWebhookInfo and detects a diverging webhook. So a bot it finds ACTIVE *)
(* while nobody else works on it hears its owner, after a fault too.       *)
CheckedBotListens ==
    [][\A h \in Handlers :
         /\ Settled /\ handler[h].copy = bot
         /\ handler[h].pc = "checking" /\ handler'[h].status = "ACTIVE"
         => bot.secret = telegram.webhook]_vars

(* mark_bot_revoked: "Remove unusable credentials after Telegram has       *)
(* revoked a bot token." So the token a row loses to a revocation is one   *)
(* that Telegram refuses.                                                  *)
RevokedWasUnusable ==
    [][bot.status # "REVOKED" /\ bot'.status = "REVOKED" => ~ TokenWorks(bot.token)]_vars
=============================================================================
