-------------------------- MODULE ManagedBotProofs --------------------------
(***************************************************************************)
(* As long as no handler saves an outdated object, the row of a personal   *)
(* bot stays consistent, for any number of handlers, tokens, secrets and   *)
(* faults.                                                                 *)
(***************************************************************************)
EXTENDS ManagedBot, TLAPS

-----------------------------------------------------------------------------
(* One handler moves on to a state that is prepared if nothing stale was   *)
(* saved, and leaves a consistent row.                                     *)
LEMMA HandlerMoves ==
  ASSUME BotInv, NEW h \in Handlers, NEW state \in HandlerState,
         handler' = [handler EXCEPT ![h] = state],
         bot' \in BotRow,
         telegram' \in [token : 1..MaxToken, webhook : 0..MaxSecret],
         secrets' \in 0..MaxSecret, faults' \in 0..MaxFaults, stale' \in BOOLEAN,
         stale => stale',
         ~ stale' => RowConsistent(bot') /\ HandlerPrepared(state)
  PROVE  BotInv'
<1>1. handler' \in [Handlers -> HandlerState]
  BY DEF BotInv, TypeOK
<1>2. TypeOK'
  BY <1>1 DEF TypeOK
<1>3. ASSUME ~ stale' PROVE RowConsistent(bot)' /\ \A k \in Handlers : HandlerPrepared(handler[k])'
  <2>1. ~ stale /\ \A k \in Handlers : HandlerPrepared(handler[k])
    BY <1>3 DEF BotInv
  <2>2. \A k \in Handlers : handler'[k] = IF k = h THEN state ELSE handler[k]
    BY DEF BotInv, TypeOK
  <2>3. \A k \in Handlers : HandlerPrepared(handler'[k])
    BY <1>3, <2>1, <2>2
  <2>4. (\A k \in Handlers : HandlerPrepared(handler[k]))' <=>
          \A k \in Handlers : HandlerPrepared(handler'[k])
    BY DEF HandlerPrepared, RowConsistent
  <2>5. RowConsistent(bot)' <=> RowConsistent(bot')
    BY DEF RowConsistent
  <2>. QED BY <1>3, <2>3, <2>4, <2>5
<1>. QED BY <1>2, <1>3 DEF BotInv

(* The parts of the invariant an action starts from.                       *)
LEMMA Given ==
  ASSUME BotInv, NEW h \in Handlers
  PROVE  /\ bot \in BotRow /\ bot.token \in 0..MaxToken /\ bot.secret \in 0..MaxSecret
         /\ bot.status \in Status /\ bot.chat \in BOOLEAN
         /\ telegram \in [token : 1..MaxToken, webhook : 0..MaxSecret]
         /\ telegram.token \in 1..MaxToken /\ telegram.token # Nothing
         /\ secrets \in 0..MaxSecret /\ faults \in 0..MaxFaults /\ stale \in BOOLEAN
         /\ handler[h] \in HandlerState
         /\ handler[h].copy \in BotRow /\ handler[h].token \in 0..MaxToken
         /\ handler[h].secret \in 0..MaxSecret /\ handler[h].status \in Status
         /\ ~ stale => RowConsistent(bot) /\ HandlerPrepared(handler[h])
<1>1. bot \in BotRow /\ handler[h] \in HandlerState
      /\ telegram \in [token : 1..MaxToken, webhook : 0..MaxSecret]
      /\ secrets \in 0..MaxSecret /\ faults \in 0..MaxFaults /\ stale \in BOOLEAN
      /\ (~ stale => RowConsistent(bot) /\ HandlerPrepared(handler[h]))
  BY DEF BotInv, TypeOK
<1>2. telegram.token \in 1..MaxToken
  BY <1>1
<1>. QED BY <1>1, <1>2, BotAssumption DEF BotRow, HandlerState, Nothing

(* A handler at rest has a state of its type and nothing to prepare.        *)
LEMMA RestingPrepared == Resting \in HandlerState /\ HandlerPrepared(Resting)
<1>1. NoBot \in BotRow
  BY BotAssumption DEF NoBot, BotRow, Nothing, Status
<1>. QED BY <1>1, BotAssumption DEF Resting, HandlerState, HandlerPrepared, Phase, Nothing, Status

(* The objects a handler can hold after a read and after each save.        *)
LEMMA RowShapes ==
  ASSUME NEW row \in BotRow, NEW status \in Status,
         NEW token \in 0..MaxToken, NEW secret \in 0..MaxSecret
  PROVE  /\ WithStatus(row, status) \in BotRow
         /\ Wiped(row, status) \in BotRow
         /\ Wiped(row, status).status = status /\ Wiped(row, status).token = Nothing
         /\ Wiped(row, status).secret = Nothing /\ Wiped(row, status).chat = FALSE
         /\ Stored(row, token, secret) \in BotRow
         /\ Started(row) \in BotRow
<1>1. WithStatus(row, status) \in BotRow
  BY DEF WithStatus, BotRow
<1>2. /\ Wiped(row, status) \in BotRow
      /\ Wiped(row, status).status = status /\ Wiped(row, status).token = Nothing
      /\ Wiped(row, status).secret = Nothing /\ Wiped(row, status).chat = FALSE
  <2>1. Nothing \in 0..MaxToken /\ Nothing \in 0..MaxSecret
    BY BotAssumption DEF Nothing
  <2>. QED BY <2>1 DEF Wiped, BotRow
<1>3. Stored(row, token, secret) \in BotRow
  BY DEF Stored, BotRow, Status
<1>4. Started(row) \in BotRow
  BY DEF Started, BotRow, Status
<1>. QED BY <1>1, <1>2, <1>3, <1>4

-----------------------------------------------------------------------------
(* Steps that leave the row alone.                                         *)
LEMMA GoToStep ==
  ASSUME BotInv, NEW h \in Handlers, NEW state \in HandlerState, GoTo(h, state),
         ~ stale => HandlerPrepared(state)
  PROVE  BotInv'
<1>1. /\ handler' = [handler EXCEPT ![h] = state]
      /\ bot' = bot /\ telegram' = telegram /\ secrets' = secrets
      /\ faults' = faults /\ stale' = stale
  BY DEF GoTo
<1>2. ~ stale' => RowConsistent(bot') /\ HandlerPrepared(state)
  BY <1>1, Given
<1>. QED BY <1>1, <1>2, Given, HandlerMoves

(* A handler that leaves has nothing more to prepare.                       *)
LEMMA LeaveStep ==
  ASSUME BotInv, NEW h \in Handlers, Leave(h) PROVE BotInv'
BY RestingPrepared, GoToStep DEF Leave

(* A handler that read the row has an object as consistent as the row.      *)
LEMMA ReadStep ==
  ASSUME BotInv, NEW h \in Handlers, NEW pc \in Phase, NEW status \in Status,
         Read(h, pc, status),
         ~ stale => HandlerPrepared([Resting EXCEPT !.pc = pc, !.copy = bot,
                                                    !.status = status])
  PROVE  BotInv'
<1>1. [Resting EXCEPT !.pc = pc, !.copy = bot, !.status = status] \in HandlerState
  BY Given, RestingPrepared DEF HandlerState
<1>. QED BY <1>1, GoToStep DEF Read

(* The handler goes on with another phase and another status to save.      *)
LEMMA AboutTyped ==
  ASSUME BotInv, NEW h \in Handlers, NEW pc \in Phase, NEW status \in Status
  PROVE  /\ About(h, pc, status) \in HandlerState
         /\ About(h, pc, status).pc = pc /\ About(h, pc, status).status = status
         /\ About(h, pc, status).copy = handler[h].copy
         /\ About(h, pc, status).token = handler[h].token
BY Given DEF About, HandlerState

-----------------------------------------------------------------------------
(* Configuring the bot.                                                    *)
LEMMA ReceiveManagedBotStep ==
  ASSUME BotInv, NEW h \in Handlers, ReceiveManagedBot(h) PROVE BotInv'
<1> DEFINE state == [Resting EXCEPT !.pc = "fetching"]
<1>1. state \in HandlerState /\ HandlerPrepared(state)
  BY RestingPrepared DEF HandlerState, HandlerPrepared, Phase, Resting
<1>. QED BY <1>1, GoToStep DEF ReceiveManagedBot

(* The token fetched from Telegram is a token.                              *)
LEMMA FetchTokenStep ==
  ASSUME BotInv, NEW h \in Handlers, FetchToken(h) PROVE BotInv'
<1> DEFINE token == telegram.token
           state == [handler[h] EXCEPT !.pc = "upserting", !.token = token]
<1>0. token \in 0..MaxToken /\ token # Nothing
  BY Given DEF Nothing
<1> HIDE DEF token
<1>1. state \in HandlerState /\ state.pc = "upserting" /\ state.token # Nothing
  BY <1>0, Given DEF HandlerState, Phase
<1>2. HandlerPrepared(state)
  BY <1>1 DEF HandlerPrepared
<1> HIDE DEF state
<1>3. GoTo(h, state)
  BY DEF FetchToken, state, token
<1>. QED BY <1>1, <1>2, <1>3, GoToStep

(* Creating or updating the row keeps its credentials.                      *)
LEMMA UpsertBotStep ==
  ASSUME BotInv, NEW h \in Handlers, UpsertBot(h) PROVE BotInv'
<1> DEFINE row == WithStatus(bot, "CONFIGURING")
           state == [handler[h] EXCEPT !.pc = "storing", !.copy = row]
<1>1. row \in BotRow /\ (~ stale => RowConsistent(row))
  <2>1. row \in BotRow
    BY Given, RowShapes DEF Status
  <2>2. row.token = bot.token /\ row.secret = bot.secret /\ row.status = "CONFIGURING"
    BY Given DEF WithStatus, BotRow
  <2>. QED BY <2>1, <2>2, Given DEF RowConsistent, WipedStatus
<1>2. /\ state \in HandlerState /\ state.pc = "storing"
      /\ state.token = handler[h].token
  BY <1>1, Given DEF HandlerState, Phase
<1>3. ~ stale => HandlerPrepared(state)
  BY <1>2, Given DEF UpsertBot, HandlerPrepared
<1>4. /\ bot' = row /\ handler' = [handler EXCEPT ![h] = state]
      /\ UNCHANGED <<telegram, secrets, stale, faults>>
  BY DEF UpsertBot
<1> HIDE DEF row, state
<1>. QED BY <1>1, <1>2, <1>3, <1>4, Given, HandlerMoves

(* The replaced token is a token.                                           *)
LEMMA ReplaceTokenStep ==
  ASSUME BotInv, NEW h \in Handlers, ReplaceToken(h) PROVE BotInv'
<1> DEFINE token == telegram.token + 1
           state == [handler[h] EXCEPT !.pc = "storing", !.token = token]
<1>1. token \in 1..MaxToken /\ token \in 0..MaxToken /\ token # Nothing
  BY Given, BotAssumption DEF ReplaceToken, Nothing
<1> HIDE DEF token
<1>2. /\ state \in HandlerState /\ state.pc = "storing"
      /\ state.token # Nothing
  BY <1>1, Given DEF HandlerState, Phase
<1>3. HandlerPrepared(state)
  BY <1>2 DEF HandlerPrepared
<1>4. telegram' \in [token : 1..MaxToken, webhook : 0..MaxSecret]
  BY <1>1, Given DEF ReplaceToken, token
<1>5. /\ bot' = bot /\ handler' = [handler EXCEPT ![h] = state]
      /\ secrets' = secrets /\ stale' = stale /\ faults' = faults
  BY DEF ReplaceToken, token
<1> HIDE DEF state
<1>. QED BY <1>2, <1>3, <1>4, <1>5, Given, HandlerMoves

(* A refused token ends the update or the command.                          *)
LEMMA TokenRefusedStep ==
  ASSUME BotInv, NEW h \in Handlers, TokenRefused(h) PROVE BotInv'
BY LeaveStep DEF TokenRefused

(* Token and webhook secret are saved together.                             *)
LEMMA StoreTokenStep ==
  ASSUME BotInv, NEW h \in Handlers, StoreToken(h) PROVE BotInv'
<1> DEFINE secret == secrets + 1
           token == handler[h].token
           row == Stored(bot, token, secret)
           copy == Stored(handler[h].copy, token, secret)
           state == [handler[h] EXCEPT !.pc = "calling", !.copy = copy,
                                       !.secret = secret]
<1>1. secret \in 0..MaxSecret /\ secret # Nothing
  BY Given, BotAssumption DEF StoreToken, Nothing
<1>2. row \in BotRow /\ copy \in BotRow
  BY <1>1, Given, RowShapes DEF Status
<1>3. /\ row.token = token /\ row.secret = secret /\ row.status = "CONFIGURING"
      /\ copy.token = token
  BY Given DEF Stored, BotRow
<1>4. ~ stale => token # Nothing
  BY Given DEF StoreToken, HandlerPrepared
<1>5. ~ stale => RowConsistent(row)
  BY <1>1, <1>3, <1>4 DEF RowConsistent, WipedStatus
<1>6. state \in HandlerState /\ state.pc = "calling" /\ state.copy = copy
  BY <1>1, <1>2, Given DEF HandlerState, Phase
<1>7. ~ stale => HandlerPrepared(state)
  BY <1>3, <1>4, <1>6 DEF HandlerPrepared
<1>8. /\ bot' = row /\ handler' = [handler EXCEPT ![h] = state]
      /\ secrets' = secret /\ telegram' = telegram /\ faults' = faults
      /\ stale' = (stale \/ handler[h].copy # bot)
  BY DEF StoreToken, SaveRow
<1> HIDE DEF secret, token, row, copy, state
<1>9. stale' \in BOOLEAN /\ (stale => stale')
  BY <1>8, Given
<1>. QED BY <1>1, <1>2, <1>5, <1>6, <1>7, <1>8, <1>9, Given, HandlerMoves

(* After the set-up the object has a token and waits for AWAITING_START.    *)
LEMMA SetWebhookStep ==
  ASSUME BotInv, NEW h \in Handlers, SetWebhook(h) PROVE BotInv'
<1> DEFINE state == About(h, "marking", "AWAITING_START")
<1>1. state \in HandlerState /\ (~ stale => HandlerPrepared(state))
  BY AboutTyped, Given DEF SetWebhook, HandlerPrepared, Phase, Status, WipedStatus
<1>2. telegram' \in [token : 1..MaxToken, webhook : 0..MaxSecret]
  BY Given DEF SetWebhook
<1>3. /\ bot' = bot /\ handler' = [handler EXCEPT ![h] = state]
      /\ secrets' = secrets /\ stale' = stale /\ faults' = faults
  BY DEF SetWebhook
<1> HIDE DEF state
<1>. QED BY <1>1, <1>2, <1>3, Given, HandlerMoves

(* After a refused call the object has a token and waits for ERROR.         *)
LEMMA SetupRefusedStep ==
  ASSUME BotInv, NEW h \in Handlers, SetupRefused(h) PROVE BotInv'
<1> DEFINE state == About(h, "marking", "ERROR")
<1>1. state \in HandlerState /\ (~ stale => HandlerPrepared(state))
  BY AboutTyped, Given DEF SetupRefused, HandlerPrepared, Phase, Status, WipedStatus
<1>. QED BY <1>1, GoToStep DEF SetupRefused
-----------------------------------------------------------------------------
(* Disconnection, and the saves that wipe the row or write its status.     *)
LEMMA StartDisconnectStep ==
  ASSUME BotInv, NEW h \in Handlers, StartDisconnect(h) PROVE BotInv'
<1> DEFINE pc == IF bot.token = Nothing THEN "wiping" ELSE "deleting"
           state == [Resting EXCEPT !.pc = pc, !.copy = bot, !.status = "DISCONNECTED"]
<1>1. pc \in Phase /\ pc \in {"wiping", "deleting"} /\ "DISCONNECTED" \in Status
  BY DEF Phase, Status
<1>2. Read(h, pc, "DISCONNECTED")
  BY DEF StartDisconnect
<1> HIDE DEF pc
<1>3. HandlerPrepared(state)
  BY <1>1 DEF HandlerPrepared, Resting, WipedStatus
<1>. QED BY <1>1, <1>2, <1>3, ReadStep

(* A change of owner is about to wipe the row.                              *)
LEMMA ReceiveOwnerChangeStep ==
  ASSUME BotInv, NEW h \in Handlers, ReceiveOwnerChange(h) PROVE BotInv'
<1>1. HandlerPrepared([Resting EXCEPT !.pc = "wiping", !.copy = bot,
                                      !.status = "OWNER_CHANGED"])
  BY DEF HandlerPrepared, Resting, WipedStatus
<1>. QED BY <1>1, ReadStep DEF ReceiveOwnerChange, Phase, Status

(* A rotation begins with any row.                                          *)
LEMMA StartRotationStep ==
  ASSUME BotInv, NEW h \in Handlers, StartRotation(h) PROVE BotInv'
<1>1. HandlerPrepared([Resting EXCEPT !.pc = "replacing", !.copy = bot,
                                      !.status = "NONE"])
  BY DEF HandlerPrepared, Resting
<1>. QED BY <1>1, ReadStep DEF StartRotation, Phase, Status

(* Deleting the webhook leaves the row alone.                               *)
LEMMA DeleteWebhookStep ==
  ASSUME BotInv, NEW h \in Handlers, DeleteWebhook(h) PROVE BotInv'
<1> DEFINE state == [handler[h] EXCEPT !.pc = "wiping"]
<1>1. /\ state \in HandlerState /\ state.pc = "wiping"
      /\ state.status = handler[h].status /\ state.copy = handler[h].copy
  BY Given DEF HandlerState, Phase
<1>2. ~ stale => HandlerPrepared(state)
  BY <1>1, Given DEF DeleteWebhook, HandlerPrepared, WipedStatus
<1>3. telegram' \in [token : 1..MaxToken, webhook : 0..MaxSecret]
  BY Given, BotAssumption DEF DeleteWebhook, Nothing
<1>4. /\ bot' = bot /\ handler' = [handler EXCEPT ![h] = state]
      /\ secrets' = secrets /\ stale' = stale /\ faults' = faults
  BY DEF DeleteWebhook
<1> HIDE DEF state
<1>. QED BY <1>1, <1>2, <1>3, <1>4, Given, HandlerMoves

(* The wiping save leaves a row without credentials.                        *)
LEMMA WipeCredentialsStep ==
  ASSUME BotInv, NEW h \in Handlers, WipeCredentials(h) PROVE BotInv'
<1> DEFINE row == Wiped(bot, handler[h].status)
<1>1. /\ row \in BotRow /\ row.token = Nothing /\ row.secret = Nothing
      /\ row.chat = FALSE /\ row.status = handler[h].status
  BY Given, RowShapes DEF BotRow
<1>2. ~ stale => RowConsistent(row)
  BY <1>1, Given DEF WipeCredentials, HandlerPrepared, RowConsistent, WipedStatus
<1>3. /\ bot' = row /\ handler' = [handler EXCEPT ![h] = Resting]
      /\ UNCHANGED <<telegram, secrets, faults>>
      /\ stale' = (stale \/ handler[h].copy # bot)
  BY DEF WipeCredentials, SaveRow
<1>4. stale' \in BOOLEAN /\ (stale => stale')
  BY <1>3, Given
<1> HIDE DEF row
<1>. QED BY <1>1, <1>2, <1>3, <1>4, Given, RestingPrepared, HandlerMoves

(* A saved status fits the object it is saved from.                         *)
LEMMA SaveStatusStep ==
  ASSUME BotInv, NEW h \in Handlers, SaveStatus(h) PROVE BotInv'
<1> DEFINE row == WithStatus(bot, handler[h].status)
<1>1. row \in BotRow
  BY Given, RowShapes
<1>2. /\ row.status = handler[h].status /\ row.token = bot.token
      /\ row.secret = bot.secret /\ row.chat = bot.chat
  BY Given DEF WithStatus, BotRow
<1>3. /\ bot' = row /\ handler' = [handler EXCEPT ![h] = Resting]
      /\ UNCHANGED <<telegram, secrets, faults>>
      /\ stale' = (stale \/ handler[h].copy # bot)
  BY DEF SaveStatus, SaveRow
<1>4. stale' \in BOOLEAN /\ (stale => stale')
  BY <1>3, Given
<1> HIDE DEF row
<1>5. ASSUME ~ stale' PROVE RowConsistent(row)
  <2>1. ~ stale /\ handler[h].copy = bot
    BY <1>3, <1>5, Given
  <2>. QED BY <2>1, <1>2, Given DEF SaveStatus, HandlerPrepared, RowConsistent
<1>. QED BY <1>1, <1>3, <1>4, <1>5, Given, RestingPrepared, HandlerMoves

-----------------------------------------------------------------------------
(* The bot's own updates, deliveries and the health check.                 *)
LEMMA AuthenticatedHasToken ==
  ASSUME BotInv, Authenticated, ~ stale PROVE bot.token # Nothing
BY DEF BotInv, Authenticated, RowConsistent

(* A bot that hears /start has a token.                                     *)
LEMMA ReceiveStartStep ==
  ASSUME BotInv, NEW h \in Handlers, ReceiveStart(h) PROVE BotInv'
<1>1. ~ stale => HandlerPrepared([Resting EXCEPT !.pc = "starting", !.copy = bot,
                                                 !.status = "ACTIVE"])
  BY AuthenticatedHasToken DEF ReceiveStart, HandlerPrepared, Resting
<1>. QED BY <1>1, ReadStep DEF ReceiveStart, Phase, Status

(* A bot that hears a command has a token.                                  *)
LEMMA ReceiveCommandStep ==
  ASSUME BotInv, NEW h \in Handlers, ReceiveCommand(h) PROVE BotInv'
<1>1. ~ stale => HandlerPrepared([Resting EXCEPT !.pc = "replying", !.copy = bot,
                                                 !.status = "NONE"])
  BY AuthenticatedHasToken DEF ReceiveCommand, HandlerPrepared, Resting
<1>. QED BY <1>1, ReadStep DEF ReceiveCommand, Phase, Status

(* A membership change makes a bot ACTIVE only if its chat is known.        *)
LEMMA ReceiveMembershipStep ==
  ASSUME BotInv, NEW h \in Handlers, NEW status \in Status,
         ReceiveMembership(h, status)
  PROVE  BotInv'
<1>1. ~ stale => /\ bot.token # Nothing /\ bot.status \notin WipedStatus
                 /\ bot.status = "ACTIVE" => bot.chat
  BY AuthenticatedHasToken, Given DEF ReceiveMembership, RowConsistent
<1>2. ~ stale => /\ status \notin WipedStatus
                 /\ status = "ACTIVE" => bot.chat
  BY <1>1 DEF ReceiveMembership, WipedStatus
<1>3. ~ stale => HandlerPrepared([Resting EXCEPT !.pc = "marking", !.copy = bot,
                                                 !.status = status])
  BY <1>1, <1>2 DEF HandlerPrepared, Resting
<1>. QED BY <1>3, ReadStep DEF ReceiveMembership, Phase

(* /start makes a bot ACTIVE together with its chat.                        *)
LEMMA ActivateBotStep ==
  ASSUME BotInv, NEW h \in Handlers, ActivateBot(h) PROVE BotInv'
<1> DEFINE row == Started(bot)
           copy == Started(handler[h].copy)
           state == [handler[h] EXCEPT !.pc = "replying", !.copy = copy]
<1>1. row \in BotRow /\ copy \in BotRow
  BY Given, RowShapes DEF Status
<1>2. /\ row.status = "ACTIVE" /\ row.chat = TRUE /\ row.token = bot.token
      /\ row.secret = bot.secret /\ copy.token = handler[h].copy.token
  BY Given DEF Started, BotRow
<1>3. state \in HandlerState /\ state.pc = "replying" /\ state.copy = copy
  BY <1>1, Given DEF HandlerState, Phase
<1>4. /\ bot' = row /\ handler' = [handler EXCEPT ![h] = state]
      /\ UNCHANGED <<telegram, secrets, faults>>
      /\ stale' = (stale \/ handler[h].copy # bot)
  BY DEF ActivateBot, SaveRow
<1>5. stale' \in BOOLEAN /\ (stale => stale')
  BY <1>4, Given
<1> HIDE DEF row, copy, state
<1>6. ASSUME ~ stale' PROVE RowConsistent(row) /\ HandlerPrepared(state)
  <2>1. ~ stale /\ handler[h].copy = bot
    BY <1>4, <1>6, Given
  <2>2. handler[h].copy.token # Nothing
    BY <2>1, Given DEF ActivateBot, HandlerPrepared
  <2>3. RowConsistent(row)
    BY <2>1, <2>2, <1>2, Given DEF RowConsistent, WipedStatus
  <2>4. HandlerPrepared(state)
    BY <2>2, <1>2, <1>3 DEF HandlerPrepared
  <2>. QED BY <2>3, <2>4
<1>. QED BY <1>1, <1>3, <1>4, <1>5, <1>6, Given, HandlerMoves

(* A handler whose object holds a token may be about to wipe it or to save *)
(* another status.                                                         *)
LEMMA AboutPrepared ==
  ASSUME BotInv, NEW h \in Handlers, handler[h].copy.token # Nothing,
         NEW status \in Status \ WipedStatus,
         status = "ACTIVE" => handler[h].copy.chat
  PROVE  /\ About(h, "marking", status) \in HandlerState
         /\ HandlerPrepared(About(h, "marking", status))
         /\ About(h, "wiping", "REVOKED") \in HandlerState
         /\ HandlerPrepared(About(h, "wiping", "REVOKED"))
BY AboutTyped DEF HandlerPrepared, Phase, Status, WipedStatus

(* The same, for the types alone.                                           *)
LEMMA AboutTypes ==
  ASSUME BotInv, NEW h \in Handlers, NEW status \in Status
  PROVE  /\ About(h, "marking", status) \in HandlerState
         /\ About(h, "wiping", "REVOKED") \in HandlerState
BY AboutTyped DEF Phase, Status

(* A 401 answer to a reply is about to wipe the row.                        *)
LEMMA ReplyStep ==
  ASSUME BotInv, NEW h \in Handlers, Reply(h) PROVE BotInv'
<1>1. CASE TokenWorks(handler[h].copy.token)
  <2>1. GoTo(h, Resting)
    BY <1>1 DEF Reply
  <2>. QED BY <2>1, RestingPrepared, GoToStep
<1>2. CASE ~ TokenWorks(handler[h].copy.token)
  <2>1. GoTo(h, About(h, "wiping", "REVOKED"))
    BY <1>2 DEF Reply
  <2>2. About(h, "wiping", "REVOKED") \in HandlerState
    BY AboutTypes DEF Status
  <2>3. ~ stale => handler[h].copy.token # Nothing
    BY Given DEF Reply, HandlerPrepared
  <2>4. ~ stale => HandlerPrepared(About(h, "wiping", "REVOKED"))
    BY <2>3, AboutPrepared DEF Status, WipedStatus
  <2>. QED BY <2>1, <2>2, <2>4, GoToStep
<1>. QED BY <1>1, <1>2

(* A delivery begins with a bot that has a token.                           *)
LEMMA StartDeliveryStep ==
  ASSUME BotInv, NEW h \in Handlers, StartDelivery(h) PROVE BotInv'
<1>1. HandlerPrepared([Resting EXCEPT !.pc = "delivering", !.copy = bot,
                                      !.status = "NONE"])
  BY DEF StartDelivery, HandlerPrepared, Resting
<1>. QED BY <1>1, ReadStep DEF StartDelivery, Phase, Status

(* A delivery ends, marks the bot as blocked or is about to wipe it.        *)
LEMMA DeliverStep ==
  ASSUME BotInv, NEW h \in Handlers, Deliver(h) PROVE BotInv'
<1>1. ~ stale => handler[h].copy.token # Nothing
  BY Given DEF Deliver, HandlerPrepared
<1>2. /\ About(h, "marking", "BLOCKED") \in HandlerState
      /\ About(h, "wiping", "REVOKED") \in HandlerState
  BY AboutTypes DEF Status
<1>3. ~ stale => /\ HandlerPrepared(About(h, "marking", "BLOCKED"))
                 /\ HandlerPrepared(About(h, "wiping", "REVOKED"))
  BY <1>1, AboutPrepared DEF Status, WipedStatus
<1>4. CASE Leave(h)
  BY <1>4, LeaveStep
<1>5. CASE GoTo(h, About(h, "marking", "BLOCKED"))
  BY <1>2, <1>3, <1>5, GoToStep
<1>6. CASE GoTo(h, About(h, "wiping", "REVOKED"))
  BY <1>2, <1>3, <1>6, GoToStep
<1>. QED BY <1>4, <1>5, <1>6 DEF Deliver

(* A check begins with a bot that has a token.                              *)
LEMMA StartCheckStep ==
  ASSUME BotInv, NEW h \in Handlers, StartCheck(h) PROVE BotInv'
<1>1. ~ stale => HandlerPrepared([Resting EXCEPT !.pc = "checking", !.copy = bot,
                                                 !.status = "NONE"])
  BY Given DEF StartCheck, HandlerPrepared, Resting
<1>. QED BY <1>1, ReadStep DEF StartCheck, Phase, Status

(* A check calls a bot ACTIVE only if its chat is known.                    *)
LEMMA CheckBotStep ==
  ASSUME BotInv, NEW h \in Handlers, CheckBot(h) PROVE BotInv'
<1> DEFINE copy == handler[h].copy
           status == CheckedStatus(copy)
<1>1. status \in Status
  BY Given DEF CheckedStatus, BotRow, Status
<1>2. ~ stale => copy.token # Nothing /\ RowConsistent(copy)
  BY Given DEF CheckBot, HandlerPrepared
<1>3. ~ stale => /\ status \notin WipedStatus
                 /\ status = "ACTIVE" => copy.chat
  BY <1>2 DEF CheckedStatus, RowConsistent, WipedStatus
<1>4. /\ About(h, "marking", status) \in HandlerState
      /\ About(h, "wiping", "REVOKED") \in HandlerState
  BY <1>1, AboutTypes
<1>5. \/ GoTo(h, About(h, "marking", status))
      \/ GoTo(h, About(h, "wiping", "REVOKED"))
  BY DEF CheckBot
<1> HIDE DEF status
<1>6. ~ stale => /\ HandlerPrepared(About(h, "marking", status))
                 /\ HandlerPrepared(About(h, "wiping", "REVOKED"))
  BY <1>1, <1>2, <1>3, AboutPrepared
<1>. QED BY <1>4, <1>5, <1>6, GoToStep
-----------------------------------------------------------------------------
(* Faults.                                                                 *)
LEMMA OneMoreFault ==
  ASSUME BotInv, FaultPossible PROVE faults + 1 \in 0..MaxFaults
BY BotAssumption DEF BotInv, TypeOK, FaultPossible

(* A crash forgets the object.                                             *)
LEMMA CrashStep ==
  ASSUME BotInv, NEW h \in Handlers, Crash(h) PROVE BotInv'
<1>1. /\ handler' = [handler EXCEPT ![h] = Resting]
      /\ UNCHANGED <<bot, telegram, secrets, stale>> /\ faults' = faults + 1
  BY DEF Crash
<1>2. faults' \in 0..MaxFaults
  BY <1>1, OneMoreFault DEF Crash
<1>. QED BY <1>1, <1>2, Given, RestingPrepared, HandlerMoves

(* A failed call ends the handler, or leaves ERROR or a wiping to save.     *)
LEMMA CallFailsStep ==
  ASSUME BotInv, NEW h \in Handlers, CallFails(h) PROVE BotInv'
<1>1. /\ bot' = bot /\ secrets' = secrets /\ stale' = stale /\ faults' = faults + 1
  BY DEF CallFails
<1>2. faults' \in 0..MaxFaults
  BY <1>1, OneMoreFault DEF CallFails
<1>3. telegram' \in [token : 1..MaxToken, webhook : 0..MaxSecret]
  <2>1. telegram.token < MaxToken => telegram.token + 1 \in 1..MaxToken
    BY Given, BotAssumption
  <2>2. \/ telegram' = telegram
        \/ /\ telegram.token < MaxToken
           /\ telegram' = [telegram EXCEPT !.token = telegram.token + 1]
        \/ telegram' = [telegram EXCEPT !.webhook = handler[h].secret]
    BY DEF CallFails
  <2>. QED BY <2>1, <2>2, Given
<1>4. CASE handler' = [handler EXCEPT ![h] = Resting]
  BY <1>1, <1>2, <1>3, <1>4, Given, RestingPrepared, HandlerMoves
<1>5. ASSUME handler[h].pc = "calling",
             handler' = [handler EXCEPT ![h] = About(h, "marking", "ERROR")]
      PROVE  BotInv'
  <2>1. About(h, "marking", "ERROR") \in HandlerState
    BY AboutTypes DEF Status
  <2>2. ~ stale => handler[h].copy.token # Nothing
    BY <1>5, Given DEF HandlerPrepared
  <2>3. ~ stale => HandlerPrepared(About(h, "marking", "ERROR"))
    BY <2>2, AboutPrepared DEF Status, WipedStatus
  <2>. QED BY <2>1, <2>3, <1>1, <1>2, <1>3, <1>5, Given, HandlerMoves
<1>6. ASSUME handler[h].pc = "deleting", handler' = [handler EXCEPT ![h].pc = "wiping"]
      PROVE  BotInv'
  <2> DEFINE state == [handler[h] EXCEPT !.pc = "wiping"]
  <2>1. /\ state \in HandlerState /\ state.pc = "wiping"
        /\ state.status = handler[h].status /\ state.copy = handler[h].copy
    BY Given DEF HandlerState, Phase
  <2>2. ~ stale => HandlerPrepared(state)
    BY <1>6, <2>1, Given DEF HandlerPrepared, WipedStatus
  <2>3. handler' = [handler EXCEPT ![h] = state]
    BY <1>6
  <2> HIDE DEF state
  <2>. QED BY <2>1, <2>2, <2>3, <1>1, <1>2, <1>3, Given, HandlerMoves
<1>. QED BY <1>4, <1>5, <1>6 DEF CallFails

(* A token that cannot be decrypted leaves ERROR to save.                  *)
LEMMA UndecryptableStep ==
  ASSUME BotInv, NEW h \in Handlers, Undecryptable(h) PROVE BotInv'
<1>1. /\ handler' = [handler EXCEPT ![h] = About(h, "marking", "ERROR")]
      /\ UNCHANGED <<bot, telegram, secrets, stale>> /\ faults' = faults + 1
  BY DEF Undecryptable
<1>2. faults' \in 0..MaxFaults
  BY <1>1, OneMoreFault DEF Undecryptable
<1>3. About(h, "marking", "ERROR") \in HandlerState
  BY AboutTypes DEF Status
<1>4. ~ stale => handler[h].copy.token # Nothing
  BY Given DEF Undecryptable, HandlerPrepared
<1>5. ~ stale => HandlerPrepared(About(h, "marking", "ERROR"))
  BY <1>4, AboutPrepared DEF Status, WipedStatus
<1>. QED BY <1>1, <1>2, <1>3, <1>5, Given, HandlerMoves

(* Without a change to row and handlers only the types are to be shown.    *)
LEMMA SameRow ==
  ASSUME BotInv, UNCHANGED <<bot, handler, stale>>, TypeOK' PROVE BotInv'
BY DEF BotInv, RowConsistent, HandlerPrepared

(* A change made at Telegram concerns no row and no handler.                *)
LEMMA ChangedElsewhereStep == ASSUME BotInv, ChangedElsewhere PROVE BotInv'
<1>1. faults' \in 0..MaxFaults
  BY OneMoreFault DEF ChangedElsewhere
<1>2. telegram' \in [token : 1..MaxToken, webhook : 0..MaxSecret]
  <2>1. /\ telegram \in [token : 1..MaxToken, webhook : 0..MaxSecret]
        /\ telegram.token \in 1..MaxToken
    BY DEF BotInv, TypeOK
  <2>2. telegram.token < MaxToken => telegram.token + 1 \in 1..MaxToken
    BY <2>1, BotAssumption
  <2>3. Nothing \in 0..MaxSecret
    BY BotAssumption DEF Nothing
  <2>. QED BY <2>1, <2>2, <2>3 DEF ChangedElsewhere
<1>3. UNCHANGED <<bot, secrets, handler, stale>>
  BY DEF ChangedElsewhere
<1>4. TypeOK'
  BY <1>1, <1>2, <1>3 DEF BotInv, TypeOK
<1>. QED BY <1>3, <1>4, SameRow

-----------------------------------------------------------------------------
(* The invariant.                                                          *)
LEMMA BotInit == ASSUME Init PROVE BotInv
<1>1. NoBot \in BotRow /\ RowConsistent(NoBot)
  BY BotAssumption DEF NoBot, BotRow, Nothing, Status, RowConsistent, WipedStatus
<1>2. handler \in [Handlers -> HandlerState]
  BY RestingPrepared DEF Init
<1>3. [token |-> 1, webhook |-> Nothing] \in [token : 1..MaxToken, webhook : 0..MaxSecret]
  BY BotAssumption DEF Nothing
<1>4. TypeOK
  <2>1. bot \in BotRow
    BY <1>1 DEF Init
  <2>2. telegram \in [token : 1..MaxToken, webhook : 0..MaxSecret]
    BY <1>3 DEF Init
  <2>3. secrets \in 0..MaxSecret /\ faults \in 0..MaxFaults
    BY BotAssumption DEF Init
  <2>4. stale \in BOOLEAN
    BY DEF Init
  <2>. QED BY <1>2, <2>1, <2>2, <2>3, <2>4 DEF TypeOK
<1>5. \A h \in Handlers : HandlerPrepared(handler[h])
  BY RestingPrepared DEF Init
<1>. QED BY <1>1, <1>4, <1>5 DEF Init, BotInv

(* Every step preserves the invariant.                                      *)
LEMMA BotStep == ASSUME BotInv, [Next]_vars PROVE BotInv'
<1>1. CASE UNCHANGED vars
  <2>1. TypeOK'
    BY <1>1 DEF vars, BotInv, TypeOK
  <2>. QED BY <1>1, <2>1, SameRow DEF vars
<1>2. CASE ChangedElsewhere
  BY <1>2, ChangedElsewhereStep
<1>3. ASSUME NEW h \in Handlers, Step(h) PROVE BotInv'
  <2>1. CASE \/ ReceiveManagedBot(h) \/ FetchToken(h) \/ UpsertBot(h)
             \/ ReceiveOwnerChange(h) \/ StartRotation(h) \/ ReplaceToken(h)
             \/ TokenRefused(h) \/ StoreToken(h) \/ SetWebhook(h) \/ SetupRefused(h)
    BY <2>1, ReceiveManagedBotStep, FetchTokenStep, UpsertBotStep,
       ReceiveOwnerChangeStep, StartRotationStep, ReplaceTokenStep, TokenRefusedStep,
       StoreTokenStep, SetWebhookStep, SetupRefusedStep
  <2>2. CASE \/ StartDisconnect(h) \/ DeleteWebhook(h) \/ WipeCredentials(h)
             \/ SaveStatus(h) \/ ReceiveStart(h) \/ ReceiveCommand(h)
             \/ ActivateBot(h) \/ Reply(h)
    BY <2>2, StartDisconnectStep, DeleteWebhookStep, WipeCredentialsStep,
       SaveStatusStep, ReceiveStartStep, ReceiveCommandStep, ActivateBotStep, ReplyStep
  <2>3. ASSUME NEW status \in Status, ReceiveMembership(h, status) PROVE BotInv'
    BY <2>3, ReceiveMembershipStep
  <2>4. CASE \/ StartDelivery(h) \/ Deliver(h) \/ StartCheck(h) \/ CheckBot(h)
             \/ Crash(h) \/ CallFails(h) \/ Undecryptable(h)
    BY <2>4, StartDeliveryStep, DeliverStep, StartCheckStep, CheckBotStep,
       CrashStep, CallFailsStep, UndecryptableStep
  <2>. QED BY <1>3, <2>1, <2>2, <2>3, <2>4 DEF Step
<1>. QED BY <1>1, <1>2, <1>3 DEF Next

(* Every reachable state satisfies the invariant.                          *)
THEOREM BotInvariant == Spec => []BotInv
<1>1. Init => BotInv
  BY BotInit
<1>2. BotInv /\ [Next]_vars => BotInv'
  BY BotStep
<1>. QED BY <1>1, <1>2, PTL DEF Spec

(* An ACTIVE bot has its token, its secret and its chat, unless an outdated *)
(* object was saved.                                                       *)
THEOREM ActiveConnected == Spec => []ActiveIsConnected
<1>1. BotInv => ActiveIsConnected
  BY DEF BotInv, ActiveIsConnected, RowConsistent
<1>. QED BY <1>1, BotInvariant, PTL

(* A disconnected, revoked or lost bot keeps no credentials, unless an     *)
(* outdated object was saved.                                              *)
THEOREM WipedForGood == Spec => []WipedKeepsNothing
<1>1. ASSUME BotInv PROVE WipedKeepsNothing
  <2>1. SUFFICES ASSUME ~ stale, bot.status \in WipedStatus
                 PROVE  bot = [NoBot EXCEPT !.status = bot.status]
    BY DEF WipedKeepsNothing, WipedStatus
  <2>2. bot \in BotRow
    BY <1>1 DEF BotInv, TypeOK
  <2>3. bot.token = Nothing /\ bot.secret = Nothing /\ bot.chat = FALSE
    BY <1>1, <2>1, <2>2 DEF BotInv, RowConsistent, BotRow
  <2> DEFINE kept == [NoBot EXCEPT !.status = bot.status]
  <2>4. kept \in BotRow
    BY <2>2, RowShapes, BotAssumption DEF NoBot, BotRow, Nothing
  <2>5. /\ kept.status = bot.status /\ kept.token = Nothing
        /\ kept.secret = Nothing /\ kept.chat = FALSE
    BY DEF NoBot
  <2> HIDE DEF kept
  <2>6. bot = kept
    BY <2>2, <2>3, <2>4, <2>5 DEF BotRow
  <2>. QED BY <2>6 DEF kept
<1>. QED BY <1>1, BotInvariant, PTL

(* Only a configuration brings a disconnected bot back, unless an outdated *)
(* object is saved.                                                        *)
LEMMA DisconnectedStep ==
  ASSUME BotInv, [Next]_vars, bot.status = "DISCONNECTED", ~ stale'
  PROVE  bot'.status \in {"DISCONNECTED", "OWNER_CHANGED", "CONFIGURING"}
<1>1. CASE bot' = bot
  BY <1>1
<1>2. ASSUME NEW h \in Handlers, UpsertBot(h) \/ StoreToken(h)
      PROVE  bot'.status = "CONFIGURING"
  <2>1. bot \in BotRow
    BY DEF BotInv, TypeOK
  <2>. QED BY <1>2, <2>1 DEF UpsertBot, StoreToken, SaveRow, WithStatus, Stored, BotRow
<1>3. ASSUME NEW h \in Handlers, handler[h].copy = bot, ~ stale
      PROVE  handler[h].copy.token = Nothing /\ HandlerPrepared(handler[h])
  BY <1>3 DEF BotInv, RowConsistent, WipedStatus
<1>4. ASSUME NEW h \in Handlers, WipeCredentials(h)
      PROVE  bot'.status \in {"DISCONNECTED", "OWNER_CHANGED"}
  <2>1. handler[h].copy = bot /\ ~ stale
    BY <1>4 DEF WipeCredentials, SaveRow, BotInv, TypeOK
  <2>2. handler[h].status \in WipedStatus /\ handler[h].status # "REVOKED"
    BY <1>3, <1>4, <2>1 DEF WipeCredentials, HandlerPrepared
  <2>3. bot'.status = handler[h].status
    BY <1>4, Given, RowShapes DEF WipeCredentials, SaveRow
  <2>. QED BY <2>2, <2>3 DEF WipedStatus
<1>5. ASSUME NEW h \in Handlers, SaveStatus(h) \/ ActivateBot(h) PROVE FALSE
  <2>1. handler[h].copy = bot /\ ~ stale
    BY <1>5 DEF SaveStatus, ActivateBot, SaveRow, BotInv, TypeOK
  <2>. QED BY <1>3, <1>5, <2>1 DEF SaveStatus, ActivateBot, HandlerPrepared
<1>6. CASE ChangedElsewhere \/ UNCHANGED vars
  BY <1>1, <1>6 DEF ChangedElsewhere, vars
<1>7. ASSUME NEW h \in Handlers, Step(h)
      PROVE  \/ bot' = bot \/ UpsertBot(h) \/ StoreToken(h) \/ WipeCredentials(h)
             \/ SaveStatus(h) \/ ActivateBot(h)
  BY <1>7 DEF Step, ReceiveManagedBot, FetchToken, ReceiveOwnerChange, StartRotation,
     ReplaceToken, TokenRefused, SetWebhook, SetupRefused, StartDisconnect,
     DeleteWebhook, ReceiveStart, ReceiveCommand, Reply, ReceiveMembership,
     StartDelivery, Deliver, StartCheck, CheckBot, Crash, CallFails, Undecryptable,
     Read, Leave, GoTo
<1>. QED BY <1>1, <1>2, <1>4, <1>5, <1>6, <1>7 DEF Next

(* Hence a disconnected bot stays so until it is configured again, unless  *)
(* an outdated object is saved.                                            *)
THEOREM DisconnectionHolds == Spec => StaysDisconnected
<1>1. BotInv /\ [Next]_vars =>
        [bot.status = "DISCONNECTED" /\ ~ stale' =>
           bot'.status \in {"DISCONNECTED", "OWNER_CHANGED", "CONFIGURING"}]_vars
  BY DisconnectedStep
<1>. QED BY <1>1, BotInvariant, PTL DEF Spec, StaysDisconnected
-----------------------------------------------------------------------------
(* Without faults: token and webhook of a bot nobody is working on.        *)

(* What a quiet state gives an action of one handler.                       *)
LEMMA QuietGiven ==
  ASSUME BotInv, QuietInv, Quiet, NEW h \in Handlers
  PROVE  /\ bot.token <= telegram.token /\ bot.secret <= secrets
         /\ telegram.webhook <= secrets
         /\ bot.token \in Nat /\ bot.secret \in Nat /\ secrets \in Nat
         /\ telegram.token \in Nat \ {0} /\ telegram.webhook \in Nat
         /\ handler[h].copy.token \in Nat /\ handler[h].copy.secret \in Nat
         /\ handler[h].token \in Nat /\ handler[h].secret \in Nat
         /\ bot.status \in LiveStatus => Current
         /\ telegram.webhook # Nothing /\ telegram.webhook = bot.secret => Current
         /\ HandlerKnows(handler[h])
         /\ RowConsistent(bot) /\ HandlerPrepared(handler[h])
<1>1. RowConsistent(bot) /\ HandlerPrepared(handler[h])
  BY Given DEF Quiet
<1>2. telegram.webhook \in 0..MaxSecret
  BY Given
<1>3. /\ handler[h].copy.token \in 0..MaxToken
      /\ handler[h].copy.secret \in 0..MaxSecret
  BY Given DEF BotRow
<1>. QED BY <1>1, <1>2, <1>3, Given, BotAssumption DEF QuietInv

(* The handlers other than the one that moves know what they knew, if      *)
(* credentials and Telegram stay as they are.                              *)
LEMMA SameCredentials ==
  ASSUME BotInv, QuietInv, Quiet, NEW h \in Handlers, NEW state \in HandlerState,
         handler' = [handler EXCEPT ![h] = state],
         telegram' = telegram, secrets' = secrets,
         bot'.token = bot.token, bot'.secret = bot.secret,
         bot'.status \in LiveStatus => Current,
         handler[h].pc \notin {"storing", "wiping", "calling"},
         handler[h].pc = "marking" => handler[h].copy.secret \in {Nothing, bot.secret},
         HandlerKnows(state)
  PROVE  QuietInv'
<1>1. \A k \in Handlers : handler'[k] = IF k = h THEN state ELSE handler[k]
  BY DEF BotInv, TypeOK
<1>2. Current => Current'
  BY <1>1 DEF Current
<1>3. Unfinished => Unfinished'
  BY <1>1 DEF Unfinished
<1>4. ASSUME NEW k \in Handlers PROVE HandlerKnows(handler[k])'
  <2>1. HandlerKnows(handler'[k])
    BY <1>1, QuietGiven
  <2>. QED BY <1>2, <2>1 DEF HandlerKnows, Vouches
<1>5. /\ bot'.token <= telegram'.token /\ bot'.secret <= secrets'
      /\ telegram'.webhook <= secrets'
      /\ telegram'.webhook # Nothing /\ telegram'.webhook = bot'.secret => Current'
  BY <1>2, QuietGiven
<1>6. bot'.secret # Nothing => \/ bot'.secret = telegram'.webhook
                               \/ bot'.token # telegram'.token
                               \/ Unfinished'
  BY <1>3 DEF QuietInv
<1>. QED BY <1>2, <1>4, <1>5, <1>6 DEF QuietInv

(* A handler that comes from a phase with nothing to finish.               *)
LEMMA QuietGoTo ==
  ASSUME BotInv, QuietInv, Quiet, NEW h \in Handlers, NEW state \in HandlerState,
         GoTo(h, state), HandlerKnows(state),
         handler[h].pc \notin {"storing", "wiping", "calling", "marking"}
  PROVE  QuietInv'
BY SameCredentials, QuietGiven DEF GoTo

(* A handler at rest knows nothing.                                        *)
LEMMA QuietLeave ==
  ASSUME BotInv, QuietInv, Quiet, NEW h \in Handlers, Leave(h),
         handler[h].pc \notin {"storing", "wiping", "calling", "marking"}
  PROVE  QuietInv'
<1>1. HandlerKnows(Resting)
  BY QuietGiven DEF HandlerKnows, Resting, NoBot, Vouches, Nothing
<1>. QED BY <1>1, RestingPrepared, QuietGoTo DEF Leave

(* A read before anything but the set-up: to vouch for the bot, the webhook *)
(* must have the secret of the row.                                        *)
LEMMA QuietRead ==
  ASSUME BotInv, QuietInv, Quiet, NEW h \in Handlers,
         NEW pc \in Phase \ {"calling"}, NEW status \in Status,
         handler[h].pc = "idle", Read(h, pc, status),
         pc \in {"starting", "marking"} => Authenticated
  PROVE  QuietInv'
<1> DEFINE state == [Resting EXCEPT !.pc = pc, !.copy = bot, !.status = status]
<1>1. /\ state \in HandlerState /\ state.pc = pc /\ state.copy = bot
      /\ state.token = Nothing
  BY Given, RestingPrepared DEF HandlerState, Resting
<1>2. GoTo(h, state)
  BY DEF Read
<1> HIDE DEF state
<1>3. HandlerKnows(state)
  BY <1>1, QuietGiven DEF HandlerKnows, Vouches, Authenticated, Nothing
<1>. QED BY <1>1, <1>2, <1>3, QuietGoTo

(* A handler that goes on with the object it has.                          *)
LEMMA QuietAbout ==
  ASSUME BotInv, QuietInv, Quiet, NEW h \in Handlers, NEW status \in Status,
         NEW pc \in {"marking", "wiping"}, GoTo(h, About(h, pc, status)),
         handler[h].pc \notin {"storing", "wiping", "calling", "marking"},
         pc = "marking" /\ status \in LiveStatus =>
           /\ handler[h].copy.secret # Nothing
           /\ handler[h].copy.secret = bot.secret => Current
  PROVE  QuietInv'
<1> DEFINE state == About(h, pc, status)
<1>1. /\ state \in HandlerState /\ state.pc = pc /\ state.status = status
      /\ state.copy = handler[h].copy /\ state.token = handler[h].token
  BY AboutTyped DEF Phase
<1> HIDE DEF state
<1>2. HandlerKnows(state)
  BY <1>1, QuietGiven DEF HandlerKnows, Vouches
<1>. QED BY <1>1, <1>2, QuietGoTo DEF state
-----------------------------------------------------------------------------
(* A token fetched is at most the one Telegram accepts.                     *)
LEMMA QuietFetch ==
  ASSUME BotInv, QuietInv, Quiet, NEW h \in Handlers, FetchToken(h) PROVE QuietInv'
<1> DEFINE state == [handler[h] EXCEPT !.pc = "upserting", !.token = telegram.token]
<1>1. telegram.token \in 0..MaxToken
  BY Given
<1>2. /\ state \in HandlerState /\ state.pc = "upserting"
      /\ state.token = telegram.token /\ state.copy = handler[h].copy
  BY <1>1, Given DEF HandlerState, Phase
<1>3. GoTo(h, state) /\ handler[h].pc = "fetching"
  BY DEF FetchToken
<1> HIDE DEF state
<1>4. HandlerKnows(state)
  BY <1>2, QuietGiven DEF HandlerKnows, Vouches
<1>. QED BY <1>2, <1>3, <1>4, QuietGoTo

(* The upsert leaves token and secret alone.                                *)
LEMMA QuietUpsert ==
  ASSUME BotInv, QuietInv, Quiet, NEW h \in Handlers, UpsertBot(h) PROVE QuietInv'
<1> DEFINE row == WithStatus(bot, "CONFIGURING")
           state == [handler[h] EXCEPT !.pc = "storing", !.copy = row]
<1>1. /\ row \in BotRow /\ row.status = "CONFIGURING"
      /\ row.token = bot.token /\ row.secret = bot.secret
  BY Given, RowShapes DEF WithStatus, BotRow, Status
<1>2. /\ bot' = row /\ handler' = [handler EXCEPT ![h] = state]
      /\ telegram' = telegram /\ secrets' = secrets /\ handler[h].pc = "upserting"
  BY DEF UpsertBot
<1> HIDE DEF row
<1>3. /\ state \in HandlerState /\ state.pc = "storing" /\ state.copy = row
      /\ state.token = handler[h].token
  BY <1>1, Given DEF HandlerState, Phase
<1> HIDE DEF state
<1>4. HandlerKnows(state)
  BY <1>1, <1>3, QuietGiven DEF HandlerKnows, Vouches
<1>. QED BY <1>1, <1>2, <1>3, <1>4, SameCredentials DEF LiveStatus

(* A replaced token is held by the handler that is going to store it; the  *)
(* one in the row no longer is the current one.                            *)
LEMMA QuietReplace ==
  ASSUME BotInv, QuietInv, Quiet, NEW h \in Handlers, ReplaceToken(h) PROVE QuietInv'
<1> DEFINE state == [handler[h] EXCEPT !.pc = "storing", !.token = telegram.token + 1]
<1>1. /\ state.pc = "storing" /\ state.token = telegram.token + 1
      /\ state.copy = handler[h].copy
  BY Given DEF HandlerState
<1>2. /\ telegram'.token = telegram.token + 1 /\ telegram'.webhook = telegram.webhook
      /\ handler' = [handler EXCEPT ![h] = state]
      /\ bot' = bot /\ secrets' = secrets /\ handler[h].pc = "replacing"
  BY Given DEF ReplaceToken
<1> HIDE DEF state
<1>3. \A k \in Handlers : handler'[k] = IF k = h THEN state ELSE handler[k]
  BY <1>2 DEF BotInv, TypeOK
<1>4. Current'
  BY <1>1, <1>2, <1>3 DEF Current
<1>5. ASSUME NEW k \in Handlers PROVE HandlerKnows(handler[k])'
  <2>1. HandlerKnows(handler[k]) /\ HandlerKnows(handler[h])
    BY QuietGiven
  <2>2. handler[k].token \in Nat /\ telegram.token \in Nat
    BY QuietGiven
  <2>. QED BY <1>1, <1>2, <1>3, <1>4, <2>1, <2>2 DEF HandlerKnows, Vouches
<1>6. /\ bot'.token <= telegram'.token /\ bot'.secret <= secrets'
      /\ telegram'.webhook <= secrets' /\ bot'.token # telegram'.token
  BY <1>2, QuietGiven
<1>. QED BY <1>4, <1>5, <1>6 DEF QuietInv

(* A stored secret is new: no other object and not the webhook has it.     *)
LEMMA QuietStore ==
  ASSUME BotInv, QuietInv, Quiet, NEW h \in Handlers, StoreToken(h) PROVE QuietInv'
<1> DEFINE secret == secrets + 1
           token == handler[h].token
           row == Stored(bot, token, secret)
           copy == Stored(handler[h].copy, token, secret)
           state == [handler[h] EXCEPT !.pc = "calling", !.copy = copy,
                                       !.secret = secret]
<1>1. secret \in Nat /\ secret > secrets /\ secret # Nothing
  BY QuietGiven DEF Nothing
<1>2. /\ row.token = token /\ row.secret = secret /\ row.status = "CONFIGURING"
      /\ copy.token = token /\ copy.secret = secret
  BY Given DEF Stored, BotRow
<1>3. /\ state.pc = "calling" /\ state.copy = copy /\ state.token = token
      /\ state.secret = secret
  BY Given DEF HandlerState
<1>4. /\ bot' = row /\ handler' = [handler EXCEPT ![h] = state]
      /\ secrets' = secret /\ telegram' = telegram
  BY DEF StoreToken, SaveRow
<1>5. token <= telegram.token /\ token \in Nat
  BY QuietGiven DEF HandlerKnows
<1> HIDE DEF secret, token, row, copy, state
<1>6. \A k \in Handlers : handler'[k] = IF k = h THEN state ELSE handler[k]
  BY <1>4 DEF BotInv, TypeOK
<1>7. Unfinished'
  BY <1>2, <1>3, <1>4, <1>6 DEF Unfinished
<1>8. ASSUME NEW k \in Handlers PROVE HandlerKnows(handler[k])'
  <2>1. /\ HandlerKnows(handler[k]) /\ handler[k].copy.secret \in Nat
        /\ secrets \in Nat
    BY QuietGiven
  <2>2. CASE k = h
    BY <2>2, <1>1, <1>2, <1>3, <1>4, <1>5, <1>6 DEF HandlerKnows, Vouches
  <2>3. CASE k # h
    <3>1. handler'[k] = handler[k] /\ handler[k].copy.secret # bot'.secret
      BY <2>1, <2>3, <1>1, <1>2, <1>4, <1>6 DEF HandlerKnows
    <3>. QED BY <2>1, <3>1, <1>1, <1>4 DEF HandlerKnows, Vouches
  <2>. QED BY <2>2, <2>3
<1>9. /\ bot'.token <= telegram'.token /\ bot'.secret <= secrets'
      /\ telegram'.webhook <= secrets' /\ telegram'.webhook # bot'.secret
  BY <1>1, <1>2, <1>4, <1>5, QuietGiven
<1>. QED BY <1>2, <1>4, <1>7, <1>8, <1>9 DEF QuietInv, LiveStatus

(* Telegram takes the webhook: its secret is that of the row, or another   *)
(* configuration has overtaken this one, whose last save will be outdated. *)
LEMMA QuietSetWebhook ==
  ASSUME BotInv, QuietInv, Quiet, NEW h \in Handlers, SetWebhook(h) PROVE QuietInv'
<1> DEFINE state == About(h, "marking", "AWAITING_START")
<1>1. /\ state.pc = "marking" /\ state.copy = handler[h].copy
      /\ state.token = handler[h].token
  BY AboutTyped DEF Phase, Status
<1>2. /\ handler[h].pc = "calling" /\ handler[h].token = telegram.token
      /\ telegram'.token = telegram.token /\ telegram'.webhook = handler[h].secret
      /\ handler' = [handler EXCEPT ![h] = state]
      /\ bot' = bot /\ secrets' = secrets
  BY Given DEF SetWebhook, TokenWorks
<1>3. /\ handler[h].copy.token = handler[h].token
      /\ handler[h].copy.secret = handler[h].secret
      /\ handler[h].secret # Nothing /\ handler[h].secret <= secrets
      /\ handler[h].secret = bot.secret => bot.token = telegram.token
  BY <1>2, QuietGiven DEF HandlerKnows
<1> HIDE DEF state
<1>4. \A k \in Handlers : handler'[k] = IF k = h THEN state ELSE handler[k]
  BY <1>2 DEF BotInv, TypeOK
<1>5. Current => Current'
  BY <1>2, <1>4 DEF Current
<1>6. bot.secret = handler[h].secret \/ Unfinished'
  BY <1>1, <1>2, <1>3, <1>4 DEF Unfinished
<1>7. bot.secret = handler[h].secret => Current'
  BY <1>2, <1>3 DEF Current
<1>8. ASSUME NEW k \in Handlers PROVE HandlerKnows(handler[k])'
  <2>1. HandlerKnows(handler[k]) /\ HandlerKnows(handler[h])
    BY QuietGiven
  <2>. QED BY <1>1, <1>2, <1>3, <1>4, <1>5, <1>7, <2>1 DEF HandlerKnows, Vouches
<1>9. /\ bot'.token <= telegram'.token /\ bot'.secret <= secrets'
      /\ telegram'.webhook <= secrets' /\ (bot'.status \in LiveStatus => Current')
  BY <1>2, <1>3, <1>5, QuietGiven
<1>. QED BY <1>2, <1>6, <1>7, <1>8, <1>9 DEF QuietInv

(* A refused set-up: the token it stored no longer is the current one, or  *)
(* the row has moved on.                                                   *)
LEMMA QuietRefused ==
  ASSUME BotInv, QuietInv, Quiet, NEW h \in Handlers, SetupRefused(h) PROVE QuietInv'
<1> DEFINE state == About(h, "marking", "ERROR")
<1>1. /\ state.pc = "marking" /\ state.copy = handler[h].copy
      /\ state.token = handler[h].token /\ state.status = "ERROR"
  BY AboutTyped DEF Phase, Status
<1>2. /\ handler[h].pc = "calling" /\ handler[h].token # telegram.token
      /\ handler' = [handler EXCEPT ![h] = state]
      /\ bot' = bot /\ secrets' = secrets /\ telegram' = telegram
  BY DEF SetupRefused, GoTo, TokenWorks
<1>3. /\ handler[h].copy.secret = handler[h].secret
      /\ handler[h].secret = bot.secret => bot.token # telegram.token
  BY <1>2, QuietGiven DEF HandlerKnows
<1> HIDE DEF state
<1>4. \A k \in Handlers : handler'[k] = IF k = h THEN state ELSE handler[k]
  BY <1>2 DEF BotInv, TypeOK
<1>5. Current => Current'
  BY <1>2, <1>4 DEF Current
<1>6. Unfinished => Unfinished' \/ bot.token # telegram.token
  BY <1>1, <1>2, <1>3, <1>4 DEF Unfinished
<1>7. ASSUME NEW k \in Handlers PROVE HandlerKnows(handler[k])'
  <2>1. HandlerKnows(handler[k]) /\ HandlerKnows(handler[h])
    BY QuietGiven
  <2>. QED BY <1>1, <1>2, <1>4, <1>5, <2>1 DEF HandlerKnows, Vouches, LiveStatus
<1>8. /\ bot'.token <= telegram'.token /\ bot'.secret <= secrets'
      /\ telegram'.webhook <= secrets' /\ (bot'.status \in LiveStatus => Current')
      /\ telegram'.webhook # Nothing /\ telegram'.webhook = bot'.secret => Current'
  BY <1>2, <1>5, QuietGiven
<1>. QED BY <1>2, <1>6, <1>7, <1>8 DEF QuietInv
-----------------------------------------------------------------------------
(* A deleted webhook is followed by the wiping of the row.                  *)
LEMMA QuietDeleteWebhook ==
  ASSUME BotInv, QuietInv, Quiet, NEW h \in Handlers, DeleteWebhook(h) PROVE QuietInv'
<1> DEFINE state == [handler[h] EXCEPT !.pc = "wiping"]
<1>1. /\ state.pc = "wiping" /\ state.copy = handler[h].copy
      /\ state.token = handler[h].token
  BY Given DEF HandlerState
<1>2. /\ handler[h].pc = "deleting" /\ handler' = [handler EXCEPT ![h] = state]
      /\ telegram'.token = telegram.token
      /\ telegram'.webhook \in {telegram.webhook, Nothing}
      /\ bot' = bot /\ secrets' = secrets
  BY Given DEF DeleteWebhook
<1> HIDE DEF state
<1>3. \A k \in Handlers : handler'[k] = IF k = h THEN state ELSE handler[k]
  BY <1>2 DEF BotInv, TypeOK
<1>4. Current => Current'
  BY <1>2, <1>3 DEF Current
<1>5. Unfinished'
  BY <1>1, <1>3 DEF Unfinished
<1>6. ASSUME NEW k \in Handlers PROVE HandlerKnows(handler[k])'
  <2>1. HandlerKnows(handler[k]) /\ HandlerKnows(handler[h])
    BY QuietGiven
  <2>. QED BY <1>1, <1>2, <1>3, <1>4, <2>1 DEF HandlerKnows, Vouches
<1>7. /\ bot'.token <= telegram'.token /\ bot'.secret <= secrets'
      /\ telegram'.webhook <= secrets' /\ (bot'.status \in LiveStatus => Current')
      /\ telegram'.webhook # Nothing /\ telegram'.webhook = bot'.secret => Current'
  BY <1>2, <1>4, QuietGiven DEF Nothing
<1>. QED BY <1>5, <1>6, <1>7 DEF QuietInv

(* A wiped row promises nothing, and nobody else holds its secret.         *)
LEMMA QuietWipe ==
  ASSUME BotInv, QuietInv, Quiet, NEW h \in Handlers, WipeCredentials(h) PROVE QuietInv'
<1>1. /\ handler[h].pc = "wiping" /\ handler' = [handler EXCEPT ![h] = Resting]
      /\ bot' = Wiped(bot, handler[h].status) /\ telegram' = telegram
      /\ secrets' = secrets
  BY DEF WipeCredentials, SaveRow
<1>2. /\ bot'.token = Nothing /\ bot'.secret = Nothing
      /\ bot'.status \notin LiveStatus
  <2>1. handler[h].status \in WipedStatus
    BY <1>1, QuietGiven DEF HandlerPrepared
  <2>. QED BY <1>1, <2>1, Given, RowShapes DEF LiveStatus, WipedStatus
<1>3. \A k \in Handlers : handler'[k] = IF k = h THEN Resting ELSE handler[k]
  BY <1>1 DEF BotInv, TypeOK
<1>4. HandlerKnows(Resting) /\ ~ Vouches(Resting)
      /\ Resting.pc = "idle"
  BY QuietGiven DEF HandlerKnows, Resting, NoBot, Vouches, Nothing
<1>5. ASSUME NEW k \in Handlers PROVE HandlerKnows(handler[k])'
  <2>1. /\ HandlerKnows(handler[k]) /\ HandlerPrepared(handler[k])
    BY QuietGiven
  <2>2. handler[k].pc \in {"calling", "checking"} => handler[k].copy.secret # Nothing
    BY <2>1 DEF HandlerKnows, HandlerPrepared, RowConsistent
  <2>. QED BY <1>1, <1>2, <1>3, <1>4, <2>1, <2>2 DEF HandlerKnows, Vouches
<1>6. /\ bot'.token <= telegram'.token /\ bot'.secret <= secrets'
      /\ telegram'.webhook <= secrets'
  BY <1>1, <1>2, QuietGiven DEF Nothing
<1>. QED BY <1>2, <1>5, <1>6 DEF QuietInv

(* A status is saved over the row it was decided on.                        *)
LEMMA QuietSave ==
  ASSUME BotInv, QuietInv, Quiet, NEW h \in Handlers, SaveStatus(h), ~ stale'
  PROVE  QuietInv'
<1> DEFINE row == WithStatus(bot, handler[h].status)
<1>1. /\ handler[h].pc = "marking" /\ handler' = [handler EXCEPT ![h] = Resting]
      /\ bot' = row /\ telegram' = telegram /\ secrets' = secrets
      /\ handler[h].copy = bot
  BY DEF SaveStatus, SaveRow
<1>2. /\ row.token = bot.token /\ row.secret = bot.secret
      /\ row.status = handler[h].status
  BY Given DEF WithStatus, BotRow
<1> HIDE DEF row
<1>3. bot'.status \in LiveStatus => Current
  BY <1>1, <1>2, QuietGiven DEF HandlerKnows, Vouches
<1>4. HandlerKnows(Resting)
  BY QuietGiven DEF HandlerKnows, Resting, NoBot, Vouches, Nothing
<1>. QED BY <1>1, <1>2, <1>3, <1>4, RestingPrepared, SameCredentials

(* An owner who says /start was heard by the bot of the row.               *)
LEMMA QuietActivate ==
  ASSUME BotInv, QuietInv, Quiet, NEW h \in Handlers, ActivateBot(h), ~ stale'
  PROVE  QuietInv'
<1> DEFINE row == Started(bot)
           copy == Started(handler[h].copy)
           state == [handler[h] EXCEPT !.pc = "replying", !.copy = copy]
<1>1. /\ handler[h].pc = "starting" /\ handler' = [handler EXCEPT ![h] = state]
      /\ bot' = row /\ telegram' = telegram /\ secrets' = secrets
      /\ handler[h].copy = bot
  BY DEF ActivateBot, SaveRow
<1>2. /\ row.token = bot.token /\ row.secret = bot.secret
      /\ copy \in BotRow /\ copy.secret = handler[h].copy.secret
  BY Given, RowShapes DEF Started, BotRow
<1> HIDE DEF row, copy
<1>3. /\ state \in HandlerState /\ state.pc = "replying" /\ state.copy = copy
      /\ state.token = handler[h].token
  BY <1>2, Given DEF HandlerState, Phase
<1> HIDE DEF state
<1>4. Current
  BY <1>1, QuietGiven DEF HandlerKnows, Vouches
<1>5. HandlerKnows(state)
  BY <1>2, <1>3, QuietGiven DEF HandlerKnows, Vouches
<1>. QED BY <1>1, <1>2, <1>3, <1>4, <1>5, SameCredentials

(* A check that calls the bot live has seen its token work.                *)
LEMMA QuietCheck ==
  ASSUME BotInv, QuietInv, Quiet, NEW h \in Handlers, CheckBot(h) PROVE QuietInv'
<1> DEFINE copy == handler[h].copy
           status == CheckedStatus(copy)
<1>1. status \in Status /\ handler[h].pc = "checking"
  BY Given DEF CheckBot, CheckedStatus, BotRow, Status
<1>2. /\ copy.secret # Nothing
      /\ copy.secret = bot.secret => copy.token = bot.token
  BY <1>1, QuietGiven DEF HandlerPrepared, RowConsistent, HandlerKnows
<1>3. CASE TokenWorks(copy.token)
  <2>1. copy.secret = bot.secret => Current
    BY <1>2, <1>3 DEF TokenWorks, Current
  <2>2. GoTo(h, About(h, "marking", status))
    BY <1>3 DEF CheckBot
  <2> HIDE DEF status
  <2>. QED BY <1>1, <1>2, <2>1, <2>2, QuietAbout
<1>4. CASE ~ TokenWorks(copy.token)
  <2>1. GoTo(h, About(h, "wiping", "REVOKED"))
    BY <1>4 DEF CheckBot
  <2>. QED BY <1>1, <2>1, QuietAbout DEF Status
<1>. QED BY <1>3, <1>4

(* Replies and deliveries wipe the row or call the bot blocked.             *)
LEMMA QuietAnswer ==
  ASSUME BotInv, QuietInv, Quiet, NEW h \in Handlers, Reply(h) \/ Deliver(h)
  PROVE  QuietInv'
<1>1. handler[h].pc \in {"replying", "delivering"}
  BY DEF Reply, Deliver
<1>2. \/ Leave(h) \/ GoTo(h, About(h, "marking", "BLOCKED"))
      \/ GoTo(h, About(h, "wiping", "REVOKED"))
  BY DEF Reply, Deliver, Leave
<1>3. /\ "BLOCKED" \in Status \ LiveStatus /\ "REVOKED" \in Status
  BY DEF Status, LiveStatus
<1>. QED BY <1>1, <1>2, <1>3, QuietLeave, QuietAbout

(* Requests that begin with a read, or with nothing.                        *)
LEMMA QuietBegin ==
  ASSUME BotInv, QuietInv, Quiet, NEW h \in Handlers,
         \/ ReceiveManagedBot(h) \/ ReceiveOwnerChange(h) \/ StartRotation(h)
         \/ StartDisconnect(h) \/ ReceiveStart(h) \/ ReceiveCommand(h)
         \/ \E status \in Status : ReceiveMembership(h, status)
         \/ StartDelivery(h) \/ StartCheck(h)
  PROVE  QuietInv'
<1>1. CASE ReceiveManagedBot(h)
  <2> DEFINE state == [Resting EXCEPT !.pc = "fetching"]
  <2>1. /\ state \in HandlerState /\ state.pc = "fetching" /\ state.token = Nothing
        /\ state.copy = NoBot /\ NoBot.secret = Nothing
    BY RestingPrepared DEF HandlerState, Phase, Resting, NoBot
  <2> HIDE DEF state
  <2>2. HandlerKnows(state)
    BY <2>1, QuietGiven DEF HandlerKnows, Vouches, Nothing
  <2>. QED BY <1>1, <2>1, <2>2, QuietGoTo DEF ReceiveManagedBot, state
<1>2. CASE ReceiveOwnerChange(h) \/ StartRotation(h) \/ ReceiveCommand(h)
           \/ StartDelivery(h) \/ StartCheck(h)
  <2>1. /\ handler[h].pc = "idle"
        /\ \/ Read(h, "wiping", "OWNER_CHANGED") \/ Read(h, "replacing", "NONE")
           \/ Read(h, "replying", "NONE") \/ Read(h, "delivering", "NONE")
           \/ Read(h, "checking", "NONE")
    BY <1>2 DEF ReceiveOwnerChange, StartRotation, ReceiveCommand, StartDelivery, StartCheck
  <2>2. /\ {"wiping", "replacing", "replying", "delivering", "checking"}
             \subseteq Phase \ {"calling", "starting", "marking"}
        /\ {"OWNER_CHANGED", "NONE"} \subseteq Status
    BY DEF Phase, Status
  <2>. QED BY <2>1, <2>2, QuietRead
<1>3. CASE StartDisconnect(h)
  <2>1. /\ handler[h].pc = "idle"
        /\ Read(h, "wiping", "DISCONNECTED") \/ Read(h, "deleting", "DISCONNECTED")
    BY <1>3 DEF StartDisconnect
  <2>2. /\ {"wiping", "deleting"} \subseteq Phase \ {"calling", "starting", "marking"}
        /\ "DISCONNECTED" \in Status
    BY DEF Phase, Status
  <2>. QED BY <2>1, <2>2, QuietRead
<1>4. CASE ReceiveStart(h)
  BY <1>4, QuietRead DEF ReceiveStart, Phase, Status
<1>5. ASSUME NEW status \in Status, ReceiveMembership(h, status) PROVE QuietInv'
  BY <1>5, QuietRead DEF ReceiveMembership, Phase
<1>. QED BY <1>1, <1>2, <1>3, <1>4, <1>5

(* A step after which nothing has failed and nothing outdated was saved    *)
(* started in such a state, and was none of the faults.                    *)
LEMMA QuietBefore ==
  ASSUME BotInv, Next, Quiet'
  PROVE  Quiet /\ \E h \in Handlers :
           Step(h) /\ ~ (Crash(h) \/ CallFails(h) \/ Undecryptable(h))
<1>1. faults \in Nat /\ stale \in BOOLEAN
  BY BotAssumption DEF BotInv, TypeOK
<1>2. faults' = faults + 1 => faults' # 0
  BY <1>1
<1>3. ~ ChangedElsewhere
  BY <1>2 DEF ChangedElsewhere, Quiet
<1>4. PICK h \in Handlers : Step(h)
  BY <1>3 DEF Next
<1>5. ~ (Crash(h) \/ CallFails(h) \/ Undecryptable(h))
  BY <1>2 DEF Crash, CallFails, Undecryptable, Quiet
<1>6. faults' = faults /\ (stale' = stale \/ stale' = (stale \/ handler[h].copy # bot))
  BY <1>4, <1>5 DEF Step, ReceiveManagedBot, FetchToken, UpsertBot, ReceiveOwnerChange,
     StartRotation, ReplaceToken, TokenRefused, StoreToken, SetWebhook, SetupRefused,
     StartDisconnect, DeleteWebhook, WipeCredentials, SaveStatus, ReceiveStart,
     ReceiveCommand, ActivateBot, Reply, ReceiveMembership, StartDelivery, Deliver,
     StartCheck, CheckBot, Read, Leave, GoTo, SaveRow
<1>. QED BY <1>1, <1>4, <1>5, <1>6 DEF Quiet

(* Every step keeps what holds while nothing fails.                         *)
LEMMA QuietStep == ASSUME BotInv, QuietInv, [Next]_vars PROVE QuietInv'
<1>1. CASE UNCHANGED vars
  BY <1>1 DEF vars, QuietInv, Quiet, Current, Unfinished, HandlerKnows, Vouches
<1>2. CASE Next /\ Quiet'
  <2>1. Quiet /\ ~ stale'
    BY <1>2, QuietBefore DEF Quiet
  <2>2. PICK h \in Handlers : Step(h) /\ ~ (Crash(h) \/ CallFails(h) \/ Undecryptable(h))
    BY <1>2, QuietBefore
  <2>3. CASE TokenRefused(h)
    BY <2>1, <2>3, QuietLeave DEF TokenRefused
  <2>. QED BY <2>1, <2>2, <2>3, QuietBegin, QuietFetch, QuietUpsert, QuietReplace,
           QuietStore, QuietSetWebhook, QuietRefused, QuietDeleteWebhook, QuietWipe,
           QuietSave, QuietActivate, QuietAnswer, QuietCheck DEF Step
<1>3. CASE ~ Quiet'
  BY <1>3 DEF QuietInv
<1>. QED BY <1>1, <1>2, <1>3

(* While nothing fails and nothing outdated is saved, tokens and webhook   *)
(* secrets are where they are needed, or on their way.                     *)
THEOREM QuietInvariant == Spec => []QuietInv
<1>1. Init => QuietInv
  BY DEF Init, QuietInv, NoBot, Resting, HandlerKnows, Vouches, LiveStatus, Nothing
<1>2. BotInv /\ QuietInv /\ [Next]_vars => QuietInv'
  BY QuietStep
<1>. QED BY <1>1, <1>2, BotInvariant, PTL DEF Spec

(* A bot that waits for /start or is active, and that nobody is working    *)
(* on, has the token Telegram accepts.                                     *)
THEOREM TokenStaysCurrent == Spec => []TokenIsCurrent
<1>1. QuietInv => TokenIsCurrent
  BY DEF QuietInv, Quiet, TokenIsCurrent, Current, LiveStatus, Settled
<1>. QED BY <1>1, QuietInvariant, PTL

(* And its webhook carries the secret the row expects.                     *)
THEOREM BotHears == Spec => []BotListens
<1>1. ASSUME BotInv, QuietInv PROVE BotListens
  <2>1. SUFFICES ASSUME Quiet, Settled, bot.status \in LiveStatus
                 PROVE  bot.secret = telegram.webhook
    BY DEF BotListens, Quiet, LiveStatus
  <2>2. bot.token = telegram.token /\ ~ Unfinished
    BY <1>1, <2>1 DEF QuietInv, Current, Settled, Unfinished
  <2>3. telegram.token \in 1..MaxToken
    BY <1>1 DEF BotInv, TypeOK
  <2>4. bot.token # Nothing /\ bot.secret # Nothing
    BY <1>1, <2>1, <2>2, <2>3, BotAssumption DEF BotInv, RowConsistent, Quiet, Nothing
  <2>. QED BY <1>1, <2>1, <2>2, <2>4 DEF QuietInv
<1>. QED BY <1>1, BotInvariant, QuietInvariant, PTL

-----------------------------------------------------------------------------
(* Whatever fails and whatever is saved, nobody holds a token Telegram has *)
(* not issued, and who is about to note a revocation has seen its token    *)
(* refused: it is an earlier one than the valid one, now and later. A      *)
(* check has decided nothing before its call is answered.                  *)
IssuedTo(state, token) ==
    /\ state.token <= token /\ state.copy.token <= token
    /\ state.pc = "deleting" => state.status = "DISCONNECTED"
    /\ state.pc = "checking" => state.status = "NONE"
    /\ state.pc = "wiping" /\ state.status = "REVOKED" => state.copy.token < token

TokensIssued ==
    /\ bot.token <= telegram.token
    /\ \A h \in Handlers : IssuedTo(handler[h], telegram.token)

(* The boundary of RevokedWasUnusable: as long as every object saved is    *)
(* the row, the token lost to a revocation is one that Telegram refuses.   *)
RevokedByTheRow ==
    [][bot.status # "REVOKED" /\ bot'.status = "REVOKED" /\ ~ stale'
         => ~ TokenWorks(bot.token)]_vars

(* The boundary of CheckedBotListens: without faults and outdated saves, a *)
(* bot that a check finds ACTIVE hears its owner.                          *)
CheckedQuietly ==
    [][\A h \in Handlers :
         /\ Quiet /\ Settled /\ handler[h].copy = bot
         /\ handler[h].pc = "checking" /\ handler'[h].status = "ACTIVE"
         => bot.secret = telegram.webhook]_vars

-----------------------------------------------------------------------------
(* Tokens only grow, so what the others hold stays issued.                 *)
LEMMA IssuedMoves ==
  ASSUME BotInv, TokensIssued, NEW h \in Handlers, NEW state \in HandlerState,
         handler' = [handler EXCEPT ![h] = state],
         telegram' \in [token : 1..MaxToken, webhook : 0..MaxSecret],
         telegram.token <= telegram'.token, bot'.token <= telegram'.token,
         IssuedTo(state, telegram'.token)
  PROVE  TokensIssued'
<1>1. \A k \in Handlers : handler'[k] = IF k = h THEN state ELSE handler[k]
  BY DEF BotInv, TypeOK
<1>2. ASSUME NEW k \in Handlers PROVE IssuedTo(handler'[k], telegram'.token)
  <2>1. CASE k = h
    BY <1>1, <2>1
  <2>2. CASE k # h
    <3>1. /\ handler'[k] = handler[k] /\ IssuedTo(handler[k], telegram.token)
      BY <1>1, <2>2 DEF TokensIssued
    <3>2. /\ telegram.token \in Nat /\ telegram'.token \in Nat
          /\ handler[k].token \in Nat /\ handler[k].copy.token \in Nat
      <4>1. /\ handler[k].copy \in BotRow /\ handler[k].token \in 0..MaxToken
            /\ telegram.token \in 1..MaxToken /\ telegram'.token \in 1..MaxToken
        BY Given
      <4>. QED BY <4>1, BotAssumption DEF BotRow
    <3>. QED BY <3>1, <3>2 DEF IssuedTo
  <2>. QED BY <2>1, <2>2
<1>. QED BY <1>2 DEF TokensIssued, IssuedTo

(* What an action may use: the handler's own part, and numbers.            *)
LEMMA IssuedGiven ==
  ASSUME BotInv, TokensIssued, NEW h \in Handlers
  PROVE  /\ IssuedTo(handler[h], telegram.token)
         /\ bot.token \in Nat /\ telegram.token \in Nat /\ bot.token <= telegram.token
         /\ handler[h].token \in Nat /\ handler[h].copy.token \in Nat
         /\ Nothing <= telegram.token
<1>1. /\ bot \in BotRow /\ handler[h].copy \in BotRow /\ handler[h].token \in 0..MaxToken
      /\ telegram.token \in 1..MaxToken
  BY Given
<1>. QED BY <1>1, BotAssumption DEF TokensIssued, BotRow, Nothing

(* A handler goes on, the row and Telegram stay as they are.               *)
LEMMA IssuedGoTo ==
  ASSUME BotInv, TokensIssued, NEW h \in Handlers, NEW state \in HandlerState,
         GoTo(h, state), IssuedTo(state, telegram.token)
  PROVE  TokensIssued'
<1>1. /\ handler' = [handler EXCEPT ![h] = state]
      /\ bot' = bot /\ telegram' = telegram
  BY DEF GoTo
<1>2. /\ bot'.token <= telegram'.token /\ telegram.token <= telegram'.token
      /\ telegram' \in [token : 1..MaxToken, webhook : 0..MaxSecret]
      /\ IssuedTo(state, telegram'.token)
  BY <1>1, Given, IssuedGiven
<1>. QED BY <1>1, <1>2, IssuedMoves

(* A handler at rest holds nothing.                                        *)
LEMMA IssuedResting ==
  ASSUME NEW token \in Nat PROVE IssuedTo(Resting, token)
BY DEF IssuedTo, Resting, NoBot, Nothing

(* An object just read holds the token of the row.                         *)
LEMMA IssuedRead ==
  ASSUME BotInv, TokensIssued, NEW h \in Handlers, NEW pc \in Phase, NEW status \in Status,
         Read(h, pc, status), pc = "deleting" => status = "DISCONNECTED",
         pc = "checking" => status = "NONE",
         pc = "wiping" => status # "REVOKED"
  PROVE  TokensIssued'
<1> DEFINE state == [Resting EXCEPT !.pc = pc, !.copy = bot, !.status = status]
<1>1. state \in HandlerState
  BY Given, RestingPrepared DEF HandlerState
<1>2. /\ state.pc = pc /\ state.copy = bot /\ state.token = Nothing
      /\ state.status = status
  BY DEF Resting
<1>3. GoTo(h, state)
  BY DEF Read
<1> HIDE DEF state
<1>. QED BY <1>1, <1>2, <1>3, IssuedGiven, IssuedGoTo DEF IssuedTo

(* An answer: only a refused token is noted as a revocation.               *)
LEMMA IssuedAbout ==
  ASSUME BotInv, TokensIssued, NEW h \in Handlers, NEW pc \in Phase, NEW status \in Status,
         GoTo(h, About(h, pc, status)), pc \notin {"deleting", "checking"},
         pc = "wiping" => ~ TokenWorks(handler[h].copy.token)
  PROVE  TokensIssued'
<1>1. IssuedTo(About(h, pc, status), telegram.token)
  BY AboutTyped, IssuedGiven DEF IssuedTo, TokenWorks
<1>. QED BY <1>1, AboutTyped, IssuedGoTo

-----------------------------------------------------------------------------
(* Actions that read, or leave, or decide by an answer.                    *)
LEMMA IssuedQuiet ==
  ASSUME BotInv, TokensIssued, NEW h \in Handlers,
         \/ ReceiveManagedBot(h) \/ FetchToken(h) \/ ReceiveOwnerChange(h)
         \/ StartRotation(h) \/ TokenRefused(h) \/ SetupRefused(h) \/ StartDisconnect(h)
         \/ ReceiveStart(h) \/ ReceiveCommand(h) \/ Reply(h)
         \/ \E status \in Status : ReceiveMembership(h, status)
         \/ StartDelivery(h) \/ Deliver(h) \/ StartCheck(h) \/ CheckBot(h)
  PROVE  TokensIssued'
<1>0. /\ Phase \ {"deleting"} = {"idle", "fetching", "upserting", "replacing", "storing",
            "calling", "wiping", "starting", "replying", "checking", "delivering", "marking"}
      /\ {"NONE", "OWNER_CHANGED", "DISCONNECTED", "ACTIVE", "ERROR", "BLOCKED", "REVOKED"}
            \subseteq Status
      /\ "deleting" \in Phase
  BY DEF Phase, Status
<1>1. ASSUME Leave(h) PROVE TokensIssued'
  BY <1>1, RestingPrepared, IssuedResting, IssuedGiven, IssuedGoTo DEF Leave
<1>2. CASE ReceiveManagedBot(h)
  <2> DEFINE state == [Resting EXCEPT !.pc = "fetching"]
  <2>1. state \in HandlerState /\ IssuedTo(state, telegram.token)
    BY <1>0, RestingPrepared, IssuedResting, IssuedGiven DEF HandlerState, Resting, IssuedTo
  <2>. QED BY <1>2, <2>1, IssuedGoTo DEF ReceiveManagedBot
<1>3. CASE FetchToken(h)
  <2> DEFINE state == [handler[h] EXCEPT !.pc = "upserting", !.token = telegram.token]
  <2>1. telegram.token \in 0..MaxToken
    BY Given
  <2>2. /\ state \in HandlerState /\ state.pc = "upserting"
        /\ state.token = telegram.token /\ state.copy = handler[h].copy
    BY <1>0, <2>1, Given DEF HandlerState
  <2>3. GoTo(h, state)
    BY <1>3 DEF FetchToken
  <2> HIDE DEF state
  <2>4. IssuedTo(state, telegram.token)
    BY <2>2, IssuedGiven DEF IssuedTo
  <2>. QED BY <2>2, <2>3, <2>4, IssuedGoTo
<1>4. CASE ReceiveOwnerChange(h) \/ StartRotation(h) \/ StartDisconnect(h)
           \/ ReceiveStart(h) \/ ReceiveCommand(h) \/ StartDelivery(h) \/ StartCheck(h)
  <2>1. \/ Read(h, "wiping", "OWNER_CHANGED") \/ Read(h, "replacing", "NONE")
        \/ Read(h, "wiping", "DISCONNECTED") \/ Read(h, "deleting", "DISCONNECTED")
        \/ Read(h, "starting", "ACTIVE") \/ Read(h, "replying", "NONE")
        \/ Read(h, "delivering", "NONE") \/ Read(h, "checking", "NONE")
    BY <1>4 DEF ReceiveOwnerChange, StartRotation, StartDisconnect, ReceiveStart,
                ReceiveCommand, StartDelivery, StartCheck
  <2>. QED BY <1>0, <2>1, IssuedRead
<1>5. CASE \E status \in Status : ReceiveMembership(h, status)
  BY <1>0, <1>5, IssuedRead DEF ReceiveMembership
<1>6. CASE TokenRefused(h)
  BY <1>1, <1>6 DEF TokenRefused
<1>7. CASE SetupRefused(h)
  BY <1>0, <1>7, IssuedAbout DEF SetupRefused
<1>8. CASE Reply(h) \/ Deliver(h)
  <2>1. \/ Leave(h) \/ GoTo(h, About(h, "marking", "BLOCKED"))
        \/ GoTo(h, About(h, "wiping", "REVOKED")) /\ ~ TokenWorks(handler[h].copy.token)
    BY <1>8 DEF Reply, Deliver, Leave
  <2>. QED BY <1>0, <1>1, <2>1, IssuedAbout
<1>9. CASE CheckBot(h)
  <2> DEFINE status == CheckedStatus(handler[h].copy)
  <2>1. status \in Status
    BY Given DEF CheckedStatus, BotRow, Status
  <2>2. \/ GoTo(h, About(h, "marking", status))
        \/ GoTo(h, About(h, "wiping", "REVOKED")) /\ ~ TokenWorks(handler[h].copy.token)
    BY <1>9 DEF CheckBot
  <2> HIDE DEF status
  <2>. QED BY <1>0, <2>1, <2>2, IssuedAbout
<1>. QED BY <1>2, <1>3, <1>4, <1>5, <1>6, <1>7, <1>8, <1>9

(* A save leaves the row its token, takes it away, or stores the one the   *)
(* handler was given; the row created for a new bot keeps its token too.   *)
LEMMA IssuedSaves ==
  ASSUME BotInv, TokensIssued, NEW h \in Handlers,
         UpsertBot(h) \/ StoreToken(h) \/ WipeCredentials(h) \/ SaveStatus(h) \/ ActivateBot(h)
  PROVE  TokensIssued'
<1>1. telegram' = telegram /\ \E state \in HandlerState :
        /\ handler' = [handler EXCEPT ![h] = state]
        /\ state.pc \notin {"wiping", "deleting", "checking"}
        /\ state.token \in {Nothing, handler[h].token}
        /\ state.copy.token \in {Nothing, bot.token, handler[h].token, handler[h].copy.token}
        /\ bot'.token \in {Nothing, bot.token, handler[h].token}
  <2>1. CASE UpsertBot(h)
    <3> DEFINE row == WithStatus(bot, "CONFIGURING")
               state == [handler[h] EXCEPT !.pc = "storing", !.copy = row]
    <3>1. row \in BotRow /\ row.token = bot.token
      BY Given, RowShapes DEF Status, WithStatus, BotRow
    <3>2. /\ handler' = [handler EXCEPT ![h] = state] /\ bot' = row /\ telegram' = telegram
      BY <2>1 DEF UpsertBot
    <3> HIDE DEF row
    <3>3. /\ state \in HandlerState /\ state.pc = "storing" /\ state.copy = row
          /\ state.token = handler[h].token
      BY <3>1, Given DEF HandlerState, Phase
    <3> HIDE DEF state
    <3>. QED BY <3>1, <3>2, <3>3
  <2>2. CASE StoreToken(h)
    <3> DEFINE secret == secrets + 1
               token == handler[h].token
               row == Stored(bot, token, secret)
               copy == Stored(handler[h].copy, token, secret)
               state == [handler[h] EXCEPT !.pc = "calling", !.copy = copy,
                                           !.secret = secret]
    <3>1. secret \in 0..MaxSecret /\ token \in 0..MaxToken
      BY <2>2, Given, BotAssumption DEF StoreToken
    <3>2. /\ handler' = [handler EXCEPT ![h] = state] /\ bot' = row /\ telegram' = telegram
      BY <2>2 DEF StoreToken, SaveRow
    <3> HIDE DEF secret
    <3>3. copy \in BotRow /\ copy.token = token /\ row.token = token
      BY <3>1, Given, RowShapes DEF Stored, BotRow
    <3> HIDE DEF row, copy
    <3>4. /\ state \in HandlerState /\ state.pc = "calling" /\ state.copy = copy
          /\ state.token = token
      BY <3>1, <3>3, Given DEF HandlerState, Phase
    <3> HIDE DEF state
    <3>. QED BY <3>2, <3>3, <3>4
  <2>3. CASE WipeCredentials(h)
    <3>1. /\ handler' = [handler EXCEPT ![h] = Resting]
          /\ bot' = Wiped(bot, handler[h].status) /\ telegram' = telegram
      BY <2>3 DEF WipeCredentials, SaveRow
    <3>2. /\ Resting.pc = "idle" /\ Resting.token = Nothing /\ Resting.copy.token = Nothing
          /\ bot'.token = Nothing
      BY <3>1, Given, RowShapes, BotAssumption DEF Resting, NoBot, Nothing
    <3>. QED BY <3>1, <3>2, RestingPrepared
  <2>4. CASE SaveStatus(h)
    <3>1. /\ handler' = [handler EXCEPT ![h] = Resting]
          /\ bot' = WithStatus(bot, handler[h].status) /\ telegram' = telegram
      BY <2>4 DEF SaveStatus, SaveRow
    <3>2. /\ Resting.pc = "idle" /\ Resting.token = Nothing /\ Resting.copy.token = Nothing
          /\ bot'.token = bot.token
      BY <3>1, Given DEF Resting, NoBot, WithStatus, BotRow
    <3>. QED BY <3>1, <3>2, RestingPrepared
  <2>5. CASE ActivateBot(h)
    <3> DEFINE copy == Started(handler[h].copy)
               state == [handler[h] EXCEPT !.pc = "replying", !.copy = copy]
    <3>1. /\ handler' = [handler EXCEPT ![h] = state] /\ bot' = Started(bot)
          /\ telegram' = telegram
      BY <2>5 DEF ActivateBot, SaveRow
    <3>2. copy \in BotRow /\ copy.token = handler[h].copy.token /\ bot'.token = bot.token
      BY <3>1, Given, RowShapes DEF Started, BotRow
    <3> HIDE DEF copy
    <3>3. /\ state \in HandlerState /\ state.pc = "replying" /\ state.copy = copy
          /\ state.token = handler[h].token
      BY <3>2, Given DEF HandlerState, Phase
    <3> HIDE DEF state
    <3>. QED BY <3>1, <3>2, <3>3
  <2>. QED BY <2>1, <2>2, <2>3, <2>4, <2>5
<1>2. PICK state \in HandlerState :
        /\ handler' = [handler EXCEPT ![h] = state]
        /\ state.pc \notin {"wiping", "deleting", "checking"}
        /\ state.token \in {Nothing, handler[h].token}
        /\ state.copy.token \in {Nothing, bot.token, handler[h].token, handler[h].copy.token}
        /\ bot'.token \in {Nothing, bot.token, handler[h].token}
  BY <1>1
<1>3. /\ handler[h].token <= telegram.token /\ handler[h].copy.token <= telegram.token
      /\ bot.token <= telegram.token /\ Nothing <= telegram.token
  BY IssuedGiven DEF IssuedTo
<1>4. IssuedTo(state, telegram'.token) /\ bot'.token <= telegram'.token
  BY <1>1, <1>2, <1>3 DEF IssuedTo
<1>5. /\ telegram' \in [token : 1..MaxToken, webhook : 0..MaxSecret]
      /\ telegram.token <= telegram'.token
  BY <1>1, Given, IssuedGiven
<1>. QED BY <1>2, <1>4, <1>5, IssuedMoves

(* A call changes what Telegram knows, or fails; the handler keeps its     *)
(* object and is told at most the valid token.                             *)
LEMMA IssuedCalls ==
  ASSUME BotInv, TokensIssued, NEW h \in Handlers,
         \/ ReplaceToken(h) \/ SetWebhook(h) \/ DeleteWebhook(h)
         \/ Crash(h) \/ CallFails(h) \/ Undecryptable(h)
  PROVE  TokensIssued'
<1> DEFINE Known(state) ==
             /\ state = Resting \/ state.copy = handler[h].copy
             /\ state.token \in {Nothing, handler[h].token, telegram'.token}
             /\ state.pc \notin {"deleting", "checking"}
             /\ state.pc = "wiping" => state.status # "REVOKED"
<1>0. /\ telegram.token \in 1..MaxToken /\ telegram.webhook \in 0..MaxSecret
      /\ telegram = [token |-> telegram.token, webhook |-> telegram.webhook]
      /\ Nothing \in 0..MaxSecret
  BY Given, BotAssumption DEF Nothing
<1>1. /\ telegram' \in [token : 1..MaxToken, webhook : 0..MaxSecret]
      /\ telegram.token <= telegram'.token
  <2>1. CASE UNCHANGED telegram
    BY <1>0, <2>1, Given
  <2>2. CASE telegram' = [telegram EXCEPT !.token = @ + 1] /\ telegram.token < MaxToken
    BY <1>0, <2>2, Given, BotAssumption
  <2>3. CASE \E secret \in 0..MaxSecret : telegram' = [telegram EXCEPT !.webhook = secret]
    BY <1>0, <2>3, Given
  <2>4. \/ UNCHANGED telegram
        \/ telegram' = [telegram EXCEPT !.token = @ + 1] /\ telegram.token < MaxToken
        \/ \E secret \in {handler[h].secret, Nothing} :
              telegram' = [telegram EXCEPT !.webhook = secret]
    BY DEF ReplaceToken, SetWebhook, DeleteWebhook, Crash, CallFails, Undecryptable
  <2>. QED BY <1>0, <2>1, <2>2, <2>3, <2>4, Given
<1>2. bot' = bot
  BY DEF ReplaceToken, SetWebhook, DeleteWebhook, Crash, CallFails, Undecryptable
<1>3. \E state \in HandlerState : handler' = [handler EXCEPT ![h] = state] /\ Known(state)
  <2>1. CASE handler' = [handler EXCEPT ![h] = Resting]
    BY <2>1, RestingPrepared DEF Resting
  <2>2. ASSUME NEW status \in Status,
               handler' = [handler EXCEPT ![h] = About(h, "marking", status)]
        PROVE  \E state \in HandlerState :
                 handler' = [handler EXCEPT ![h] = state] /\ Known(state)
    <3>1. "marking" \in Phase
      BY DEF Phase
    <3>2. /\ About(h, "marking", status) \in HandlerState
          /\ About(h, "marking", status).pc = "marking"
          /\ About(h, "marking", status).copy = handler[h].copy
          /\ About(h, "marking", status).token = handler[h].token
      BY <3>1, AboutTyped
    <3>3. Known(About(h, "marking", status))
      BY <3>2
    <3> HIDE DEF Known
    <3>. QED BY <2>2, <3>2, <3>3
  <2>3. CASE handler[h].pc = "deleting" /\ handler' = [handler EXCEPT ![h].pc = "wiping"]
    <3> DEFINE state == [handler[h] EXCEPT !.pc = "wiping"]
    <3>1. /\ state \in HandlerState /\ state.pc = "wiping" /\ state.copy = handler[h].copy
          /\ state.token = handler[h].token /\ state.status = handler[h].status
      BY Given DEF HandlerState, Phase
    <3>2. handler' = [handler EXCEPT ![h] = state] /\ handler[h].status = "DISCONNECTED"
      BY <2>3, IssuedGiven DEF IssuedTo
    <3> HIDE DEF state
    <3>. QED BY <3>1, <3>2
  <2>4. CASE ReplaceToken(h)
    <3> DEFINE state == [handler[h] EXCEPT !.pc = "storing", !.token = telegram'.token]
    <3>1. /\ telegram'.token = telegram.token + 1 /\ telegram'.token \in 0..MaxToken
      BY <1>0, <1>1, <2>4, BotAssumption DEF ReplaceToken
    <3>2. handler' = [handler EXCEPT ![h] = state]
      BY <2>4, <3>1 DEF ReplaceToken
    <3>3. /\ state \in HandlerState /\ state.pc = "storing" /\ state.copy = handler[h].copy
          /\ state.token = telegram'.token
      BY <3>1, Given DEF HandlerState, Phase
    <3> HIDE DEF state
    <3>. QED BY <3>2, <3>3
  <2>5. {"AWAITING_START", "ERROR"} \subseteq Status
    BY DEF Status
  <2>6. \/ ReplaceToken(h) \/ handler' = [handler EXCEPT ![h] = Resting]
        \/ \E status \in {"AWAITING_START", "ERROR"} :
              handler' = [handler EXCEPT ![h] = About(h, "marking", status)]
        \/ handler[h].pc = "deleting" /\ handler' = [handler EXCEPT ![h].pc = "wiping"]
    BY DEF SetWebhook, DeleteWebhook, Crash, CallFails, Undecryptable
  <2> HIDE DEF Known
  <2>. QED BY <2>1, <2>2, <2>3, <2>4, <2>5, <2>6
<1>4. PICK state \in HandlerState : handler' = [handler EXCEPT ![h] = state] /\ Known(state)
  BY <1>3
<1>5. /\ handler[h].token <= telegram'.token /\ handler[h].copy.token <= telegram'.token
      /\ bot'.token <= telegram'.token /\ Nothing <= telegram'.token
      /\ telegram'.token \in Nat
  <2>1. telegram'.token \in Nat
    BY <1>1, BotAssumption
  <2>2. /\ handler[h].token <= telegram.token /\ handler[h].copy.token <= telegram.token
        /\ bot.token <= telegram.token
        /\ handler[h].token \in Nat /\ handler[h].copy.token \in Nat
        /\ bot.token \in Nat /\ telegram.token \in Nat
    BY IssuedGiven DEF IssuedTo
  <2>. QED BY <1>1, <1>2, <2>1, <2>2 DEF Nothing
<1>6. IssuedTo(state, telegram'.token)
  <2>1. CASE state = Resting
    BY <1>5, <2>1, IssuedResting
  <2>2. CASE state # Resting
    BY <1>4, <1>5, <2>2 DEF IssuedTo
  <2>. QED BY <2>1, <2>2
<1>. QED BY <1>1, <1>4, <1>5, <1>6, IssuedMoves

(* A token revoked by the owner makes the tokens held outdated, no more.   *)
LEMMA IssuedElsewhere ==
  ASSUME BotInv, TokensIssued, ChangedElsewhere PROVE TokensIssued'
<1>1. bot' = bot /\ handler' = handler
  BY DEF ChangedElsewhere
<1>2. /\ telegram \in [token : 1..MaxToken, webhook : 0..MaxSecret]
      /\ bot.token \in Nat /\ telegram.token \in Nat
  BY BotAssumption DEF BotInv, TypeOK, BotRow
<1>3. telegram'.token \in {telegram.token, telegram.token + 1}
  BY <1>2 DEF ChangedElsewhere
<1>4. ASSUME NEW k \in Handlers PROVE IssuedTo(handler[k], telegram'.token)
  BY <1>2, <1>3, IssuedGiven DEF IssuedTo
<1>. QED BY <1>1, <1>2, <1>3, <1>4 DEF TokensIssued, IssuedTo

(* So it is in every state.                                                *)
THEOREM TokensAreIssued == Spec => []TokensIssued
<1>1. Init => TokensIssued
  BY DEF Init, TokensIssued, IssuedTo, NoBot, Resting, Nothing
<1>2. BotInv /\ TokensIssued /\ [Next]_vars => TokensIssued'
  <2>1. CASE UNCHANGED vars
    BY <2>1 DEF vars, TokensIssued, IssuedTo
  <2>. QED BY <2>1, IssuedQuiet, IssuedSaves, IssuedCalls, IssuedElsewhere DEF Next, Step
<1>. QED BY <1>1, <1>2, BotInvariant, PTL DEF Spec

(* A valid token is lost to a revocation that did not happen only once an  *)
(* outdated object was saved: no crash, no failed call and no change made  *)
(* elsewhere does it, however many handlers are at work.                   *)
THEOREM RevokedIsRefused == Spec => RevokedByTheRow
<1>1. ASSUME BotInv, TokensIssued, [Next]_vars, bot.status # "REVOKED",
             bot'.status = "REVOKED", ~ stale'
      PROVE  ~ TokenWorks(bot.token)
  <2>1. PICK h \in Handlers : UpsertBot(h) \/ StoreToken(h) \/ ActivateBot(h)
                             \/ SaveStatus(h) \/ WipeCredentials(h)
    BY <1>1 DEF vars, Next, Step, ReceiveManagedBot, FetchToken, ReceiveOwnerChange,
       StartRotation, ReplaceToken, TokenRefused, SetWebhook, SetupRefused, StartDisconnect,
       DeleteWebhook, ReceiveStart, ReceiveCommand, Reply, ReceiveMembership, StartDelivery,
       Deliver, StartCheck, CheckBot, Crash, CallFails, Undecryptable, ChangedElsewhere,
       Read, Leave, GoTo
  <2>2. \A row \in BotRow, status \in Status : WithStatus(row, status).status = status
    BY DEF WithStatus, BotRow
  <2>3. ~ (UpsertBot(h) \/ StoreToken(h) \/ ActivateBot(h))
    <3>1. UpsertBot(h) => bot'.status = "CONFIGURING"
      BY <1>1, Given, <2>2 DEF UpsertBot, Status
    <3>2. StoreToken(h) => bot'.status = "CONFIGURING"
      BY <1>1, Given DEF StoreToken, SaveRow, Stored, BotRow
    <3>3. ActivateBot(h) => bot'.status = "ACTIVE"
      BY <1>1, Given DEF ActivateBot, SaveRow, Started, BotRow
    <3>. QED BY <1>1, <3>1, <3>2, <3>3
  <2>4. /\ ~ stale /\ handler[h].copy = bot
    BY <1>1, <2>1, <2>3 DEF SaveStatus, WipeCredentials, SaveRow
  <2>5. ~ SaveStatus(h)
    <3>1. SaveStatus(h) => bot'.status = handler[h].status /\ handler[h].pc = "marking"
      BY <1>1, <2>2, Given DEF SaveStatus, SaveRow
    <3>2. handler[h].pc = "marking" => handler[h].status # "REVOKED"
      BY <1>1, <2>4, Given DEF HandlerPrepared, WipedStatus
    <3>. QED BY <1>1, <3>1, <3>2
  <2>6. /\ handler[h].pc = "wiping" /\ handler[h].status = "REVOKED"
    <3>1. handler[h].pc = "wiping" /\ bot' = Wiped(bot, handler[h].status)
      BY <2>1, <2>3, <2>5 DEF WipeCredentials, SaveRow
    <3>2. Wiped(bot, handler[h].status).status = handler[h].status
      BY <1>1, Given DEF Wiped, BotRow
    <3>. QED BY <1>1, <3>1, <3>2
  <2>. QED BY <1>1, <2>4, <2>6, IssuedGiven DEF IssuedTo, TokenWorks
<1>2. BotInv /\ TokensIssued /\ [Next]_vars
        => [bot.status # "REVOKED" /\ bot'.status = "REVOKED" /\ ~ stale'
              => ~ TokenWorks(bot.token)]_vars
  BY <1>1
<1>. QED BY <1>2, BotInvariant, TokensAreIssued, PTL DEF Spec, RevokedByTheRow

(* A check finds a bot ACTIVE that does not hear its owner only after a    *)
(* fault or an outdated save: the secret that the check never compares is  *)
(* the right one in every other state.                                     *)
THEOREM QuietCheckListens == Spec => CheckedQuietly
<1>1. ASSUME BotInv, QuietInv, TokensIssued, [Next]_vars, NEW h \in Handlers, Quiet, Settled,
             handler[h].copy = bot, handler[h].pc = "checking",
             handler'[h].status = "ACTIVE"
      PROVE  bot.secret = telegram.webhook
  <2>1. bot.token # Nothing /\ bot.secret # Nothing /\ ~ Unfinished
    BY <1>1, Given DEF Quiet, HandlerPrepared, RowConsistent, Settled, Unfinished
  <2>2. CASE TokenWorks(bot.token)
    BY <1>1, <2>1, <2>2 DEF QuietInv, TokenWorks
  <2>3. CASE ~ TokenWorks(bot.token)
    <3>1. /\ handler'[h] # handler[h] /\ handler'[h] # Resting
          /\ handler'[h] # About(h, "wiping", "REVOKED")
      <4>1. "wiping" \in Phase /\ "REVOKED" \in Status
        BY DEF Phase, Status
      <4>2. About(h, "wiping", "REVOKED").status = "REVOKED" /\ Resting.status = "NONE"
        BY <1>1, <4>1, AboutTyped DEF Resting
      <4>. QED BY <1>1, <4>2, IssuedGiven DEF IssuedTo
    <3>2. PICK k \in Handlers : Step(k)
      BY <1>1, <3>1 DEF vars, Next, ChangedElsewhere
    <3>3. \A state : handler' = [handler EXCEPT ![k] = state]
                       => handler'[h] = IF k = h THEN state ELSE handler[h]
      BY <1>1 DEF BotInv, TypeOK
    <3>4. \E state : handler' = [handler EXCEPT ![k] = state]
      BY <3>2 DEF Step, ReceiveManagedBot, FetchToken, UpsertBot, ReceiveOwnerChange,
         StartRotation, ReplaceToken, TokenRefused, StoreToken, SetWebhook, SetupRefused,
         StartDisconnect, DeleteWebhook, WipeCredentials, SaveStatus, ReceiveStart,
         ReceiveCommand, ActivateBot, Reply, ReceiveMembership, StartDelivery, Deliver,
         StartCheck, CheckBot, Crash, CallFails, Undecryptable, Read, Leave, GoTo
    <3>5. k = h
      BY <3>1, <3>3, <3>4
    <3>6. CheckBot(h) \/ Crash(h) \/ CallFails(h)
      BY <1>1, <3>2, <3>5 DEF Step, ReceiveManagedBot, FetchToken, UpsertBot,
         ReceiveOwnerChange, StartRotation, ReplaceToken, TokenRefused, StoreToken,
         SetWebhook, SetupRefused, StartDisconnect, DeleteWebhook, WipeCredentials,
         SaveStatus, ReceiveStart, ReceiveCommand, ActivateBot, Reply, ReceiveMembership,
         StartDelivery, Deliver, StartCheck, Undecryptable
    <3>7. \/ handler' = [handler EXCEPT ![h] = Resting]
          \/ handler' = [handler EXCEPT ![h] = About(h, "wiping", "REVOKED")]
      BY <1>1, <2>3, <3>6 DEF CheckBot, Crash, CallFails, GoTo
    <3>. QED BY <3>1, <3>3, <3>5, <3>7
  <2>. QED BY <2>2, <2>3
<1>2. BotInv /\ QuietInv /\ TokensIssued /\ [Next]_vars
        => [\A h \in Handlers :
              /\ Quiet /\ Settled /\ handler[h].copy = bot
              /\ handler[h].pc = "checking" /\ handler'[h].status = "ACTIVE"
              => bot.secret = telegram.webhook]_vars
  BY <1>1
<1>. QED BY <1>2, BotInvariant, QuietInvariant, TokensAreIssued, PTL
     DEF Spec, CheckedQuietly
=============================================================================
