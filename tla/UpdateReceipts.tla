--------------------------- MODULE UpdateReceipts ---------------------------
(* Webhook updates of a personal bot and their receipts: Telegram repeats   *)
(* an update until it is answered 200, the webhook lets it in by the secret *)
(* of the bot's row, handles it once per receipt, and answers with the      *)
(* row's token. /atualizar with its cooldown is the command that has an     *)
(* effect of its own.                                                       *)
EXTENDS Integers, Sequences, FiniteSets

CONSTANTS
    Updates,
    Threads,         \* threads of the web processes
    Cooldown,        \* TELEGRAM_MANUAL_REFRESH_COOLDOWN_MINUTES
    MaxHour,         \* bound of the clock
    MaxMishaps       \* bound of failed calls, lost answers, deaths and lost credentials

ASSUME ReceiptAssumption ==
    /\ IsFiniteSet(Threads) /\ Threads # {}
    /\ Cooldown \in Nat \ {0} /\ MaxHour \in Nat /\ MaxMishaps \in Nat

VARIABLES
    hour,            \* the clock, from the first request on
    telegram,        \* updates: not sent yet, repeated by Telegram, or answered 200
    receipt,         \* status of the TelegramUpdateReceipt rows
    thread,          \* the requests at work
    credentials,     \* of the ManagedBot row, and what Telegram accepts
    refreshes,       \* requested_at of the ManualRefreshRequest rows
    mishaps,
    hushed,          \* history: repetitions answered 200 while the receipt was PROCESSING
    doubled          \* history: a FAILED receipt was claimed twice

receiptVars ==
    <<hour, telegram, receipt, thread, credentials, refreshes, mishaps, hushed, doubled>>

Kinds == {"refresh", "command", "silent", "hopeless"}
Final == {"PROCESSED", "REJECTED"}
ReceiptStatus == {"NONE", "PROCESSING", "FAILED"} \cup Final
Unsent == [state |-> "unsent", kind |-> "command"]
Delivery == [state: {"unsent", "repeating", "answered"}, kind: Kinds]
NoToken == 0
(* valid: the token Telegram accepts; stored, readable: the token of the    *)
(* row, and whether the key that decrypts it is there; listens: the row has *)
(* the digest of the secret that Telegram sends.                            *)
Credentials == [valid: Nat \ {NoToken}, stored: Nat, readable: BOOLEAN, listens: BOOLEAN]
IdleThread == [at |-> "idle"]
ThreadState == {IdleThread}
    \cup [at: {"reclaiming", "handling", "asking", "answering"}, update: Updates, token: Nat]
    \cup [at: {"finishing"}, update: Updates, status: {"FAILED"} \cup Final]

Handling(u) == {t \in Threads : /\ thread[t].at \in {"handling", "asking", "answering", "finishing"}
                                /\ thread[t].update = u}
Recent == {i \in DOMAIN refreshes : refreshes[i] >= hour - Cooldown}

ReceiptInit ==
    /\ hour = 0 /\ mishaps = 0 /\ doubled = FALSE /\ hushed = {} /\ refreshes = <<>>
    /\ telegram = [u \in Updates |-> Unsent]
    /\ receipt = [u \in Updates |-> "NONE"]
    /\ thread = [t \in Threads |-> IdleThread]
    /\ credentials = [valid |-> 1, stored |-> 1, readable |-> TRUE, listens |-> TRUE]

----------------------------------------------------------------------------
SendUpdate(u, k) ==
    /\ telegram[u].state = "unsent"
    /\ telegram' = [telegram EXCEPT ![u] = [state |-> "repeating", kind |-> k]]
    /\ UNCHANGED <<hour, receipt, thread, refreshes, mishaps, hushed, doubled, credentials>>

----------------------------------------------------------------------------
(* What becomes of the credentials. A token is revoked or replaced at       *)
(* Telegram; the key is lost, or comes back, with a start of the processes, *)
(* which a request at work does not see; disconnect_bot wipes the row.      *)
ReplaceToken ==
    /\ mishaps < MaxMishaps /\ mishaps' = mishaps + 1
    /\ credentials' = [credentials EXCEPT !.valid = @ + 1]
    /\ UNCHANGED <<hour, telegram, receipt, thread, refreshes, hushed, doubled>>

LoseKey ==
    /\ mishaps < MaxMishaps /\ mishaps' = mishaps + 1
    /\ credentials' = [credentials EXCEPT !.readable = FALSE]
    /\ UNCHANGED <<hour, telegram, receipt, thread, refreshes, hushed, doubled>>

Wiped == [credentials EXCEPT !.stored = NoToken, !.listens = FALSE]

Disconnect ==
    /\ mishaps < MaxMishaps /\ mishaps' = mishaps + 1
    /\ credentials' = Wiped
    /\ UNCHANGED <<hour, telegram, receipt, thread, refreshes, hushed, doubled>>

RestoreKey ==
    /\ ~ credentials.readable
    /\ credentials' = [credentials EXCEPT !.readable = TRUE]
    /\ UNCHANGED <<hour, telegram, receipt, thread, refreshes, mishaps, hushed, doubled>>

(* configure_personal_bot saves the present token with a new secret, and    *)
(* then tells Telegram that secret, or fails before. Doing so to a bot that *)
(* listens makes it deaf for a while, and is bounded like the mishaps.      *)
SaveCredentials ==
    /\ IF credentials.listens THEN mishaps < MaxMishaps /\ mishaps' = mishaps + 1
       ELSE UNCHANGED mishaps
    /\ credentials' = [credentials EXCEPT !.stored = credentials.valid, !.readable = TRUE,
                                          !.listens = FALSE]
    /\ UNCHANGED <<hour, telegram, receipt, thread, refreshes, hushed, doubled>>

SetWebhook ==
    /\ credentials.stored = credentials.valid /\ ~ credentials.listens
    /\ credentials' = [credentials EXCEPT !.listens = TRUE]
    /\ UNCHANGED <<hour, telegram, receipt, thread, refreshes, mishaps, hushed, doubled>>

Connected ==
    /\ credentials.stored = credentials.valid
    /\ credentials.readable /\ credentials.listens

----------------------------------------------------------------------------
(* personal_bot_webhook: a request goes on with the token of the row it     *)
(* read when it compared the secret; any other secret is answered 403,      *)
(* which changes nothing, and Telegram repeats the update.                  *)
Admitted(t, u) ==
    thread[t].at = "idle" /\ telegram[u].state = "repeating" /\ credentials.listens

Working(u, stage) ==
    [at |-> stage, update |-> u,
     token |-> IF credentials.readable THEN credentials.stored ELSE NoToken]

(* Wrong one: a repetition is handled while the first handler is at work.   *)
ClaimUnfinished(t, u) ==
    /\ Admitted(t, u)
    /\ receipt[u] \in {"NONE", "PROCESSING"}
    /\ receipt' = [receipt EXCEPT ![u] = "PROCESSING"]
    /\ thread' = [thread EXCEPT ![t] = Working(u, "handling")]
    /\ UNCHANGED <<hour, telegram, refreshes, mishaps, hushed, doubled, credentials>>

(* _claim_receipt: get_or_create creates the row.                           *)
ClaimNew(t, u) ==
    /\ Admitted(t, u)
    /\ receipt[u] = "NONE"
    /\ receipt' = [receipt EXCEPT ![u] = "PROCESSING"]
    /\ thread' = [thread EXCEPT ![t] = Working(u, "handling")]
    /\ UNCHANGED <<hour, telegram, refreshes, mishaps, hushed, doubled, credentials>>

(* It reads a FAILED row, to be saved as PROCESSING.                        *)
ClaimFailed(t, u) ==
    /\ Admitted(t, u)
    /\ receipt[u] = "FAILED"
    /\ thread' = [thread EXCEPT ![t] = Working(u, "reclaiming")]
    /\ UNCHANGED <<hour, telegram, receipt, refreshes, mishaps, hushed, doubled, credentials>>

Reclaim(t) ==
    LET u == thread[t].update IN
    /\ thread[t].at = "reclaiming"
    /\ doubled' = (doubled \/ receipt[u] # "FAILED")
    /\ receipt' = [receipt EXCEPT ![u] = "PROCESSING"]
    /\ thread' = [thread EXCEPT ![t].at = "handling"]
    /\ UNCHANGED <<hour, telegram, refreshes, mishaps, hushed, credentials>>

(* Any other row: a duplicate, answered 200 at once.                        *)
AnswerDuplicate(t, u) ==
    /\ Admitted(t, u)
    /\ receipt[u] \in {"PROCESSING"} \cup Final
    /\ telegram' = [telegram EXCEPT ![u].state = "answered"]
    /\ hushed' = IF receipt[u] = "PROCESSING" THEN hushed \cup {u} ELSE hushed
    /\ UNCHANGED <<hour, receipt, thread, refreshes, mishaps, doubled, credentials>>

----------------------------------------------------------------------------
(* The handling of an update ends with a status to be saved.                *)
Ends(t, s) ==
    thread' = [thread EXCEPT ![t] = [at |-> "finishing", update |-> @.update, status |-> s]]

Kind(t) == telegram[thread[t].update].kind

(* Another sender than the owner, or a malformed update: REJECTED; a change *)
(* of membership or an unsupported update: PROCESSED. Neither is replied to.*)
HandleSilent(t) ==
    /\ thread[t].at = "handling" /\ Kind(t) = "silent"
    /\ \E s \in Final : Ends(t, s)
    /\ UNCHANGED <<hour, telegram, receipt, refreshes, mishaps, hushed, doubled, credentials>>

(* A message of the owner without a text: the empty text has no first word, *)
(* and the exception fails the update every time. So does a reply Telegram  *)
(* never takes: to an owner who blocks the bot, or to an old button.        *)
HandleHopeless(t) ==
    /\ thread[t].at = "handling" /\ Kind(t) = "hopeless"
    /\ Ends(t, "FAILED")
    /\ UNCHANGED <<hour, telegram, receipt, refreshes, mishaps, hushed, doubled, credentials>>

(* Wrong one: the cooldown is not looked at.                                *)
IgnoreCooldown(t) ==
    /\ thread[t].at = "handling" /\ Kind(t) = "refresh"
    /\ thread' = [thread EXCEPT ![t].at = "asking"]
    /\ UNCHANGED <<hour, telegram, receipt, refreshes, mishaps, hushed, doubled, credentials>>

(* _request_refresh: the query for a recent request, then the transaction.  *)
CheckCooldown(t) ==
    /\ thread[t].at = "handling" /\ Kind(t) = "refresh"
    /\ thread' = [thread EXCEPT ![t].at = IF Recent = {} THEN "asking" ELSE "answering"]
    /\ UNCHANGED <<hour, telegram, receipt, refreshes, mishaps, hushed, doubled, credentials>>

CreateRefresh(t) ==
    /\ thread[t].at = "asking"
    /\ refreshes' = Append(refreshes, hour)
    /\ thread' = [thread EXCEPT ![t].at = "answering"]
    /\ UNCHANGED <<hour, telegram, receipt, mishaps, hushed, doubled, credentials>>

HandleCommand(t) ==
    /\ thread[t].at = "handling" /\ Kind(t) = "command"
    /\ thread' = [thread EXCEPT ![t].at = "answering"]
    /\ UNCHANGED <<hour, telegram, receipt, refreshes, mishaps, hushed, doubled, credentials>>

(* _send with the token read at admission. A 401 means that Telegram does   *)
(* not accept it any more: _mark_api_failure wipes token and secret of the  *)
(* row, whatever they are by now. A token that cannot be decrypted does not *)
(* get to Telegram.                                                         *)
SendAnswer(t) ==
    /\ thread[t].at = "answering" /\ thread[t].token = credentials.valid
    /\ Ends(t, "PROCESSED")
    /\ UNCHANGED <<hour, telegram, receipt, refreshes, mishaps, hushed, doubled, credentials>>

AnswerRefused(t) ==
    /\ thread[t].at = "answering" /\ thread[t].token \notin {NoToken, credentials.valid}
    /\ Ends(t, "FAILED")
    /\ credentials' = Wiped
    /\ UNCHANGED <<hour, telegram, receipt, refreshes, mishaps, hushed, doubled>>

AnswerUnreadable(t) ==
    /\ thread[t].at = "answering" /\ thread[t].token = NoToken
    /\ Ends(t, "FAILED")
    /\ UNCHANGED <<hour, telegram, receipt, refreshes, mishaps, hushed, doubled, credentials>>

(* Any other error of the call, which the next one may not meet.            *)
AnswerFails(t) ==
    /\ thread[t].at = "answering" /\ thread[t].token # NoToken
    /\ mishaps < MaxMishaps
    /\ Ends(t, "FAILED")
    /\ mishaps' = mishaps + 1
    /\ UNCHANGED <<hour, telegram, receipt, refreshes, hushed, doubled, credentials>>

(* Wrong one: a failure is answered 200, so Telegram does not repeat it.    *)
FinishAlwaysOk(t) ==
    LET u == thread[t].update IN
    /\ thread[t].at = "finishing"
    /\ receipt' = [receipt EXCEPT ![u] = thread[t].status]
    /\ telegram' = [telegram EXCEPT ![u].state = "answered"]
    /\ thread' = [thread EXCEPT ![t] = IdleThread]
    /\ UNCHANGED <<hour, refreshes, mishaps, hushed, doubled, credentials>>

(* _finish_receipt and the answer: 503 makes Telegram repeat the update, 200 *)
(* ends it, unless the answer gets lost.                                    *)
FinishUpdate(t) ==
    LET u == thread[t].update IN
    /\ thread[t].at = "finishing"
    /\ receipt' = [receipt EXCEPT ![u] = thread[t].status]
    /\ \/ /\ telegram' = IF thread[t].status = "FAILED" THEN telegram
                         ELSE [telegram EXCEPT ![u].state = "answered"]
          /\ UNCHANGED mishaps
       \/ /\ thread[t].status # "FAILED" /\ mishaps < MaxMishaps
          /\ mishaps' = mishaps + 1
          /\ UNCHANGED telegram
    /\ thread' = [thread EXCEPT ![t] = IdleThread]
    /\ UNCHANGED <<hour, refreshes, hushed, doubled, credentials>>

(* The process dies; the receipt stays as it is.                            *)
Die(t) ==
    /\ thread[t].at # "idle" /\ mishaps < MaxMishaps
    /\ thread' = [thread EXCEPT ![t] = IdleThread]
    /\ mishaps' = mishaps + 1
    /\ UNCHANGED <<hour, telegram, receipt, refreshes, hushed, doubled, credentials>>

(* Until the first request the clock says nothing.                          *)
PassHour ==
    /\ hour < MaxHour /\ refreshes # <<>>
    /\ hour' = hour + 1
    /\ UNCHANGED <<telegram, receipt, thread, refreshes, mishaps, hushed, doubled, credentials>>

DeliverUpdate(u) ==
    \E t \in Threads : ClaimNew(t, u) \/ ClaimFailed(t, u) \/ AnswerDuplicate(t, u)

ThreadStep(t) ==
    \/ Reclaim(t) \/ HandleSilent(t) \/ HandleHopeless(t) \/ CheckCooldown(t)
    \/ CreateRefresh(t) \/ HandleCommand(t)
    \/ SendAnswer(t) \/ AnswerRefused(t) \/ AnswerUnreadable(t) \/ FinishUpdate(t)

CredentialStep ==
    \/ ReplaceToken \/ LoseKey \/ Disconnect
    \/ RestoreKey \/ SaveCredentials \/ SetWebhook

ReceiptNext ==
    \/ \E u \in Updates : DeliverUpdate(u) \/ \E k \in Kinds : SendUpdate(u, k)
    \/ \E t \in Threads : ThreadStep(t) \/ AnswerFails(t) \/ Die(t)
    \/ CredentialStep
    \/ PassHour

ReceiptSpec == ReceiptInit /\ [][ReceiptNext]_receiptVars

(* Telegram repeats an update that is not answered, a request runs on.      *)
ReceiptFairness ==
    /\ \A u \in Updates : SF_receiptVars(DeliverUpdate(u))
    /\ \A t \in Threads : WF_receiptVars(ThreadStep(t))

----------------------------------------------------------------------------
(* Every variable holds a value of its type.                                *)
ReceiptTypeOK ==
    /\ hour \in 0 .. MaxHour /\ mishaps \in 0 .. MaxMishaps /\ doubled \in BOOLEAN
    /\ telegram \in [Updates -> Delivery]
    /\ receipt \in [Updates -> ReceiptStatus]
    /\ thread \in [Threads -> ThreadState]
    /\ credentials \in Credentials
    /\ refreshes \in Seq(0 .. MaxHour)
    /\ hushed \subseteq Updates

(* Until a FAILED receipt is claimed twice at once, an update has one       *)
(* handler at a time, and its receipt says PROCESSING meanwhile.            *)
OneHandler ==
    doubled \/ \A u \in Updates :
        /\ Cardinality(Handling(u)) <= 1
        /\ Handling(u) # {} => receipt[u] = "PROCESSING"

(* The cooldown is checked before the request is created, so parallel       *)
(* /atualizar get past it, but never more than requests run in parallel.    *)
CooldownHolds == Cardinality(Recent) <= Cardinality(Threads)

(* Once the bot's credentials work for good, however they were lost and    *)
(* replaced before, every update Telegram still repeats ends PROCESSED or   *)
(* REJECTED, unless a repetition was answered 200 while its receipt was     *)
(* PROCESSING, or it is one whose handling fails every time. Without that   *)
(* premise an update that has lost its bot the credentials, by a 401 to the *)
(* reply, is refused with 403 whenever it is repeated.                      *)
EveryUpdateSettles ==
    <>[]Connected =>
        \A u \in Updates :
            telegram[u].state = "repeating" /\ telegram[u].kind # "hopeless"
                ~> receipt[u] \in Final \/ u \in hushed
=============================================================================
