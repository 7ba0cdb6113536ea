---------------------------- MODULE OrderPipeline ----------------------------
(***************************************************************************)
(* RealExecutionPipeline of execution.rs over one of the private exchange  *)
(* clients: concurrent calls of execute_order to one exchange, each with   *)
(* up to MaxAttempts tries, the per-exchange rate-limit breaker they share,*)
(* the exchange (external), whose answers may be lost, garbled or refused, *)
(* and the queries and cancellations of the orders that were returned.     *)
(***************************************************************************)
EXTENDS ExchangeClients

CONSTANTS
  Tasks,       \* the concurrent calls, each for one order intent
  Followed,    \* bound: the calls whose orders are filled and followed up
  Clients,     \* the clients one of which serves the exchange
  MaxAttempts, \* retry_with_backoff(3, ..)
  Cooldown,    \* cooldown_duration_secs, in ticks
  MaxNow       \* bound on the clock

ASSUME PipelineAssumption ==
  /\ Clients \subseteq AllClients
  /\ Followed \subseteq Tasks
  /\ {Qty, MaxAttempts, Cooldown, MaxNow} \subseteq Nat \ {0}

VARIABLES
  client,    \* the client of the exchange
  session,   \* its cached account id (HTX) or access token (Deribit)
  cooldown,  \* cooldown_until_ms of the exchange, 0 for none
  now,       \* the wall clock
  call,      \* per call: where it is, which try, and its result
  order,     \* the last order the exchange accepted for the call
  known,     \* the fill last reported to the bot for the returned order
  cancel,    \* the progress of cancel_order on the returned order
  acked,     \* history: the answer that acknowledged the order, if any
  limitEnd   \* history: end of the cooldown due after the last 429

vars == <<client, session, cooldown, now, call, order, known, cancel,
          acked, limitEnd>>
exchange == <<client, order>>
history == <<acked, limitEnd>>
followUp == <<known, cancel>>

NoOrder == [state |-> "none", filled |-> 0]
Live(t) == order[t].state \in {"open", "partial"}
NeedsSession == client \in {"htx", "deribit"}
Pending == Err({})

Init ==
  /\ client \in Clients
  /\ session = FALSE
  /\ cooldown = 0
  /\ now = 1
  /\ call = [t \in Tasks |->
               [pc |-> "check", attempt |-> 1, accepted |-> FALSE,
                result |-> Pending]]
  /\ order = [t \in Tasks |-> NoOrder]
  /\ known = [t \in Tasks |-> 0]
  /\ cancel = [t \in Tasks |-> "no"]
  /\ acked = [t \in Tasks |-> "no"]
  /\ limitEnd = 0

----------------------------------------------------------------------------
(* What the exchange (external) may answer.  Fields that no client reads   *)
(* from such an answer have a fixed value.                                 *)
Plain == [http |-> "ok", json |-> TRUE, code |-> TRUE, id |-> "none",
          says |-> {}, state |-> "unknown", found |-> FALSE,
          filled |-> Unreadable]
Silence == [Plain EXCEPT !.http = "none", !.json = FALSE, !.code = FALSE]

(* Failures of the request: an answer with an error status, or a 2xx one   *)
(* whose body is no JSON.                                                  *)
Failures ==
  {Silence, [Plain EXCEPT !.json = FALSE]}
    \cup {[Plain EXCEPT !.http = h, !.json = j, !.code = FALSE, !.says = s] :
            h \in {"limited", "error"}, j \in BOOLEAN, s \in Said}
(* A refusal in the body of a 2xx answer.                                  *)
Denials == {[Plain EXCEPT !.code = FALSE, !.says = s] : s \in Said}
Rejections == Failures \cup Denials
(* The exchange did what was asked, but its answer does not say so.        *)
LostAnswers == {r \in Failures : r.http # "limited"}
(* Of a failed query or cancellation the rate-limit words are only logged. *)
QuietRejections == {r \in Rejections : r.says \cap LimitWords = {}}
QuietLostAnswers == LostAnswers \cap QuietRejections
Acknowledgements(filled) ==
  {[Plain EXCEPT !.id = i, !.filled = f] :
     i \in {"text", "number"}, f \in Unreadable..filled}
(* A rejected order, and an accepted one whose acknowledgement may be lost *)
(* on the way: a gateway answers with an error, never with a 429.          *)
SubmitReplies(t) ==
  IF call[t].accepted
  THEN LostAnswers \cup Acknowledgements(order[t].filled)
  ELSE Rejections
(* A report on the order, possibly from before its last fill.              *)
Reports(t) ==
  QuietRejections \cup {Plain}
    \cup {[Plain EXCEPT !.found = TRUE, !.state = s, !.filled = f] :
            s \in {order[t].state, "unknown"},
            f \in Unreadable..order[t].filled}

----------------------------------------------------------------------------
(* RateLimitCircuitBreaker::check is a load and, when the cooldown it saw  *)
(* is over, a store of 0; trip is a store.                                 *)
InCooldown == cooldown # 0 /\ now < cooldown
tripped == now + Cooldown

(* Mutants of retry_with_backoff: rate limits are retried like other       *)
(* errors; a failed try is not counted.                                    *)
AfterErrorUncounted(t, words) ==
  IF words \cap LimitWords = {}
  THEN [call[t] EXCEPT !.pc = "check", !.accepted = FALSE]
  ELSE [call[t] EXCEPT !.pc = "done", !.accepted = FALSE]

(* retry_with_backoff after an error: a rate limit it recognises ends the  *)
(* call, and so does the last try.  Its callers only log the error text.   *)
AfterError(t, words) ==
  IF words \cap LimitWords = {} /\ call[t].attempt < MaxAttempts
  THEN [call[t] EXCEPT !.pc = "check", !.attempt = @ + 1, !.accepted = FALSE]
  ELSE [call[t] EXCEPT !.pc = "done", !.accepted = FALSE]

(* What execute_order_inner does with the client's result: an error trips  *)
(* the breaker on some spellings of a rate limit, a refusal on all of them *)
(* and is then an error ("rate limited ..").                               *)
Trips(res) ==
  \/ res.kind = "err" /\ "429" \in res.words
  \/ res.kind = "ok" /\ res.words \cap LimitWords # {}
(* Mutant: a result without success is an error, and so retried.           *)
ConcludeRetriesRefusals(t, res) ==
  /\ cooldown' = IF Trips(res) THEN tripped ELSE cooldown
  /\ call' = [call EXCEPT ![t] =
       IF ~res.success THEN AfterError(t, res.words)
       ELSE [@ EXCEPT !.pc = "done", !.accepted = FALSE,
                     !.result = [res EXCEPT !.words = {}]]]

Conclude(t, res) ==
  /\ cooldown' = IF Trips(res) THEN tripped ELSE cooldown
  /\ call' = [call EXCEPT ![t] =
       IF res.kind = "err" \/ Trips(res) THEN AfterError(t, res.words)
       ELSE [@ EXCEPT !.pc = "done", !.accepted = FALSE,
                     !.result = [res EXCEPT !.words = {}]]]

(* The breaker's own refusal has no word that retry_with_backoff looks for:*)
(* the call sleeps and checks again.                                       *)
Enter == IF NeedsSession /\ ~session THEN "session" ELSE "send"

check(t) ==
  /\ call[t].pc = "check"
  /\ call' = [call EXCEPT ![t] =
       IF InCooldown THEN AfterError(t, {})
       ELSE [@ EXCEPT !.pc = IF cooldown = 0 THEN Enter ELSE "clear"]]
  /\ UNCHANGED <<exchange, session, cooldown, now, followUp, history>>

clear(t) ==
  /\ call[t].pc = "clear"
  /\ cooldown' = 0
  /\ call' = [call EXCEPT ![t].pc = Enter]
  /\ UNCHANGED <<exchange, session, now, followUp, history>>

(* A 429 answer to a request of the call.                                  *)
NoteLimit(r) == limitEnd' = IF r.http = "limited" THEN tripped ELSE limitEnd

(* The answer to the request that ensure_account_id and ensure_auth make   *)
(* when nothing is cached; only the latter looks for an error in the body. *)
SessionReplies == Rejections \cup Acknowledgements(0)
ensure_account_id(r) == Unanswered(r, Checked(r,
  IF r.id = "number" THEN Success(TRUE, 0) ELSE Err({})))
ensure_auth(r) == Unanswered(r, Checked(r,
  IF ~r.code THEN Err(r.says)
  ELSE IF r.id = "text" THEN Success(TRUE, 0) ELSE Err({})))
SessionResult(r) ==
  IF client = "htx" THEN ensure_account_id(r) ELSE ensure_auth(r)

EnsureSession(t) ==
  /\ call[t].pc = "session"
  /\ \E r \in SessionReplies :
       /\ IF SessionResult(r).kind = "ok"
          THEN /\ session' = TRUE
               /\ call' = [call EXCEPT ![t].pc = "send"]
               /\ UNCHANGED cooldown
          ELSE Conclude(t, SessionResult(r)) /\ UNCHANGED session
       /\ NoteLimit(r)
  /\ UNCHANGED <<exchange, now, followUp, acked>>

(* The request reaches the exchange, which accepts the order or not.  The  *)
(* order has no client order id: each accepted request is a new order.     *)
Send(t) ==
  /\ call[t].pc = "send"
  /\ \E accepted \in BOOLEAN :
       /\ client = "paper" => accepted
       /\ call' = [call EXCEPT ![t].pc = "answer", ![t].accepted = accepted]
       /\ order' = IF ~accepted THEN order
                   ELSE [order EXCEPT ![t] =
                     IF client = "paper"
                     THEN [state |-> "filled", filled |-> Qty]
                     ELSE [state |-> "open", filled |-> 0]]
  /\ UNCHANGED <<client, session, cooldown, now, followUp, history>>

KeepsSession(r) == session /\ ~(client = "deribit" /\ DeribitDropsToken(r))

Answer(t) ==
  /\ call[t].pc = "answer"
  /\ \E r \in SubmitReplies(t) :
       LET res == submit_order(client, r) IN
       /\ Conclude(t, res)
       /\ session' = KeepsSession(r)
       /\ known' = [known EXCEPT ![t] =
            IF res.kind = "ok" THEN res.filled ELSE @]
       /\ acked' = [acked EXCEPT ![t] = IF r.id # "none" THEN r.id ELSE @]
       /\ NoteLimit(r)
  /\ UNCHANGED <<exchange, now, cancel>>

(* The caller's leg timeout drops the future at one of its awaits: during  *)
(* a request, or in the sleep before the next try.                         *)
Abandon(t) ==
  /\ \/ call[t].pc \in {"session", "answer"}
     \/ call[t].pc = "check" /\ call[t].attempt > 1
  /\ call' = [call EXCEPT ![t].pc = "dropped", ![t].accepted = FALSE]
  /\ UNCHANGED <<exchange, session, cooldown, now, followUp, history>>

----------------------------------------------------------------------------
(* The poller and the sweeper work on orders that were returned with an id.*)
Returned(t) == call[t].pc = "done" /\ call[t].result.id

(* The poller takes over a positive fill, whatever success says.           *)
KnownFrom(t, res) ==
  IF res.kind = "ok" /\ res.filled > 0 THEN res.filled ELSE known[t]

Query(t) ==
  /\ Returned(t)
  /\ client = "deribit" => session
  /\ \E out \in {<<KnownFrom(t, query_order(client, r)), KeepsSession(r)>> :
                   r \in Reports(t)} :
       known' = [known EXCEPT ![t] = out[1]] /\ session' = out[2]
  /\ UNCHANGED <<exchange, cooldown, now, call, cancel, history>>

(* A query without a token logs in first.                                  *)
QueryLogin(t) ==
  /\ Returned(t)
  /\ client = "deribit" /\ ~session
  /\ session' = TRUE
  /\ UNCHANGED <<exchange, cooldown, now, call, followUp, history>>

(* cancel_order; the sweeper tries again after a failure.                  *)
CancelBegin(t) ==
  /\ Returned(t)
  /\ cancel[t] \in {"no", "failed"}
  /\ cancel' = [cancel EXCEPT ![t] =
       CASE client = "binance" -> "lookup"
         [] client = "deribit" /\ ~session -> "session"
         [] OTHER -> "send"]
  /\ UNCHANGED <<exchange, session, cooldown, now, call, known, history>>

CancelLookup(t) ==
  /\ cancel[t] = "lookup"
  /\ \E r \in Reports(t) :
       cancel' = [cancel EXCEPT ![t] =
         IF Unanswered(r, BinanceLookup(r)).kind = "err" THEN "failed"
         ELSE IF BinanceLookupEnds(r) THEN "ok" ELSE "send"]
  /\ UNCHANGED <<exchange, session, cooldown, now, call, known, history>>

CancelSession(t) ==
  /\ cancel[t] = "session"
  /\ \E r \in SessionReplies :
       IF ensure_auth(r).kind = "ok"
       THEN session' = TRUE /\ cancel' = [cancel EXCEPT ![t] = "send"]
       ELSE cancel' = [cancel EXCEPT ![t] = "failed"] /\ UNCHANGED session
  /\ UNCHANGED <<exchange, cooldown, now, call, known, history>>

(* The exchange cancels a live order, or does not.                         *)
CancelSend(t) ==
  /\ cancel[t] = "send"
  /\ \/ /\ Live(t)
        /\ order' = [order EXCEPT ![t].state = "cancelled"]
        /\ cancel' = [cancel EXCEPT ![t] = "accepted"]
     \/ /\ cancel' = [cancel EXCEPT ![t] = "rejected"]
        /\ UNCHANGED order
  /\ UNCHANGED <<client, session, cooldown, now, call, known, history>>

CancelResult(res) == IF res.kind = "ok" THEN "ok" ELSE "failed"
CancelReplies(t) ==
  IF cancel[t] = "accepted"
  THEN QuietLostAnswers
         \cup {[Plain EXCEPT !.filled = f] : f \in {Unreadable, order[t].filled}}
  ELSE QuietRejections

CancelAnswer(t) ==
  /\ cancel[t] \in {"accepted", "rejected"}
  /\ \E out \in {<<CancelResult(cancel_order(client, r)), KeepsSession(r)>> :
                   r \in CancelReplies(t)} :
       cancel' = [cancel EXCEPT ![t] = out[1]] /\ session' = out[2]
  /\ UNCHANGED <<exchange, cooldown, now, call, known, history>>

(* The exchange fills a live order by one unit.                            *)
Fill(t) ==
  /\ Live(t)
  /\ order' = [order EXCEPT ![t] =
       [state |-> IF @.filled + 1 = Qty THEN "filled" ELSE "partial",
        filled |-> @.filled + 1]]
  /\ UNCHANGED <<client, session, cooldown, now, call, followUp, history>>

Tick ==
  /\ now < MaxNow
  /\ now' = now + 1
  /\ UNCHANGED <<exchange, session, cooldown, call, followUp, history>>

execute_order(t) ==
  check(t) \/ clear(t) \/ EnsureSession(t) \/ Send(t) \/ Answer(t)

Next ==
  \/ \E t \in Tasks : execute_order(t) \/ Abandon(t)
  \/ \E t \in Followed :
       \/ Fill(t)
       \/ Query(t) \/ QueryLogin(t)
       \/ CancelBegin(t) \/ CancelLookup(t) \/ CancelSession(t)
       \/ CancelSend(t) \/ CancelAnswer(t)
  \/ Tick

(* The runtime polls a task that can go on, and every request ends: by an  *)
(* answer or by the HTTP client's timeout.  Nothing is assumed of the      *)
(* other calls.                                                            *)
Spec == Init /\ [][Next]_vars /\ \A t \in Followed : WF_vars(execute_order(t))

----------------------------------------------------------------------------
(* The clients that look for an error in the body of a cancellation.       *)
CodeReaders == {"bybit", "okx", "kraken", "deribit"}
(* The JSON type of the order ids the client reads.                        *)
ReadableId(c, id) ==
  CASE c = "bitfinex" -> id = "number"
    [] c \in {"binance", "paper"} -> TRUE
    [] OTHER -> id = "text"

(* Retries never repeat an acknowledged order: once an answer naming the   *)
(* order has come back, the call has returned Ok, and if the client can    *)
(* read the id it has returned success (for paper, which asks nobody, too).*)
AckedIsReturned ==
  \A t \in Tasks : acked[t] # "no" =>
    /\ call[t].pc = "done"
    /\ call[t].result.kind = "ok"
    /\ ReadableId(client, acked[t]) => call[t].result.success

(* The fill that submit_order and query_order report was really filled,    *)
(* except for Bitfinex, whose submit_order reports the ordered quantity.   *)
ReportedFillIsReal ==
  \A t \in Tasks : client # "bitfinex" => known[t] <= order[t].filled

(* With a client that reads the exchange's error code, a cancellation that *)
(* is reported as done leaves no live order behind, however it raced with  *)
(* fills, lost answers and earlier attempts.                               *)
CancelConfirmed ==
  \A t \in Tasks : client \in CodeReaders /\ cancel[t] = "ok" => ~Live(t)

(* A call of execute_order returns, or is dropped by its caller, whatever  *)
(* the other calls do: the breaker, failing logins and failing requests    *)
(* cannot keep it going.  Calls are alike, so this is about those followed.*)
PipelineReturns ==
  \A t \in Followed : <>(call[t].pc \in {"done", "dropped"})

(* "During cooldown, ALL orders targeting that exchange are rejected": no  *)
(* check passes within the cooldown that follows a 429 answer.             *)
RateLimitRespected ==
  [][\A t \in Tasks :
       call[t].pc = "check" /\ call'[t].pc \in {"session", "send", "clear"}
         => now >= limitEnd]_vars
=============================================================================
