------------------------------ MODULE Broadcast ------------------------------
(***************************************************************************)
(* Messages to all users: by an administrator in the chat, through the     *)
(* BroadcastManager, which sends a batch at once and tries each user       *)
(* several times; and by the admin API, one user after the other.          *)
(*                                                                         *)
(* A broadcast is a coroutine that lives as long as the bot.  The one of   *)
(* the chat is the handler of the message itself: while it runs the FSM    *)
(* state still waits for a text, and another text starts another           *)
(* broadcast.  The cancel handler knows the manager made last.             *)
(***************************************************************************)
EXTENDS Integers, Sequences, FiniteSets, SequencesExt

CONSTANTS
  Admins,     \* administrators
  Broadcasts, \* bound: broadcasts of one behaviour
  All,        \* get_all_users, in the order of the query
  Unblocked,  \* users.is_blocked = FALSE, likewise
  BatchSize,  \* batch_size
  Retries,    \* retry_count
  Null,
  MaxRestarts \* bound: restarts

ASSUME BroadcastAssumption ==
  /\ All \in Seq(ToSet(All)) /\ Unblocked \in Seq(ToSet(Unblocked))
  /\ IsInjective(All) /\ IsInjective(Unblocked)
  /\ BatchSize \in Nat \ {0} /\ Retries \in Nat \ {0} /\ Null \notin Broadcasts
  /\ MaxRestarts \in Nat

VARIABLES
  cast,    \* a broadcast: where it is, its users, its counts and its batch
  manager, \* broadcast_manager: the broadcast whose manager was made last
  state,   \* FSM state of an administrator
  tried,   \* history: the users Telegram was asked to send to
  stop,    \* history: how many users had been begun with when it was cancelled
  restarts

vars == <<cast, manager, state, tried, stop, restarts>>

NoCast == [at |-> "none", kind |-> "bot", admin |-> Null, users |-> <<>>, from |-> 0,
           left |-> <<>>, ok |-> {}, sent |-> 0, failed |-> 0, cancelled |-> FALSE]

Init ==
  /\ cast = [b \in Broadcasts |-> NoCast]
  /\ manager = Null /\ state = [a \in Admins |-> "none"]
  /\ tried = [b \in Broadcasts |-> {}] /\ stop = [b \in Broadcasts |-> Null]
  /\ restarts = 0

Smaller(x, y) == IF x < y THEN x ELSE y
Goto(b, at) == cast' = [cast EXCEPT ![b].at = at]

-----------------------------------------------------------------------------
(* handlers/admin/broadcast.py *)

\* send_message_callback_handler; the handlers that clear the state or set another.
Prompt(a) ==
  /\ \E to \in {"none", "message"} \ {state[a]} : state' = [state EXCEPT ![a] = to]
  /\ UNCHANGED <<cast, manager, tried, stop, restarts>>

\* broadcast_messages: the text is good, and the users are queried.
Start(a, b) ==
  /\ state[a] = "message" /\ cast[b].at = "none"
  /\ cast' = [cast EXCEPT ![b].at = "query", ![b].admin = a]
  /\ UNCHANGED <<manager, state, tried, stop, restarts>>

\* The manager is made and its broadcast begins; or the query or the progress
\* message fails.
Manage(b) ==
  /\ cast[b].at = "query"
  /\ \/ /\ cast' = [cast EXCEPT ![b].at = "next", ![b].users = All] /\ manager' = b
     \/ Goto(b, "clear") /\ UNCHANGED manager
  /\ UNCHANGED <<state, tried, stop, restarts>>

\* The result is shown and logged, or that fails, and the state is cleared,
\* whatever it is by now.
Clear(b) ==
  /\ cast[b].at = "clear" /\ Goto(b, "done")
  /\ state' = [state EXCEPT ![cast[b].admin] = "none"]
  /\ UNCHANGED <<manager, tried, stop, restarts>>

\* The answer to a failure may fail itself, and then nothing is cleared.
Fail(b) ==
  /\ cast[b].at = "clear" /\ Goto(b, "done")
  /\ UNCHANGED <<manager, state, tried, stop, restarts>>

Size(c) == IF c.kind = "bot" THEN BatchSize ELSE 1

\* History: the users of batches begun with.
Begun(c) ==
  IF c.at = "sending" THEN Smaller(c.from + Size(c), Len(c.users)) ELSE c.from

Cancelled(b) ==
  /\ cast' = [cast EXCEPT ![b].cancelled = TRUE]
  /\ stop' = [stop EXCEPT ![b] = IF @ = Null THEN Begun(cast[b]) ELSE @]

\* cancel_broadcast_handler.  A manager that is done takes no notice.
Cancel ==
  /\ manager # Null /\ cast[manager].at \in {"next", "sending"} /\ Cancelled(manager)
  /\ UNCHANGED <<manager, state, tried, restarts>>

-----------------------------------------------------------------------------
(* api_admin.py *)

\* broadcast_start.  Its task sets the status to "running" before anybody can
\* know the id, so that "pending" is never seen.
StartApi(b) ==
  /\ cast[b].at = "none"
  /\ cast' = [cast EXCEPT ![b].at = "next", ![b].kind = "api", ![b].users = Unblocked]
  /\ UNCHANGED <<manager, state, tried, stop, restarts>>

\* broadcast_cancel
CancelApi(b) ==
  /\ cast[b].kind = "api" /\ cast[b].at \in {"next", "sending"} /\ ~ cast[b].cancelled
  /\ Cancelled(b)
  /\ UNCHANGED <<manager, state, tried, restarts>>

-----------------------------------------------------------------------------
(* BroadcastManager.broadcast and _run_broadcast *)

\* Mutant of Batch: the last batch must be full.
FullBatch(c) ==
  IF c.from + Size(c) > Len(c.users) THEN {}
    ELSE ToSet(SubSeq(c.users, c.from + 1, c.from + Size(c)))

Batch(c) ==
  ToSet(SubSeq(c.users, c.from + 1, Smaller(c.from + Size(c), Len(c.users))))

\* Mutant of Stopped: a cancellation is not looked at.
StoppedAtEnd(c) == c.from >= Len(c.users)
Stopped(c) == c.cancelled \/ c.from >= Len(c.users)

\* The next batch begins, or the statistics are complete.
NextBatch(b) ==
  LET c == cast[b] IN
  /\ c.at = "next"
  /\ IF Stopped(c) THEN Goto(b, IF c.kind = "bot" THEN "clear" ELSE "done")
       ELSE cast' = [cast EXCEPT ![b].at = "sending", ![b].ok = {},
                                 ![b].left = [u \in Batch(c) |-> 0]]
  /\ UNCHANGED <<manager, state, tried, stop, restarts>>

\* Tries of one user: the API sends once more after it was told to wait.
Tries(c) == IF c.kind = "bot" THEN Retries ELSE 2
\* Mutant of LastTry: one try more.
LastTryLate(c, u) == c.left[u] >= Tries(c)
LastTry(c, u) == c.left[u] + 1 >= Tries(c)

Answered(b, u, ok) ==
  cast' = [cast EXCEPT ![b].left = [v \in DOMAIN @ \ {u} |-> @[v]],
                       ![b].ok = IF ok THEN @ \cup {u} ELSE @]

\* Mutant of Again: the third try is counted as the first one.
AgainAnew(b, u) == cast' = [cast EXCEPT ![b].left[u] = IF @ = 0 THEN 1 ELSE 0]
Again(b, u) == cast' = [cast EXCEPT ![b].left[u] = @ + 1]

\* _send_message_safe, one try
SendMessage(b, u) ==
  LET c == cast[b] IN
  /\ c.at = "sending" /\ u \in DOMAIN c.left
  /\ tried' = [tried EXCEPT ![b] = @ \cup {u}]
     \* sent, or TelegramForbiddenError, TelegramBadRequest
  /\ \/ \E ok \in BOOLEAN : Answered(b, u, ok)
     \* TelegramRetryAfter
     \/ IF LastTry(c, u) THEN Answered(b, u, FALSE) ELSE Again(b, u)
     \* Any other exception, also one after which the message has arrived.
     \/ IF LastTry(c, u) \/ c.kind = "api" THEN Answered(b, u, FALSE) ELSE Again(b, u)
  /\ UNCHANGED <<manager, state, stop, restarts>>

\* All of the batch have been answered: gather returns.
EndBatch(b) ==
  LET c == cast[b] IN
  /\ c.at = "sending" /\ c.left = <<>>
  /\ cast' = [cast EXCEPT ![b].at = "next", ![b].from = Begun(c), ![b].ok = {},
                          ![b].sent = @ + Cardinality(c.ok),
                          ![b].failed = @ + Cardinality(Batch(c) \ c.ok)]
  /\ UNCHANGED <<manager, state, tried, stop, restarts>>

\* The bot ends.  The FSM state is kept in Redis, or lost.
Restart ==
  /\ restarts < MaxRestarts /\ restarts' = restarts + 1
  /\ cast' = [b \in Broadcasts |-> IF cast[b].at \in {"none", "done"} THEN cast[b]
                                ELSE [NoCast EXCEPT !.at = "lost"]]
  /\ manager' = Null
  /\ UNCHANGED state \/ state' = [a \in Admins |-> "none"]
  /\ tried' = [b \in Broadcasts |-> IF cast'[b].at = "lost" THEN {} ELSE tried[b]]
  /\ stop' = [b \in Broadcasts |-> IF cast'[b].at = "lost" THEN Null ELSE stop[b]]

Next ==
  \/ \E a \in Admins : Prompt(a) \/ \E b \in Broadcasts : Start(a, b)
  \/ \E b \in Broadcasts : \/ Manage(b) \/ Clear(b) \/ Fail(b) \/ StartApi(b) \/ CancelApi(b)
                           \/ NextBatch(b) \/ EndBatch(b)
                           \/ \E u \in DOMAIN cast[b].left : SendMessage(b, u)
  \/ Cancel \/ Restart

\* The coroutines go on, and Telegram answers every request in some way.
Proceed(b) == \/ Manage(b) \/ Clear(b) \/ Fail(b) \/ NextBatch(b) \/ EndBatch(b)
              \/ \E u \in DOMAIN cast[b].left : SendMessage(b, u)
Fairness == \A b \in Broadcasts : WF_vars(Proceed(b))

Spec == Init /\ [][Next]_vars /\ Fairness
-----------------------------------------------------------------------------
(* Properties *)

First(b, n) == ToSet(SubSeq(cast[b].users, 1, n))

\* Type invariant.
TypeOK ==
  /\ \A b \in Broadcasts :
       /\ cast[b].at \in {"none", "query", "next", "sending", "clear", "done", "lost"}
       /\ cast[b].kind \in {"bot", "api"} /\ cast[b].admin \in Admins \cup {Null}
       /\ cast[b].from \in 0..Len(cast[b].users) /\ cast[b].ok \subseteq ToSet(cast[b].users)
       /\ \A u \in DOMAIN cast[b].left : cast[b].left[u] \in 0..Tries(cast[b]) - 1
       /\ cast[b].sent \in Nat /\ cast[b].failed \in Nat /\ cast[b].cancelled \in BOOLEAN
       /\ stop[b] \in Nat \cup {Null}
  /\ manager \in Broadcasts \cup {Null}
  /\ state \in [Admins -> {"none", "message"}]
  /\ restarts \in 0..MaxRestarts

\* What the statistics say: between two batches exactly the users of the batches
\* that ended are counted, once each, though a message that was tried again may
\* have come twice; and all users at the end, if nobody cancelled.
CountsAgree ==
  \A b \in Broadcasts : LET c == cast[b] IN
    /\ c.sent + c.failed = c.from
    /\ c.at # "sending" => tried[b] = First(b, c.from)
    /\ c.at = "done" /\ ~ c.cancelled => c.from = Len(c.users)

\* After a cancellation only the batch under way is sent: whoever comes later in
\* the list is not tried, however many broadcasts run next to each other.
CancelStops ==
  \A b \in Broadcasts : stop[b] # Null => tried[b] \subseteq First(b, stop[b])

\* Every broadcast ends, though Telegram may refuse, delay or lose any request.
BroadcastsEnd ==
  \A b \in Broadcasts : cast[b].at = "query" \/ cast[b].at = "next"
                           ~> cast[b].at \in {"done", "lost"}

=============================================================================
