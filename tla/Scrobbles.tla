----------------------------- MODULE Scrobbles -----------------------------
(***************************************************************************)
(* Plays kept for Last.fm: lastfm/lastfm.c.                                *)
(*                                                                         *)
(* The interface thread counts plays into memory.  A worker moves them to  *)
(* a queue on the card, when there is a card and the clock has been set,   *)
(* and sends the head of the queue in batches, when there is a network.    *)
(* The card is pulled and changed, the account too, and the power goes.    *)
(***************************************************************************)
EXTENDS Integers, Sequences, FiniteSets

CONSTANTS
    Accounts,
    NoAccount,
    Cards,
    NoCard,
    Plays,      \* the plays that are ever listened to
    Bad,        \* those that Last.fm refuses
    Torn,       \* a line that cannot be read
    QUEUE_MAX,
    PENDING_MAX,
    BATCH_MAX,
    SESSION_REFUSALS_MAX,
    MaxFaults,  \* failed writes and failed drops
    Faults,     \* which of "write" and "drop" may happen
    SignsInOver \* whether another account may follow one that expired

ASSUME AccountsAssumption == NoAccount \notin Accounts
ASSUME CardsAssumption == NoCard \notin Cards
ASSUME PlaysAssumption == Bad \subseteq Plays /\ Torn \notin Plays
ASSUME LimitsAssumption ==
    /\ {QUEUE_MAX, PENDING_MAX, BATCH_MAX, SESSION_REFUSALS_MAX} \subseteq Nat \ {0}
    /\ MaxFaults \in Nat
ASSUME FaultsAssumption == Faults \subseteq {"write", "drop"} /\ SignsInOver \in BOOLEAN

VARIABLES
    \* What outlives a loss of power.
    queue,          \* the lines of each card's queue file, but its header
    owner,          \* the account in its header, NoAccount where there is no file
    saved,          \* the session file: its user, and whether there is a key
    enabled,
    \* The world.
    card,           \* the card that can be written now
    clock,          \* whether the clock has been set
    faults,
    \* Shared by the threads.
    user,           \* only the worker changes it
    session_key, session_expired, session_refusals,
    login_requested, logout_requested,
    login_user,     \* who is signing in, from the request to its answer
    pending,        \* plays in memory, each with whether its time is known
    file_count,     \* plays that should be in the queue file
    \* The worker's.
    pc,
    card_ready,
    active,         \* there was a session to send with when its turn began
    batch,
    ready,          \* the plays on their way to the card
    sending,        \* the lines on their way to Last.fm, and then out of the queue
    \* History.
    listener,       \* who was signed in when the play was counted
    received,       \* what Last.fm has, and under which account
    refused         \* the plays that it refused one by one

files == <<queue, owner>>
world == <<card, clock>>
session == <<user, session_key, session_expired, session_refusals>>
requests == <<login_requested, logout_requested, login_user>>
history == <<listener, received, refused>>
vars == <<files, saved, enabled, world, faults, session, requests, pending, file_count,
          pc, card_ready, active, batch, ready, sending, history>>

Places == {"top", "login", "card", "append", "keep", "send", "wire", "drop", "rest", "asleep", "waiting"}

Init ==
    /\ queue = [c \in Cards |-> <<>>] /\ owner = [c \in Cards |-> NoAccount]
    /\ saved = [user |-> NoAccount, key |-> FALSE] /\ enabled \in BOOLEAN
    /\ card \in Cards \cup {NoCard} /\ clock \in BOOLEAN /\ faults = 0
    /\ user = NoAccount /\ session_key = FALSE /\ session_expired = FALSE /\ session_refusals = 0
    /\ login_requested = FALSE /\ logout_requested = FALSE
    /\ login_user = NoAccount
    /\ pending = <<>> /\ file_count = 0
    /\ pc = "top" /\ card_ready = FALSE /\ active = FALSE
    /\ batch = BATCH_MAX /\ ready = <<>> /\ sending = <<>>
    /\ listener = [p \in Plays |-> NoAccount] /\ received = {} /\ refused = {}

Lines(q) == {q[i] : i \in DOMAIN q}
Least(a, b) == IF a < b THEN a ELSE b
logging_in == login_user /= NoAccount
counting == enabled /\ user /= NoAccount /\ (session_key \/ session_expired)
\* Whether one more thing may fail in this way, and what it costs.
MayFail(fault) == fault \in Faults /\ faults < MaxFaults
Fails(b) == faults' = IF b THEN faults + 1 ELSE faults

-----------------------------------------------------------------------------
(***************************************************************************)
(* The interface thread.  Whatever it asks for wakes a sleeping worker.    *)
(***************************************************************************)

Asleep == pc \in {"asleep", "waiting"}
Signal == pc' = IF Asleep THEN "top" ELSE pc

\* lastfm_note_playback() has heard enough of a play.  It knows its time if the
\* clock had been set when it began.
qualify(p) ==
    /\ counting /\ listener[p] = NoAccount
    /\ listener' = [listener EXCEPT ![p] = user]
    /\ IF Len(pending) < PENDING_MAX
       THEN /\ \E known \in BOOLEAN :
                  /\ known => clock
                  /\ pending' = Append(pending, [play |-> p, when |-> known])
            /\ Signal
       ELSE UNCHANGED <<pending, pc>>
    /\ UNCHANGED <<files, saved, enabled, world, faults, session, requests, file_count,
                   card_ready, active, batch, ready, sending, received, refused>>

\* The page offers to sign in only where there is no session.
lastfm_login(a) ==
    /\ ~session_key /\ ~logging_in
    /\ session_expired /\ ~logout_requested => a = user \/ SignsInOver
    /\ login_user' = a /\ login_requested' = TRUE
    /\ Signal
    /\ UNCHANGED <<files, saved, enabled, world, faults, session, logout_requested, pending,
                   file_count, card_ready, active, batch, ready, sending, history>>

\* It may have been offered while the session still held.
lastfm_logout ==
    /\ session_key \/ session_expired
    /\ logout_requested' = TRUE /\ session_key' = FALSE /\ session_expired' = FALSE
    /\ Signal
    /\ UNCHANGED <<files, saved, enabled, world, faults, user, session_refusals, login_requested,
                   login_user, pending, file_count, card_ready, active, batch, ready,
                   sending, history>>

lastfm_set_enabled ==
    /\ enabled' = ~enabled /\ Signal
    /\ UNCHANGED <<files, saved, world, faults, session, requests, pending, file_count,
                   card_ready, active, batch, ready, sending, history>>

-----------------------------------------------------------------------------
(***************************************************************************)
(* The worker: one turn of worker_main().                                  *)
(***************************************************************************)

Goto(place) == pc' = place

WithoutFile(c) == /\ queue' = [queue EXCEPT ![c] = <<>>]
                  /\ owner' = [owner EXCEPT ![c] = NoAccount]

pending_kept(p) == p   \* Faulty variant: the plays of one account outlive its sign-out.
pending_forgotten(p) == <<>>

\* do_logout(): the session file, the queue on this card, and all that is in memory.
do_logout ==
    /\ saved' = [user |-> NoAccount, key |-> FALSE]
    /\ IF card_ready /\ card /= NoCard THEN WithoutFile(card) ELSE UNCHANGED files
    /\ card_ready' = FALSE /\ file_count' = 0 /\ pending' = pending_forgotten(pending)
    /\ user' = NoAccount /\ session_key' = FALSE /\ session_expired' = FALSE
    /\ UNCHANGED session_refusals

TakeRequests ==
    /\ pc = "top"
    /\ login_requested' = FALSE /\ logout_requested' = FALSE
    /\ Goto(IF login_requested THEN "login" ELSE "card")
    /\ IF logout_requested
       THEN do_logout
       ELSE UNCHANGED <<saved, files, card_ready, file_count, pending, session>>
    /\ UNCHANGED <<enabled, world, faults, login_user, active, batch, ready, sending,
                   history>>

\* do_login(): an answer, of whatever kind, and the card is looked at again.
do_login ==
    /\ pc = "login"
    /\ login_user' = NoAccount /\ card_ready' = FALSE /\ Goto("card")
    /\ \/ /\ user' = login_user /\ session_key' = TRUE /\ session_expired' = FALSE
          /\ session_refusals' = 0 /\ saved' = [user |-> login_user, key |-> TRUE]
       \/ UNCHANGED <<session, saved>>
    /\ UNCHANGED <<files, enabled, world, faults, login_requested, logout_requested,
                   pending, file_count, active, batch, ready, sending, history>>

foreign(c) == owner[c] \notin {NoAccount, user}

\* queue_attach(): a queue of somebody else's is thrown away, one's own counted.
queue_attach ==
    /\ IF foreign(card) THEN WithoutFile(card) ELSE UNCHANGED files
    /\ file_count' = IF owner[card] = user THEN Len(queue[card]) ELSE 0
    /\ card_ready' = TRUE

\* The session and the card, read before anything is kept or sent.
LookAtCard ==
    CASE ~counting -> UNCHANGED <<files, card_ready, file_count>>
      [] counting /\ card = NoCard -> /\ card_ready' = FALSE
                                      /\ file_count' = IF card_ready THEN 0 ELSE file_count
                                      /\ UNCHANGED files
      [] counting /\ card /= NoCard /\ ~card_ready -> queue_attach
      [] OTHER -> UNCHANGED <<files, card_ready, file_count>>

Timed(plays) == {i \in DOMAIN plays : plays[i].when}

\* What a sequence has at some of its places, in order.
Chosen(s, places) ==
    LET of[n \in 0..Len(s)] ==
          IF n = 0 THEN <<>> ELSE IF n \in places THEN Append(of[n - 1], s[n]) ELSE of[n - 1]
    IN of[Len(s)]

\* flush_pending(), before the write: the times that can be worked out, and the
\* plays that have one, as many as there is room for.  Nothing that happens
\* between the look and this is seen by the one and not by the other.
LookAndTake ==
    /\ pc = "card"
    /\ active' = (enabled /\ session_key)
    /\ LookAtCard
    /\ LET known == [i \in DOMAIN pending |-> [pending[i] EXCEPT !.when = @ \/ clock]]
           all == Chosen(known, Timed(known))
           room == IF QUEUE_MAX > file_count' THEN QUEUE_MAX - file_count' ELSE 0
           kept == Least(Len(all), room) IN
       /\ pending' = IF counting THEN known ELSE pending
       /\ IF counting /\ card_ready' /\ all /= <<>>
          THEN /\ ready' = [i \in 1..kept |-> all[i].play]
               /\ Goto(IF kept = 0 THEN "keep" ELSE "append")
          ELSE UNCHANGED ready /\ Goto(IF counting THEN "send" ELSE "rest")
    /\ UNCHANGED <<saved, enabled, world, faults, session, requests, batch, sending, history>>

\* A line written after a torn one is part of it.
Joined(q, lines) ==
    IF q /= <<>> /\ lines /= <<>> /\ q[Len(q)] = Torn THEN q \o Tail(lines) ELSE q \o lines

\* What a write leaves in the file, and whether it is known to be there.
Attempts ==
    {[lines |-> ready, ok |-> TRUE]} \cup
    IF MayFail("write")
    THEN {[lines |-> SubSeq(ready, 1, n), ok |-> FALSE] : n \in 0..Len(ready)} \cup
         {[lines |-> Append(SubSeq(ready, 1, n - 1), Torn), ok |-> FALSE] : n \in 1..Len(ready)}
    ELSE {}

\* queue_append(), which does not find the file where the card is gone.
queue_append ==
    /\ pc = "append"
    /\ \/ /\ card = NoCard /\ ready' = <<>> /\ Goto("send")
          /\ UNCHANGED <<files, faults>>
       \/ /\ card /= NoCard
          /\ \E written \in Attempts :
                /\ queue' = [queue EXCEPT ![card] = Joined(@, written.lines)]
                /\ owner' = [owner EXCEPT ![card] = IF @ = NoAccount THEN user ELSE @]
                /\ Fails(~written.ok)
                /\ IF written.ok
                   THEN Goto("keep") /\ UNCHANGED ready
                   ELSE Goto("send") /\ ready' = <<>>
    /\ UNCHANGED <<saved, enabled, world, session, requests, pending, file_count, card_ready,
                   active, batch, sending, history>>

\* flush_pending(), after it: every play that has a time is taken to be written.
KeepRest ==
    /\ pc = "keep"
    /\ file_count' = file_count + Len(ready)
    /\ pending' = Chosen(pending, DOMAIN pending \ Timed(pending))
    /\ ready' = <<>> /\ Goto("send")
    /\ UNCHANGED <<files, saved, enabled, world, faults, session, requests, card_ready, active,
                   batch, sending, history>>

\* The lines that hold the first `batch` plays, or all of them.
Batch(q) ==
    LET plays(n) == Cardinality({i \in 1..n : q[i] /= Torn})
        enough == {n \in 0..Len(q) : plays(n) = batch} IN
    IF enough = {} THEN q ELSE SubSeq(q, 1, CHOOSE n \in enough : \A k \in enough : n <= k)

HeadOfQueue == IF card = NoCard THEN <<>> ELSE Batch(queue[card])

\* send_batch(): it is online, and its last failure is long enough ago.
StartSend ==
    /\ pc = "send" /\ active /\ file_count > 0
    /\ sending' = HeadOfQueue /\ Goto("wire")
    /\ UNCHANGED <<files, saved, enabled, world, faults, session, requests, pending, file_count,
                   card_ready, active, batch, ready, history>>

Sent == Lines(sending) \ {Torn}
Delivered == received \cup {<<user, p>> : p \in Sent}

count_unchecked(n) == file_count - n   \* Faulty variant: the count goes below nothing.
count_without(n) == IF file_count > n THEN file_count - n ELSE 0

one_at_a_time_never == batch   \* Faulty variant: the whole batch is tried again.
one_at_a_time == 1

drop_on_refusal == TRUE   \* Faulty variant: the whole batch is let go.
drop_alone == batch = 1

\* send_queue(), after the answer: the count, then the file.
Counted(dropped) ==
    LET left == IF sending = <<>> THEN 0
                ELSE IF dropped THEN count_without(Len(sending)) ELSE file_count IN
    /\ file_count' = left
    /\ IF dropped /\ sending /= <<>>
       THEN Goto("drop") /\ UNCHANGED sending
       ELSE Goto("rest") /\ sending' = <<>>

Untouched == UNCHANGED <<files, enabled, world, faults, requests, pending, card_ready, active,
                         ready, listener>>

BatchAgain(b) == batch' = IF file_count' = 0 THEN BATCH_MAX ELSE b

AnswerOk ==
    /\ pc = "wire" /\ Sent \cap Bad = {}
    /\ received' = Delivered /\ session_refusals' = 0
    /\ Counted(TRUE) /\ BatchAgain(batch)
    /\ UNCHANGED <<user, session_key, session_expired, saved, refused>> /\ Untouched

\* One play of the batch is the problem.
AnswerBad ==
    /\ pc = "wire" /\ Sent \cap Bad /= {}
    /\ Counted(drop_alone)
    /\ BatchAgain(IF batch > 1 THEN one_at_a_time ELSE batch)
    /\ refused' = IF batch = 1 THEN refused \cup Sent ELSE refused
    /\ UNCHANGED <<session, saved, received>> /\ Untouched

\* Refused for another reason, or none that arrived: what it had may be there.
AnswerLater ==
    /\ pc = "wire" /\ Sent /= {}
    /\ received' \in {received, IF Sent \cap Bad = {} THEN Delivered ELSE received}
    /\ Counted(FALSE) /\ BatchAgain(batch)
    /\ UNCHANGED <<session, saved, refused>> /\ Untouched

\* The key is refused; again and again, and the session is lost.
AnswerSession ==
    /\ pc = "wire" /\ Sent /= {}
    /\ IF session_refusals + 1 >= SESSION_REFUSALS_MAX
       THEN /\ session_key' = FALSE /\ session_expired' = TRUE /\ session_refusals' = 0
            /\ saved' = [user |-> user, key |-> FALSE]
       ELSE /\ session_refusals' = session_refusals + 1
            /\ UNCHANGED <<session_key, session_expired, saved>>
    /\ Counted(FALSE) /\ BatchAgain(batch)
    /\ UNCHANGED <<user, received, refused>> /\ Untouched

Answered == AnswerOk \/ AnswerBad
Answer == Answered \/ AnswerLater \/ AnswerSession

Drained(c, q) == /\ queue' = [queue EXCEPT ![c] = q]
                 /\ owner' = [owner EXCEPT ![c] = IF q = <<>> THEN NoAccount ELSE @]

\* queue_drop_head(): a new file, renamed over the old one, or none at all.
queue_drop_head ==
    /\ pc = "drop"
    /\ \/ /\ card /= NoCard
          /\ Drained(card, SubSeq(queue[card], Len(sending) + 1, Len(queue[card])))
          /\ UNCHANGED faults
       \/ /\ card = NoCard \/ MayFail("drop")
          /\ Fails(card /= NoCard) /\ UNCHANGED files
    /\ sending' = <<>> /\ Goto("rest")
    /\ UNCHANGED <<saved, enabled, world, session, requests, pending, file_count, card_ready,
                   active, batch, ready, history>>

waiting_for_card == counting /\ (~card_ready \/ pending /= <<>>)
waiting == waiting_for_card \/ (enabled /\ session_key /\ file_count > 0)

requested == login_requested \/ logout_requested

\* More to send, or asked for something: straight on.  Otherwise asleep.  It may
\* be off-line, or too soon after a failure, to send at all.
Rest ==
    /\ pc \in {"send", "rest"} /\ active' = FALSE
    /\ \/ /\ requested \/ (enabled /\ session_key /\ file_count > 0)
          /\ Goto("top")
       \/ /\ ~requested
          /\ Goto(IF waiting THEN "waiting" ELSE "asleep")
    /\ UNCHANGED <<files, saved, enabled, world, faults, session, requests, pending, file_count,
                   card_ready, batch, ready, sending, history>>

\* The end of its sleep; or a track begins, which wakes it to say so.
Wakes ==
    /\ Asleep /\ Goto("top")
    /\ UNCHANGED <<files, saved, enabled, world, faults, session, requests, pending, file_count,
                   card_ready, active, batch, ready, sending, history>>

-----------------------------------------------------------------------------
(***************************************************************************)
(* The world.                                                              *)
(***************************************************************************)

\* Pulled out, lent to a computer, or found read-only.
CardGoes ==
    /\ card /= NoCard /\ card' = NoCard
    /\ UNCHANGED <<files, saved, enabled, clock, faults, session, requests, pending, file_count,
                   pc, card_ready, active, batch, ready, sending, history>>

CardComes(c) ==
    /\ card = NoCard /\ card' = c
    /\ UNCHANGED <<files, saved, enabled, clock, faults, session, requests, pending, file_count,
                   pc, card_ready, active, batch, ready, sending, history>>

ClockIsSet ==
    /\ ~clock /\ clock' = TRUE
    /\ UNCHANGED <<files, saved, enabled, card, faults, session, requests, pending, file_count,
                   pc, card_ready, active, batch, ready, sending, history>>

\* And the start that follows it: lastfm_init().
PowerLoss ==
    /\ clock' = FALSE
    /\ user' = saved.user /\ session_key' = saved.key
    /\ session_expired' = (saved.user /= NoAccount /\ ~saved.key) /\ session_refusals' = 0
    /\ login_requested' = FALSE /\ logout_requested' = FALSE
    /\ login_user' = NoAccount
    /\ pending' = <<>> /\ file_count' = 0
    /\ pc' = "top" /\ card_ready' = FALSE /\ active' = FALSE
    /\ batch' = BATCH_MAX /\ ready' = <<>> /\ sending' = <<>>
    /\ UNCHANGED <<files, saved, enabled, card, faults, history>>

Gui ==
    \/ \E p \in Plays : qualify(p)
    \/ \E a \in Accounts : lastfm_login(a)
    \/ lastfm_logout \/ lastfm_set_enabled

worker_main ==
    \/ TakeRequests \/ do_login \/ LookAndTake \/ queue_append \/ KeepRest
    \/ StartSend \/ Answer \/ queue_drop_head \/ Rest

Next ==
    \/ Gui \/ worker_main \/ Wakes
    \/ CardGoes \/ (\E c \in Cards : CardComes(c)) \/ ClockIsSet \/ PowerLoss

Spec == Init /\ [][Next]_vars

\* The worker runs, and a sleep with an end ends.  Last.fm, tried again and
\* again, is reached, and at last has an answer that is about the plays.
FairSpec ==
    /\ Spec
    /\ WF_vars(worker_main) /\ WF_vars(pc = "waiting" /\ Wakes)
    /\ SF_vars(StartSend) /\ SF_vars(Answered)

-----------------------------------------------------------------------------
(***************************************************************************)
(* What must hold of it.                                                   *)
(***************************************************************************)

FileTypes ==
    /\ queue \in [Cards -> Seq(Plays \cup {Torn})] /\ owner \in [Cards -> Accounts \cup {NoAccount}]
WorldTypes ==
    /\ card \in Cards \cup {NoCard} /\ clock \in BOOLEAN /\ faults \in 0..MaxFaults
SessionTypes ==
    /\ saved \in [user : Accounts \cup {NoAccount}, key : BOOLEAN] /\ enabled \in BOOLEAN
    /\ user \in Accounts \cup {NoAccount} /\ login_user \in Accounts \cup {NoAccount}
    /\ session_key \in BOOLEAN /\ session_expired \in BOOLEAN
    /\ login_requested \in BOOLEAN /\ logout_requested \in BOOLEAN
    /\ session_refusals \in 0..SESSION_REFUSALS_MAX
MemoryTypes ==
    /\ pending \in Seq([play : Plays, when : BOOLEAN]) /\ Len(pending) <= PENDING_MAX
    /\ file_count \in Nat
WorkerTypes ==
    /\ pc \in Places /\ card_ready \in BOOLEAN /\ active \in BOOLEAN /\ batch \in {1, BATCH_MAX}
    /\ ready \in Seq(Plays) /\ sending \in Seq(Plays \cup {Torn})
HistoryTypes ==
    /\ listener \in [Plays -> Accounts \cup {NoAccount}]
    /\ received \subseteq Accounts \X Plays /\ refused \subseteq Plays

\* Every variable keeps its type; what is counted is never less than nothing.
TypeOK == FileTypes /\ WorldTypes /\ SessionTypes /\ MemoryTypes /\ WorkerTypes /\ HistoryTypes

\* Nothing goes to Last.fm under another account than the listener's, through
\* sign-outs, sign-ins and cards that come back with an old queue.
OwnPlaysOnly == \A r \in received : listener[r[2]] = r[1]

\* The queue on the card in the slot, once it has been looked at, is that of the
\* account that plays are counted for.
CardIsChecked == card_ready /\ card /= NoCard => owner[card] \in {NoAccount, user}

\* Nobody's plays are taken for another's, in the queue or on the wire.
PlaysKeepTheirListener == OwnPlaysOnly /\ CardIsChecked

\* A play leaves the queue only when Last.fm has it, or has refused it alone, or
\* its listener has signed out: no lost answer, failed write or loss of power
\* takes one away.
OnlyFinishedLeave ==
    [][\A c \in Cards : \A p \in Lines(queue[c]) \ (Lines(queue'[c]) \cup {Torn}) :
          <<owner[c], p>> \in received \/ p \in refused \/ owner[c] /= user']_vars

\* A request to sign in always gets its answer, whatever the worker was doing.
LoginIsAnswered == logging_in ~> ~logging_in

\* A play does not stay in memory while there is a card to keep it on.
PendingIsKept ==
    pending /= <<>> ~> \/ pending = <<>> \/ \E i \in DOMAIN pending : ~pending[i].when
                       \/ ~counting \/ card = NoCard

\* What is counted as queued is sent in the end: a play that is refused does not
\* hold up those behind it, and a session that is refused is not tried for ever.
QueueIsSent ==
    enabled /\ session_key /\ file_count > 0 ~> file_count = 0 \/ ~enabled \/ ~session_key

\* Nothing that waits for the worker is slept over: not a request, not a play in
\* memory, not a play on the card.
WorkerServes == LoginIsAnswered /\ PendingIsKept /\ QueueIsSent
=============================================================================
