-------------------------- MODULE Scrobbles_proofs --------------------------
(***************************************************************************)
(* Proofs about Scrobbles: the lemmas on its sequences, its types, whose   *)
(* plays are at each place, and what may leave the queue.                  *)
(***************************************************************************)
EXTENDS Scrobbles, WellFoundedInduction, TLAPS

(***************************************************************************)
(* Numbers and sequences.                                                  *)
(***************************************************************************)

\* A set of naturals has a least one.
LEMMA Smallest == ASSUME NEW S \in SUBSET Nat, S /= {} PROVE \E n \in S : \A k \in S : n <= k
  <1> DEFINE Below == {ss \in Nat \X Nat : ss[1] < ss[2]}
  <1>1. IsWellFoundedOn(Below, Nat)
    BY NatLessThanWellFounded, Zenon DEF OpToRel
  <1>2. \A k, n \in Nat : k < n => <<k, n>> \in Below
    OBVIOUS
  <1> HIDE DEF Below
  <1>3. PICK n \in S : \A k \in S : <<k, n>> \notin Below
    BY <1>1, WFMin, Zenon
  <1>4. \A k \in S : ~(k < n)
    BY <1>2, <1>3, Zenon
  <1> QED
    BY <1>4

\* A set with zero in it, and with each number the next, has every natural in it.
LEMMA Induction == ASSUME NEW S, 0 \in S, \A n \in Nat : n \in S => n + 1 \in S PROVE Nat \subseteq S
  <1> SUFFICES ASSUME Nat \ S /= {} PROVE FALSE
    OBVIOUS
  <1>1. PICK n \in Nat \ S : \A k \in Nat \ S : n <= k
    BY Smallest
  <1>2. n - 1 \in Nat /\ n - 1 \notin S
    BY <1>1
  <1> QED
    BY <1>1, <1>2

\* The function that Chosen is the end of exists.
LEMMA ChosenIsDefined ==
  ASSUME NEW s, Len(s) \in Nat, NEW places
  PROVE  \E of : /\ of = [n \in 0..Len(s) |->
                            IF n = 0 THEN <<>>
                            ELSE IF n \in places THEN Append(of[n - 1], s[n]) ELSE of[n - 1]]
                 /\ Chosen(s, places) = of[Len(s)]
  <1> DEFINE Step(n, before) == IF n \in places THEN Append(before, s[n]) ELSE before
             Upto(m, of) == of = [n \in 0..m |-> IF n = 0 THEN <<>> ELSE Step(n, of[n - 1])]
             Good == {m \in Nat : \E of : Upto(m, of)}
             of[n \in 0..Len(s)] ==
               IF n = 0 THEN <<>> ELSE IF n \in places THEN Append(of[n - 1], s[n]) ELSE of[n - 1]
  <1>1. 0 \in Good
    <2>1. Upto(0, [n \in 0..0 |-> <<>>])
      OBVIOUS
    <2> QED
      BY <2>1
  <1>2. ASSUME NEW m \in Nat, m \in Good PROVE m + 1 \in Good
    <2>1. PICK f : Upto(m, f)
      BY <1>2
    <2> HIDE DEF Step
    <2> DEFINE g == [n \in 0..(m + 1) |-> IF n = m + 1 THEN Step(n, f[m]) ELSE f[n]]
    <2>2. \A n \in 0..m : f[n] = IF n = 0 THEN <<>> ELSE Step(n, f[n - 1])
      BY <2>1
    <2>3. \A n \in 0..(m + 1) : g[n] = IF n = 0 THEN <<>> ELSE Step(n, g[n - 1])
      BY <2>2
    <2>4. \E h : Upto(m + 1, h)
      BY <2>3
    <2> HIDE DEF Upto
    <2> QED
      BY <2>4
  <1>3. \E f : Upto(Len(s), f)
    BY <1>1, <1>2, Induction
  <1>4. Upto(Len(s), of)
    BY <1>3
  <1>5. Chosen(s, places) = of[Len(s)]
    BY DEF Chosen
  <1> HIDE DEF of
  <1> QED
    BY <1>4, <1>5

\* What is chosen of a sequence is a sequence of its elements, and no longer.
LEMMA ChosenProperties ==
  ASSUME NEW T, NEW s \in Seq(T), NEW places
  PROVE  /\ Chosen(s, places) \in Seq(T) /\ Len(Chosen(s, places)) <= Len(s)
         /\ \A k \in DOMAIN Chosen(s, places) :
              \E i \in DOMAIN s : i \in places /\ Chosen(s, places)[k] = s[i]
  <1>1. PICK of : /\ of = [n \in 0..Len(s) |->
                             IF n = 0 THEN <<>>
                             ELSE IF n \in places THEN Append(of[n - 1], s[n]) ELSE of[n - 1]]
                  /\ Chosen(s, places) = of[Len(s)]
    <2>1. Len(s) \in Nat
      OBVIOUS
    <2> QED
      BY <2>1, ChosenIsDefined
  <1>2. /\ of[0] = <<>>
        /\ \A n \in 1..Len(s) : of[n] = IF n \in places THEN Append(of[n - 1], s[n]) ELSE of[n - 1]
    <2>1. Len(s) \in Nat
      OBVIOUS
    <2>2. \A n \in 0..Len(s) : of[n] = IF n = 0 THEN <<>>
                                      ELSE IF n \in places THEN Append(of[n - 1], s[n]) ELSE of[n - 1]
      BY <1>1, Zenon
    <2> QED
      BY <2>1, <2>2
  <1> DEFINE Fine(t, n) == /\ t \in Seq(T) /\ Len(t) <= n
                           /\ \A k \in DOMAIN t : \E i \in DOMAIN s : i \in places /\ t[k] = s[i]
             Good == {n \in Nat : n <= Len(s) => Fine(of[n], n)}
  <1> HIDE DEF Fine
  <1>3. 0 \in Good
    <2>1. Fine(<<>>, 0)
      BY DEF Fine
    <2> QED
      BY <1>2, <2>1
  <1>4. ASSUME NEW n \in Nat, n \in Good PROVE n + 1 \in Good
    <2> SUFFICES ASSUME n + 1 <= Len(s) PROVE Fine(of[n + 1], n + 1)
      OBVIOUS
    <2>1. Fine(of[n], n)
      <3>1. n <= Len(s)
        OBVIOUS
      <3> QED
        BY <1>4, <3>1
    <2>2. of[n + 1] = IF n + 1 \in places THEN Append(of[n], s[n + 1]) ELSE of[n]
      BY <1>2
    <2>3. n + 1 \in DOMAIN s /\ s[n + 1] \in T
      OBVIOUS
    <2>4. CASE n + 1 \in places
      <3>1. of[n + 1] \in Seq(T) /\ Len(of[n + 1]) = Len(of[n]) + 1
        BY <2>1, <2>2, <2>3, <2>4 DEF Fine
      <3>2. \A k \in DOMAIN of[n + 1] : of[n + 1][k] = s[n + 1] \/ (k \in DOMAIN of[n] /\ of[n + 1][k] = of[n][k])
        BY <2>1, <2>2, <2>3, <2>4 DEF Fine
      <3> QED
        BY <2>1, <2>3, <2>4, <3>1, <3>2 DEF Fine
    <2>5. CASE n + 1 \notin places
      BY <2>1, <2>2, <2>5 DEF Fine
    <2> QED
      BY <2>4, <2>5
  <1> HIDE DEF Good
  <1>5. Nat \subseteq Good
    BY <1>3, <1>4, Induction
  <1>6. Fine(of[Len(s)], Len(s))
    BY <1>5 DEF Good
  <1> QED
    BY <1>1, <1>6 DEF Fine

\* The head of the queue that is sent is a head of it.
LEMMA BatchIsHead ==
  ASSUME NEW T, NEW q \in Seq(T)
  PROVE  /\ Batch(q) \in Seq(T) /\ Len(Batch(q)) <= Len(q)
         /\ \A i \in DOMAIN Batch(q) : Batch(q)[i] = q[i]
  <1> DEFINE enough == {n \in 0..Len(q) : Cardinality({i \in 1..n : q[i] /= Torn}) = batch}
             first == CHOOSE n \in enough : \A k \in enough : n <= k
  <1>1. Batch(q) = IF enough = {} THEN q ELSE SubSeq(q, 1, first)
    BY Zenon DEF Batch
  <1>2. enough \in SUBSET Nat /\ enough \subseteq 0..Len(q)
    OBVIOUS
  <1> HIDE DEF enough
  <1>3. ASSUME enough /= {} PROVE first \in 0..Len(q)
    <2>1. \E n \in enough : \A k \in enough : n <= k
      BY <1>2, <1>3, Smallest
    <2>2. first \in enough
      BY <2>1
    <2> QED
      BY <1>2, <2>2
  <1> HIDE DEF first
  <1> QED
    BY <1>1, <1>3

\* What is left of a queue without its head, and what is not.
LEMMA WithoutHead ==
  ASSUME NEW T, NEW q \in Seq(T), NEW n \in 0..Len(q)
  PROVE  /\ SubSeq(q, n + 1, Len(q)) \in Seq(T)
         /\ Lines(SubSeq(q, n + 1, Len(q))) \subseteq Lines(q)
         /\ \A x \in Lines(q) : x \in Lines(SubSeq(q, n + 1, Len(q))) \/ \E i \in 1..n : x = q[i]
  <1> DEFINE rest == SubSeq(q, n + 1, Len(q))
  <1>1. /\ rest \in Seq(T) /\ Len(rest) = Len(q) - n
        /\ \A i \in 1..Len(rest) : rest[i] = q[n + i]
    OBVIOUS
  <1> HIDE DEF rest
  <1>2. Lines(rest) \subseteq Lines(q)
    <2>1. \A i \in DOMAIN rest : n + i \in DOMAIN q /\ rest[i] = q[n + i]
      BY <1>1
    <2> QED
      BY <2>1 DEF Lines
  <1>3. ASSUME NEW i \in 1..Len(q), ~(i <= n) PROVE q[i] \in Lines(rest)
    <2>1. i - n \in DOMAIN rest /\ rest[i - n] = q[i]
      BY <1>1, <1>3
    <2> QED
      BY <2>1 DEF Lines
  <1>4. \A x \in Lines(q) : x \in Lines(rest) \/ \E i \in 1..n : x = q[i]
    BY <1>3 DEF Lines
  <1> QED
    BY <1>1, <1>2, <1>4 DEF rest

\* Lines are added behind what the queue has, but for one that is added to a torn one.
LEMMA JoinedProperties ==
  ASSUME NEW T, NEW q \in Seq(T), NEW lines \in Seq(T)
  PROVE  /\ Joined(q, lines) \in Seq(T)
         /\ Lines(q) \subseteq Lines(Joined(q, lines))
         /\ Lines(Joined(q, lines)) \subseteq Lines(q) \cup Lines(lines)
  <1>1. ASSUME NEW t \in Seq(T), Lines(t) \subseteq Lines(lines)
        PROVE  /\ q \o t \in Seq(T) /\ Lines(q) \subseteq Lines(q \o t)
               /\ Lines(q \o t) \subseteq Lines(q) \cup Lines(lines)
    <2>1. /\ q \o t \in Seq(T) /\ Len(q \o t) = Len(q) + Len(t)
          /\ \A i \in 1..Len(q) : (q \o t)[i] = q[i]
          /\ \A i \in 1..Len(q \o t) : i > Len(q) => (q \o t)[i] = t[i - Len(q)] /\ i - Len(q) \in DOMAIN t
      OBVIOUS
    <2>2. \A i \in DOMAIN (q \o t) : (q \o t)[i] \in Lines(q) \cup Lines(t)
      BY <2>1 DEF Lines
    <2>3. \A i \in DOMAIN q : q[i] \in Lines(q \o t)
      BY <2>1 DEF Lines
    <2> QED
      BY <1>1, <2>1, <2>2, <2>3 DEF Lines
  <1>2. CASE q /= <<>> /\ lines /= <<>> /\ q[Len(q)] = Torn
    <2>1. Tail(lines) \in Seq(T) /\ Lines(Tail(lines)) \subseteq Lines(lines)
      BY <1>2 DEF Lines
    <2> QED
      BY <1>1, <1>2, <2>1 DEF Joined
  <1>3. CASE ~(q /= <<>> /\ lines /= <<>> /\ q[Len(q)] = Torn)
    BY <1>1, <1>3 DEF Joined
  <1> QED
    BY <1>2, <1>3

\* Whatever a write leaves of the plays, it is of them, or torn.
LEMMA AttemptsAreOfReady ==
  ASSUME ready \in Seq(Plays), NEW written \in Attempts
  PROVE  /\ written.lines \in Seq(Plays \cup {Torn}) /\ written.ok \in BOOLEAN
         /\ Lines(written.lines) \subseteq Lines(ready) \cup {Torn}
         /\ written.ok \/ MayFail("write")
  <1>1. ASSUME written = [lines |-> ready, ok |-> TRUE]
        PROVE  written.lines \in Seq(Plays \cup {Torn}) /\ written.ok /\ written.lines = ready
    BY <1>1
  <1>2. ASSUME MayFail("write"), NEW n \in 0..Len(ready), written = [lines |-> SubSeq(ready, 1, n), ok |-> FALSE]
        PROVE  written.lines \in Seq(Plays \cup {Torn}) /\ Lines(written.lines) \subseteq Lines(ready) \cup {Torn}
    <2>1. SubSeq(ready, 1, n) \in Seq(Plays) /\ Len(SubSeq(ready, 1, n)) = n
      OBVIOUS
    <2>2. \A i \in 1..n : SubSeq(ready, 1, n)[i] = ready[i]
      OBVIOUS
    <2>3. Lines(SubSeq(ready, 1, n)) \subseteq Lines(ready)
      BY <2>1, <2>2 DEF Lines
    <2> QED
      BY <1>2, <2>1, <2>3
  <1>3. ASSUME MayFail("write"), NEW n \in 1..Len(ready),
               written = [lines |-> Append(SubSeq(ready, 1, n - 1), Torn), ok |-> FALSE]
        PROVE  written.lines \in Seq(Plays \cup {Torn}) /\ Lines(written.lines) \subseteq Lines(ready) \cup {Torn}
    <2> DEFINE head == SubSeq(ready, 1, n - 1)
    <2>1. head \in Seq(Plays) /\ Len(head) = n - 1
      OBVIOUS
    <2>2. \A i \in 1..(n - 1) : head[i] = ready[i]
      OBVIOUS
    <2> HIDE DEF head
    <2>3. head \in Seq(Plays \cup {Torn}) /\ Lines(head) \subseteq Lines(ready)
      BY <2>1, <2>2 DEF Lines
    <2>4. Append(head, Torn) \in Seq(Plays \cup {Torn})
      BY <2>3
    <2>5. Lines(Append(head, Torn)) \subseteq Lines(head) \cup {Torn}
      BY <2>3 DEF Lines
    <2> QED
      BY <1>3, <2>3, <2>4, <2>5 DEF head
  <1>4. CASE written = [lines |-> ready, ok |-> TRUE]
    BY <1>1, <1>4
  <1>5. CASE written /= [lines |-> ready, ok |-> TRUE]
    <2>1. MayFail("write")
      BY <1>5 DEF Attempts
    <2>2. \/ \E n \in 0..Len(ready) : written = [lines |-> SubSeq(ready, 1, n), ok |-> FALSE]
          \/ \E n \in 1..Len(ready) :
                written = [lines |-> Append(SubSeq(ready, 1, n - 1), Torn), ok |-> FALSE]
      BY <1>5, <2>1, Zenon DEF Attempts
    <2>3. written.ok = FALSE
      BY <2>2
    <2> QED
      BY <1>2, <1>3, <2>1, <2>2, <2>3
  <1> QED
    BY <1>4, <1>5
-----------------------------------------------------------------------------
(***************************************************************************)
(* The types, and what they need: who is signed in while anything is kept  *)
(* for him, and what is empty where.                                       *)
(***************************************************************************)

\* The worker is about the card or the wire.
AtCard == pc \in {"append", "keep", "wire", "drop"}

SessionShape ==
    /\ saved.user = user
    /\ session_key \/ session_expired \/ saved.key => user /= NoAccount
    /\ card_ready \/ file_count > 0 \/ pending /= <<>> \/ AtCard => user /= NoAccount
    /\ login_requested \/ pc = "login" => logging_in
    /\ pc = "login" => ~login_requested

PlaceShape ==
    /\ ready /= <<>> => pc \in {"append", "keep"}
    /\ sending /= <<>> => pc \in {"wire", "drop"}

TypeInv == TypeOK /\ SessionShape /\ PlaceShape

LEMMA Limits ==
  /\ QUEUE_MAX \in Nat \ {0} /\ PENDING_MAX \in Nat \ {0} /\ BATCH_MAX \in Nat \ {0}
  /\ SESSION_REFUSALS_MAX \in Nat \ {0} /\ MaxFaults \in Nat
  /\ 0 \in 0..SESSION_REFUSALS_MAX
  BY LimitsAssumption

LEMMA InitIsTyped == Init => TypeInv
  <1> SUFFICES ASSUME Init PROVE TypeInv
    OBVIOUS
  <1>1. FileTypes /\ WorldTypes
    BY Limits DEF Init, FileTypes, WorldTypes
  <1>2. SessionTypes
    BY Limits DEF Init, SessionTypes
  <1>3. MemoryTypes /\ HistoryTypes
    BY Limits DEF Init, MemoryTypes, HistoryTypes
  <1>4. WorkerTypes
    <2>1. pc \in Places /\ batch \in {1, BATCH_MAX}
      BY DEF Init, Places
    <2>2. ready \in Seq(Plays) /\ sending \in Seq(Plays \cup {Torn})
      BY DEF Init
    <2> QED
      BY <2>1, <2>2 DEF Init, WorkerTypes
  <1>5. SessionShape /\ PlaceShape
    BY DEF Init, SessionShape, PlaceShape, AtCard
  <1> QED
    BY <1>1, <1>2, <1>3, <1>4, <1>5 DEF TypeInv, TypeOK

LEMMA QualifyIsTyped == ASSUME TypeInv, NEW p \in Plays, qualify(p) PROVE TypeInv'
  <1> USE DEF TypeInv, TypeOK, files, world, session, requests, Signal, Asleep
  <1>1. counting /\ user /= NoAccount /\ listener' = [listener EXCEPT ![p] = user]
    BY DEF qualify, counting
  <1>2. pending' \in Seq([play : Plays, when : BOOLEAN]) /\ Len(pending') <= PENDING_MAX
    <2>1. CASE Len(pending) < PENDING_MAX
      <3>1. PICK known \in BOOLEAN : pending' = Append(pending, [play |-> p, when |-> known])
        BY <2>1 DEF qualify
      <3>2. [play |-> p, when |-> known] \in [play : Plays, when : BOOLEAN]
        OBVIOUS
      <3> QED
        BY <2>1, <3>1, <3>2, Limits DEF MemoryTypes
    <2>2. CASE ~(Len(pending) < PENDING_MAX)
      BY <2>2 DEF qualify, MemoryTypes
    <2> QED
      BY <2>1, <2>2
  <1>3. pc' \in {pc, "top"} /\ (pc' /= pc => pc \in {"asleep", "waiting"})
    BY DEF qualify
  <1>4. FileTypes' /\ WorldTypes' /\ SessionTypes'
    BY DEF qualify, FileTypes, WorldTypes, SessionTypes
  <1>5. MemoryTypes' /\ WorkerTypes'
    BY <1>2, <1>3 DEF qualify, MemoryTypes, WorkerTypes, Places
  <1>6. HistoryTypes'
    BY <1>1 DEF qualify, HistoryTypes, SessionTypes
  <1>7. SessionShape' /\ PlaceShape'
    BY <1>1, <1>3 DEF qualify, SessionShape, PlaceShape, AtCard, logging_in
  <1> QED
    BY <1>4, <1>5, <1>6, <1>7

LEMMA GuiIsTyped == ASSUME TypeInv, Gui PROVE TypeInv'
  <1> USE DEF TypeInv, TypeOK, SessionShape, PlaceShape, AtCard, Places, files, world, session, requests, history,
              logging_in, Signal, Asleep, FileTypes, WorldTypes, SessionTypes, MemoryTypes, WorkerTypes, HistoryTypes
  <1>1. ASSUME NEW a \in Accounts, lastfm_login(a) PROVE TypeInv'
    BY <1>1, AccountsAssumption DEF lastfm_login
  <1>2. CASE lastfm_logout
    <2>1. FileTypes' /\ WorldTypes' /\ MemoryTypes' /\ HistoryTypes'
      BY <1>2 DEF lastfm_logout
    <2>2. SessionTypes'
      BY <1>2 DEF lastfm_logout
    <2>3. WorkerTypes'
      BY <1>2 DEF lastfm_logout
    <2>4. SessionShape' /\ PlaceShape'
      BY <1>2 DEF lastfm_logout
    <2> QED
      BY <2>1, <2>2, <2>3, <2>4
  <1>3. CASE lastfm_set_enabled
    BY <1>3 DEF lastfm_set_enabled
  <1> QED
    BY <1>1, <1>2, <1>3, QualifyIsTyped DEF Gui

LEMMA WithoutFileIsTyped == ASSUME FileTypes, NEW c \in Cards, WithoutFile(c) PROVE FileTypes'
  BY DEF FileTypes, WithoutFile

LEMMA RequestsAreTyped == ASSUME TypeInv, TakeRequests PROVE TypeInv'
  <1> USE DEF TypeInv, TypeOK, world, session, requests, history, Goto
  <1>1. pc = "top" /\ pc' = IF login_requested THEN "login" ELSE "card"
    BY DEF TakeRequests
  <1>2. ready = <<>> /\ sending = <<>>
    BY <1>1 DEF PlaceShape
  <1>3. WorldTypes' /\ HistoryTypes'
    BY DEF TakeRequests, WorldTypes, HistoryTypes
  <1>4. WorkerTypes'
    BY <1>1 DEF TakeRequests, do_logout, WorkerTypes, Places
  <1>5. CASE logout_requested
    <2>1. do_logout
      BY <1>5 DEF TakeRequests
    <2>2. FileTypes'
      BY <2>1, WithoutFileIsTyped DEF do_logout, files, FileTypes, WorldTypes
    <2>3. SessionTypes'
      BY <2>1 DEF TakeRequests, do_logout, SessionTypes
    <2>4. MemoryTypes'
      BY <2>1, Limits DEF do_logout, pending_forgotten, MemoryTypes
    <2>5. SessionShape' /\ PlaceShape'
      BY <1>1, <1>2, <2>1 DEF TakeRequests, do_logout, pending_forgotten, SessionShape, PlaceShape, AtCard, logging_in
    <2> QED
      BY <1>3, <1>4, <2>2, <2>3, <2>4, <2>5
  <1>6. CASE ~logout_requested
    <2>1. FileTypes' /\ SessionTypes' /\ MemoryTypes'
      BY <1>6 DEF TakeRequests, files, FileTypes, SessionTypes, MemoryTypes
    <2>2. SessionShape' /\ PlaceShape'
      BY <1>1, <1>2, <1>6 DEF TakeRequests, SessionShape, PlaceShape, AtCard, logging_in
    <2> QED
      BY <1>3, <1>4, <2>1, <2>2
  <1> QED
    BY <1>5, <1>6

LEMMA LoginIsTyped == ASSUME TypeInv, do_login PROVE TypeInv'
  <1> USE DEF TypeInv, TypeOK, files, world, session, history, Goto
  <1>1. FileTypes' /\ WorldTypes' /\ HistoryTypes' /\ MemoryTypes'
    BY DEF do_login, FileTypes, WorldTypes, HistoryTypes, MemoryTypes
  <1>2. \/ /\ user' = login_user /\ session_key' = TRUE /\ session_expired' = FALSE
           /\ session_refusals' = 0 /\ saved' = [user |-> login_user, key |-> TRUE]
        \/ session' = session /\ saved' = saved
    BY DEF do_login
  <1>3. login_user' = NoAccount /\ login_requested' = login_requested /\ logout_requested' = logout_requested
    BY DEF do_login
  <1>4. SessionTypes'
    <2>0. [user |-> login_user, key |-> TRUE] \in [user : Accounts \cup {NoAccount}, key : BOOLEAN]
      BY DEF SessionTypes
    <2>1. user' \in Accounts \cup {NoAccount} /\ saved' \in [user : Accounts \cup {NoAccount}, key : BOOLEAN]
      BY <1>2, <2>0 DEF SessionTypes
    <2>2. session_key' \in BOOLEAN /\ session_expired' \in BOOLEAN /\ session_refusals' \in 0..SESSION_REFUSALS_MAX
      BY <1>2, Limits DEF SessionTypes
    <2> QED
      BY <1>3, <2>1, <2>2 DEF do_login, SessionTypes
  <1>5. WorkerTypes'
    BY DEF do_login, WorkerTypes, Places
  <1>6. login_user /= NoAccount /\ ready = <<>> /\ sending = <<>>
    BY DEF do_login, SessionShape, PlaceShape, logging_in
  <1>7. pc' = "card" /\ card_ready' = FALSE /\ file_count' = file_count /\ pending' = pending
    BY DEF do_login
  <1>8. PlaceShape'
    BY <1>6 DEF do_login, PlaceShape
  <1>9. SessionShape'
    <2>1. saved'.user = user'
      BY <1>2 DEF SessionShape
    <2>2. session_key' \/ session_expired' \/ saved'.key => user' /= NoAccount
      BY <1>2, <1>6 DEF SessionShape
    <2>3. file_count' > 0 \/ pending' /= <<>> => user' /= NoAccount
      BY <1>2, <1>6, <1>7 DEF SessionShape
    <2>4. ~login_requested
      BY DEF do_login, SessionShape
    <2> QED
      BY <1>3, <1>7, <2>1, <2>2, <2>3, <2>4 DEF SessionShape, AtCard
  <1> QED
    BY <1>1, <1>4, <1>5, <1>8, <1>9

\* What the look at the card does, in each case.
LEMMA LookDoes ==
  ASSUME LookAtCard
  PROVE  \/ counting /\ card /= NoCard /\ ~card_ready /\ queue_attach
         \/ /\ counting /\ card = NoCard /\ card_ready' = FALSE /\ files' = files
            /\ file_count' = IF card_ready THEN 0 ELSE file_count
         \/ /\ ~counting \/ (card /= NoCard /\ card_ready)
            /\ files' = files /\ card_ready' = card_ready /\ file_count' = file_count
  BY Zenon DEF LookAtCard

\* The look at the card leaves its files typed, and readiness to those signed in.
LEMMA LookIsTyped ==
  ASSUME TypeInv, LookAtCard
  PROVE  /\ FileTypes' /\ file_count' \in Nat /\ card_ready' \in BOOLEAN
         /\ card_ready' \/ file_count' > 0 => user /= NoAccount
  <1> USE DEF TypeInv, TypeOK, files, MemoryTypes, WorkerTypes
  <1>1. CASE counting /\ card /= NoCard /\ ~card_ready /\ queue_attach
    <2>1. card \in Cards
      BY <1>1 DEF WorldTypes
    <2>2. FileTypes'
      BY <1>1, <2>1, WithoutFileIsTyped DEF queue_attach, FileTypes
    <2>3. queue[card] \in Seq(Plays \cup {Torn})
      BY <2>1 DEF FileTypes
    <2>4. file_count' \in Nat /\ card_ready' \in BOOLEAN
      BY <1>1, <2>3 DEF queue_attach
    <2> QED
      BY <1>1, <2>2, <2>4 DEF counting
  <1>2. CASE /\ counting /\ card = NoCard /\ card_ready' = FALSE /\ files' = files
             /\ file_count' = IF card_ready THEN 0 ELSE file_count
    BY <1>2 DEF counting, FileTypes
  <1>3. CASE files' = files /\ card_ready' = card_ready /\ file_count' = file_count
    BY <1>3 DEF FileTypes, SessionShape
  <1> QED
    BY <1>1, <1>2, <1>3, LookDoes

\* What is known of the plays in memory, and what is taken of them.
Known == [i \in DOMAIN pending |-> [pending[i] EXCEPT !.when = @ \/ clock]]

LEMMA KnownIsTyped ==
  ASSUME MemoryTypes, WorldTypes
  PROVE  /\ Known \in Seq([play : Plays, when : BOOLEAN]) /\ Len(Known) = Len(pending)
         /\ \A i \in DOMAIN Known : Known[i].play = pending[i].play
  <1> DEFINE T == [play : Plays, when : BOOLEAN]
  <1>1. pending \in Seq(T)
    BY DEF MemoryTypes
  <1> HIDE DEF T
  <1>2. DOMAIN pending = 1..Len(pending) /\ Len(pending) \in Nat /\ \A i \in 1..Len(pending) : pending[i] \in T
    BY <1>1
  <1>3. \A i \in 1..Len(pending) :
          /\ [pending[i] EXCEPT !.when = @ \/ clock] \in T
          /\ [pending[i] EXCEPT !.when = @ \/ clock].play = pending[i].play
    BY <1>2 DEF WorldTypes, T
  <1>4. Known \in [1..Len(pending) -> T]
    BY <1>2, <1>3 DEF Known
  <1>5. Known \in Seq(T) /\ Len(Known) = Len(pending)
    BY <1>2, <1>4
  <1>6. \A i \in DOMAIN Known : Known[i].play = pending[i].play
    BY <1>2, <1>3, <1>4 DEF Known
  <1> QED
    BY <1>5, <1>6 DEF T

LEMMA LeastProperties == \A a, b \in Nat : Least(a, b) \in Nat /\ Least(a, b) <= a
  BY DEF Least

LEMMA RoomIsNatural == \A n \in Nat : (IF QUEUE_MAX > n THEN QUEUE_MAX - n ELSE 0) \in Nat
  BY Limits

LEMMA ElementIsTyped == ASSUME NEW T, NEW s \in Seq(T), NEW i \in DOMAIN s PROVE s[i] \in T
  OBVIOUS

LEMMA NothingIsSeq == \A T : <<>> \in Seq(T)
  OBVIOUS

\* What is taken of them is plays, no more than there are; and what the step does.
Taken(all, kept) == [i \in 1..kept |-> all[i].play]

LEMMA LookTakes ==
  ASSUME TypeInv, LookAndTake
  PROVE  /\ pc = "card" /\ LookAtCard /\ active' \in BOOLEAN
         /\ pending' = IF counting THEN Known ELSE pending
         /\ \/ ready' = ready /\ pc' = IF counting THEN "send" ELSE "rest"
            \/ /\ counting /\ card_ready' /\ pending /= <<>>
               /\ \E n \in Nat : /\ ready' \in [1..n -> Plays]
                                 /\ \A k \in 1..n : \E i \in DOMAIN pending : ready'[k] = pending[i].play
               /\ pc' \in {"append", "keep"}
  <1> DEFINE all == Chosen(Known, Timed(Known))
             room == IF QUEUE_MAX > file_count' THEN QUEUE_MAX - file_count' ELSE 0
             kept == Least(Len(all), room)
  <1>1. /\ pc = "card" /\ LookAtCard /\ active' = (enabled /\ session_key)
        /\ pending' = IF counting THEN Known ELSE pending
        /\ IF counting /\ card_ready' /\ all /= <<>>
           THEN ready' = Taken(all, kept) /\ Goto(IF kept = 0 THEN "keep" ELSE "append")
           ELSE UNCHANGED ready /\ Goto(IF counting THEN "send" ELSE "rest")
    BY Zenon DEF LookAndTake, Known, Taken
  <1> HIDE DEF kept, room
  <1>2. CASE ~(counting /\ card_ready' /\ all /= <<>>)
    BY <1>1, <1>2 DEF Goto
  <1>3. CASE counting /\ card_ready' /\ all /= <<>>
    <2>1. /\ all \in Seq([play : Plays, when : BOOLEAN])
          /\ \A k \in DOMAIN all : \E i \in DOMAIN Known : all[k] = Known[i]
      BY KnownIsTyped, ChosenProperties DEF TypeInv, TypeOK
    <2> HIDE DEF all
    <2>2. DOMAIN Known = DOMAIN pending /\ \A i \in DOMAIN Known : Known[i].play = pending[i].play
      BY KnownIsTyped, Zenon DEF TypeInv, TypeOK, Known
    <2>3. pending /= <<>>
      <3>1. 1 \in DOMAIN all
        BY <1>3, <2>1
      <3> QED
        BY <2>1, <2>2, <3>1
    <2>4. \A k \in DOMAIN all : all[k] \in [play : Plays, when : BOOLEAN]
      BY <2>1, ElementIsTyped
    <2>5. \A k \in DOMAIN all : all[k].play \in Plays
      BY <2>4
    <2>6. \A k \in DOMAIN all : \E i \in DOMAIN pending : all[k].play = pending[i].play
      BY <2>1, <2>2, Zenon
    <2>7. kept \in Nat /\ kept <= Len(all)
      <3>1. Len(all) \in Nat /\ file_count' \in Nat
        BY <1>1, <2>1, LookIsTyped
      <3>2. room \in Nat
        BY <3>1, RoomIsNatural DEF room
      <3> QED
        BY <3>1, <3>2, LeastProperties DEF kept
    <2>8. \A k \in 1..kept : k \in DOMAIN all
      BY <2>1, <2>7
    <2>9. ready' = [k \in 1..kept |-> all[k].play]
      BY <1>1, <1>3, Zenon DEF Taken
    <2>10. pc' \in {"append", "keep"}
      BY <1>1, <1>3 DEF Goto
    <2>11. /\ ready' \in [1..kept -> Plays]
           /\ \A k \in 1..kept : \E i \in DOMAIN pending : ready'[k] = pending[i].play
      BY <2>5, <2>6, <2>8, <2>9
    <2> QED
      BY <1>1, <1>3, <2>3, <2>7, <2>10, <2>11
  <1> QED
    BY <1>2, <1>3

LEMMA TakingIsTyped == ASSUME TypeInv, LookAndTake PROVE TypeInv'
  <1> USE DEF TypeInv, TypeOK
  <1>1. /\ UNCHANGED <<saved, enabled, world, faults, session, requests, batch, sending, history>>
        /\ pc' \in {"append", "keep", "send", "rest"} /\ active' \in BOOLEAN /\ pc = "card"
    BY LookTakes DEF LookAndTake
  <1>2. FileTypes' /\ file_count' \in Nat /\ card_ready' \in BOOLEAN /\ (card_ready' \/ file_count' > 0 => user /= NoAccount)
    BY LookTakes, LookIsTyped
  <1>3. WorldTypes' /\ SessionTypes' /\ HistoryTypes'
    BY <1>1 DEF world, session, requests, history, WorldTypes, SessionTypes, HistoryTypes
  <1>4. MemoryTypes'
    BY <1>2, LookTakes, KnownIsTyped DEF MemoryTypes
  <1>5. ready' \in Seq(Plays) /\ (ready' /= <<>> => pc' \in {"append", "keep"})
    <2>1. ready \in Seq(Plays) /\ ready = <<>>
      BY <1>1 DEF WorkerTypes, PlaceShape
    <2>2. CASE ready' = ready
      BY <2>1, <2>2
    <2>3. ASSUME NEW n \in Nat, ready' \in [1..n -> Plays] PROVE ready' \in Seq(Plays)
      BY <2>3
    <2> QED
      BY <2>1, <2>2, <2>3, LookTakes
  <1>6. WorkerTypes'
    BY <1>1, <1>2, <1>5 DEF WorkerTypes, Places
  <1>7. PlaceShape'
    BY <1>1, <1>5 DEF PlaceShape
  <1>8. pending' /= <<>> => user /= NoAccount
    BY LookTakes DEF counting, SessionShape
  <1>9. AtCard' => user /= NoAccount
    BY LookTakes DEF counting, AtCard
  <1>10. SessionShape'
    BY <1>1, <1>2, <1>8, <1>9 DEF SessionShape, session, requests, logging_in
  <1> QED
    BY <1>2, <1>3, <1>4, <1>6, <1>7, <1>10

LEMMA AppendIsTyped == ASSUME TypeInv, queue_append PROVE TypeInv'
  <1> USE DEF TypeInv, TypeOK
  <1>1. /\ UNCHANGED <<saved, enabled, world, session, requests, pending, file_count, card_ready,
                       active, batch, sending, history>>
        /\ pc = "append" /\ pc' \in {"keep", "send"} /\ ready' \in {ready, <<>>} /\ (pc' = "send" => ready' = <<>>)
    BY DEF queue_append, Goto
  <1>2. FileTypes' /\ faults' \in 0..MaxFaults
    <2>1. CASE UNCHANGED <<files, faults>>
      BY <2>1 DEF files, FileTypes, WorldTypes
    <2>2. ASSUME card /= NoCard, NEW written \in Attempts,
                 queue' = [queue EXCEPT ![card] = Joined(@, written.lines)],
                 owner' = [owner EXCEPT ![card] = IF @ = NoAccount THEN user ELSE @],
                 Fails(~written.ok)
          PROVE  FileTypes' /\ faults' \in 0..MaxFaults
      <3>1. card \in Cards /\ queue[card] \in Seq(Plays \cup {Torn})
        BY <2>2 DEF WorldTypes, FileTypes
      <3>2. Joined(queue[card], written.lines) \in Seq(Plays \cup {Torn})
        BY <3>1, AttemptsAreOfReady, JoinedProperties DEF WorkerTypes
      <3>3. FileTypes'
        BY <2>2, <3>1, <3>2 DEF FileTypes, SessionTypes
      <3>4. written.ok \/ faults < MaxFaults
        BY AttemptsAreOfReady DEF WorkerTypes, MayFail
      <3>5. faults' \in 0..MaxFaults
        BY <2>2, <3>4, Limits DEF Fails, WorldTypes
      <3> QED
        BY <3>3, <3>5
    <2> QED
      BY <2>1, <2>2 DEF queue_append
  <1>3. WorldTypes' /\ SessionTypes' /\ HistoryTypes' /\ MemoryTypes'
    BY <1>1, <1>2 DEF world, session, requests, history, WorldTypes, SessionTypes, HistoryTypes, MemoryTypes
  <1>4. WorkerTypes'
    <2>1. ready' \in Seq(Plays)
      BY <1>1, NothingIsSeq, Zenon DEF WorkerTypes
    <2> QED
      BY <1>1, <2>1 DEF WorkerTypes, Places
  <1>5. SessionShape' /\ PlaceShape'
    BY <1>1 DEF SessionShape, PlaceShape, session, requests, logging_in, AtCard
  <1> QED
    BY <1>2, <1>3, <1>4, <1>5

LEMMA KeepingIsTyped == ASSUME TypeInv, KeepRest PROVE TypeInv'
  <1> USE DEF TypeInv, TypeOK
  <1>1. FileTypes' /\ WorldTypes' /\ SessionTypes' /\ HistoryTypes'
    BY DEF KeepRest, files, world, session, requests, history, FileTypes, WorldTypes, SessionTypes, HistoryTypes
  <1>2. MemoryTypes'
    <2>1. file_count' \in Nat
      BY DEF KeepRest, MemoryTypes, WorkerTypes
    <2>2. pending \in Seq([play : Plays, when : BOOLEAN]) /\ Len(pending) \in Nat /\ Len(pending) <= PENDING_MAX
      BY DEF MemoryTypes
    <2>3. /\ Chosen(pending, DOMAIN pending \ Timed(pending)) \in Seq([play : Plays, when : BOOLEAN])
          /\ Len(Chosen(pending, DOMAIN pending \ Timed(pending))) <= Len(pending)
      BY <2>2, ChosenProperties
    <2>4. pending' \in Seq([play : Plays, when : BOOLEAN]) /\ Len(pending') <= Len(pending)
      BY <2>3, Zenon DEF KeepRest
    <2> QED
      BY <2>1, <2>2, <2>4, Limits DEF MemoryTypes
  <1>3. WorkerTypes'
    BY DEF KeepRest, Goto, WorkerTypes, Places
  <1>4. SessionShape' /\ PlaceShape'
    BY DEF KeepRest, Goto, SessionShape, PlaceShape, session, requests, logging_in, AtCard
  <1> QED
    BY <1>1, <1>2, <1>3, <1>4

LEMMA SendIsTyped == ASSUME TypeInv, StartSend PROVE TypeInv'
  <1> USE DEF TypeInv, TypeOK
  <1>1. sending' \in Seq(Plays \cup {Torn})
    <2>1. CASE card = NoCard
      BY <2>1, NothingIsSeq DEF StartSend, HeadOfQueue
    <2>2. CASE card /= NoCard
      <3>1. queue[card] \in Seq(Plays \cup {Torn})
        BY <2>2 DEF WorldTypes, FileTypes
      <3> QED
        BY <2>2, <3>1, BatchIsHead DEF StartSend, HeadOfQueue
    <2> QED
      BY <2>1, <2>2
  <1>2. /\ UNCHANGED <<files, saved, enabled, world, faults, session, requests, pending, file_count,
                       card_ready, active, batch, ready, history>>
        /\ pc = "send" /\ pc' = "wire" /\ file_count > 0
    BY DEF StartSend, Goto
  <1>3. FileTypes' /\ WorldTypes' /\ SessionTypes' /\ HistoryTypes' /\ MemoryTypes'
    BY <1>2 DEF files, world, session, requests, history, FileTypes, WorldTypes, SessionTypes, HistoryTypes, MemoryTypes
  <1>4. WorkerTypes'
    BY <1>1, <1>2 DEF WorkerTypes, Places
  <1>5. SessionShape' /\ PlaceShape'
    BY <1>2 DEF SessionShape, PlaceShape, session, requests, logging_in, AtCard
  <1> QED
    BY <1>3, <1>4, <1>5

\* What an answer does to the count, to the lines that were sent and to the place.
LEMMA CountIsTyped ==
  ASSUME TypeInv, NEW dropped \in BOOLEAN, Counted(dropped)
  PROVE  /\ file_count' \in Nat /\ (file_count' > 0 => file_count > 0)
         /\ \/ pc' = "drop" /\ sending' = sending /\ dropped /\ sending /= <<>>
            \/ pc' = "rest" /\ sending' = <<>>
  <1>1. Len(sending) \in Nat /\ file_count \in Nat
    BY DEF TypeInv, TypeOK, WorkerTypes, MemoryTypes
  <1>2. count_without(Len(sending)) \in Nat /\ (count_without(Len(sending)) > 0 => file_count > 0)
    BY <1>1 DEF count_without
  <1>3. \/ file_count' = 0
        \/ file_count' = count_without(Len(sending))
        \/ file_count' = file_count
    BY DEF Counted
  <1>4. \/ pc' = "drop" /\ sending' = sending /\ dropped /\ sending /= <<>>
        \/ pc' = "rest" /\ sending' = <<>>
    BY DEF Counted, Goto
  <1> QED
    BY <1>1, <1>2, <1>3, <1>4

\* What holds of every answer: it changes the session, and what Last.fm has.
AnswerShape ==
    /\ Untouched /\ user' = user /\ saved'.user = user /\ pc = "wire"
    /\ \E dropped \in BOOLEAN : Counted(dropped)
    /\ batch' \in {1, BATCH_MAX}
    /\ session_key' \in BOOLEAN /\ session_expired' \in BOOLEAN /\ session_refusals' \in 0..SESSION_REFUSALS_MAX
    /\ saved' \in [user : Accounts \cup {NoAccount}, key : BOOLEAN]
    /\ received' \in {received, Delivered}
    /\ refused' \in {refused, refused \cup Sent}

LEMMA AnswersAreShaped == ASSUME TypeInv, Answer PROVE AnswerShape
  <1> USE DEF TypeInv, TypeOK, SessionShape
  <1>0. ASSUME NEW b \in {1, BATCH_MAX}, BatchAgain(b) PROVE batch' \in {1, BATCH_MAX}
    BY <1>0 DEF BatchAgain
  <1>1. CASE AnswerOk
    BY <1>1, <1>0, Limits DEF AnswerOk, AnswerShape, SessionTypes, WorkerTypes
  <1>2. CASE AnswerBad
    <2>1. drop_alone \in BOOLEAN /\ (IF batch > 1 THEN one_at_a_time ELSE batch) \in {1, BATCH_MAX}
      BY DEF drop_alone, one_at_a_time, WorkerTypes
    <2> QED
      BY <1>2, <1>0, <2>1 DEF AnswerBad, AnswerShape, SessionTypes, session
  <1>3. CASE AnswerLater
    BY <1>3, <1>0 DEF AnswerLater, AnswerShape, SessionTypes, WorkerTypes, session
  <1>4. CASE AnswerSession
    <2>1. Counted(FALSE) /\ batch' \in {1, BATCH_MAX} /\ Untouched /\ UNCHANGED <<user, received, refused>> /\ pc = "wire"
      BY <1>4, <1>0 DEF AnswerSession, WorkerTypes
    <2>2. CASE session_refusals + 1 >= SESSION_REFUSALS_MAX
      <3>1. [user |-> user, key |-> FALSE] \in [user : Accounts \cup {NoAccount}, key : BOOLEAN]
        BY DEF SessionTypes
      <3>2. saved' = [user |-> user, key |-> FALSE] /\ session_key' = FALSE /\ session_expired' = TRUE /\ session_refusals' = 0
        BY <1>4, <2>2 DEF AnswerSession
      <3> QED
        BY <2>1, <3>1, <3>2, Limits DEF AnswerShape
    <2>3. CASE ~(session_refusals + 1 >= SESSION_REFUSALS_MAX)
      <3>1. session_refusals' = session_refusals + 1 /\ UNCHANGED <<session_key, session_expired, saved>>
        BY <1>4, <2>3 DEF AnswerSession
      <3>2. session_refusals' \in 0..SESSION_REFUSALS_MAX
        BY <2>3, <3>1, Limits DEF SessionTypes
      <3> QED
        BY <2>1, <3>1, <3>2 DEF AnswerShape, SessionTypes
    <2> QED
      BY <2>2, <2>3
  <1> QED
    BY <1>1, <1>2, <1>3, <1>4 DEF Answer, Answered

LEMMA SentArePlays ==
  ASSUME TypeInv, pc = "wire"
  PROVE  Sent \subseteq Plays /\ user \in Accounts /\ Delivered \subseteq Accounts \X Plays
  <1>1. Sent \subseteq Plays
    <2>1. \A i \in DOMAIN sending : sending[i] \in Plays \cup {Torn}
      BY ElementIsTyped DEF TypeInv, TypeOK, WorkerTypes
    <2> QED
      BY <2>1 DEF Sent, Lines
  <1>2. user \in Accounts
    BY DEF TypeInv, TypeOK, SessionShape, SessionTypes, AtCard
  <1> QED
    BY <1>1, <1>2 DEF Delivered, TypeInv, TypeOK, HistoryTypes

LEMMA AnswersAreTyped == ASSUME TypeInv, Answer PROVE TypeInv'
  <1> USE DEF TypeInv, TypeOK
  <1>1. AnswerShape
    BY AnswersAreShaped
  <1>2. FileTypes' /\ WorldTypes'
    BY <1>1 DEF AnswerShape, Untouched, files, world, FileTypes, WorldTypes
  <1>3. SessionTypes'
    BY <1>1 DEF AnswerShape, Untouched, requests, SessionTypes
  <1>4. HistoryTypes'
    BY <1>1, SentArePlays DEF AnswerShape, Untouched, HistoryTypes
  <1>5. /\ file_count' \in Nat /\ (file_count' > 0 => file_count > 0)
        /\ pc' \in {"drop", "rest"} /\ sending' \in {sending, <<>>} /\ (pc' = "rest" => sending' = <<>>)
    BY <1>1, CountIsTyped DEF AnswerShape
  <1>6. MemoryTypes'
    BY <1>1, <1>5 DEF AnswerShape, Untouched, MemoryTypes
  <1>7. WorkerTypes'
    <2>1. sending' \in Seq(Plays \cup {Torn})
      BY <1>5, NothingIsSeq, Zenon DEF WorkerTypes
    <2> QED
      BY <1>1, <1>5, <2>1 DEF AnswerShape, Untouched, WorkerTypes, Places
  <1>8. user /= NoAccount /\ pc = "wire" /\ ready = <<>>
    BY <1>1 DEF AnswerShape, SessionShape, PlaceShape, AtCard
  <1>9. SessionShape' /\ PlaceShape'
    BY <1>1, <1>5, <1>8 DEF AnswerShape, Untouched, requests, SessionShape, PlaceShape, AtCard, logging_in
  <1> QED
    BY <1>2, <1>3, <1>4, <1>6, <1>7, <1>9

LEMMA DropIsTyped == ASSUME TypeInv, queue_drop_head PROVE TypeInv'
  <1> USE DEF TypeInv, TypeOK
  <1>1. /\ UNCHANGED <<saved, enabled, world, session, requests, pending, file_count, card_ready,
                       active, batch, ready, history>>
        /\ sending' = <<>> /\ pc = "drop" /\ pc' = "rest"
    BY DEF queue_drop_head, Goto
  <1>2. FileTypes' /\ faults' \in 0..MaxFaults
    <2>1. CASE card /= NoCard /\ Drained(card, SubSeq(queue[card], Len(sending) + 1, Len(queue[card]))) /\ UNCHANGED faults
      <3>1. card \in Cards /\ queue[card] \in Seq(Plays \cup {Torn}) /\ Len(sending) \in Nat
        BY <2>1 DEF WorldTypes, FileTypes, WorkerTypes
      <3>2. SubSeq(queue[card], Len(sending) + 1, Len(queue[card])) \in Seq(Plays \cup {Torn})
        BY <3>1
      <3> QED
        BY <2>1, <3>1, <3>2 DEF Drained, FileTypes, WorldTypes
    <2>2. CASE (card = NoCard \/ MayFail("drop")) /\ Fails(card /= NoCard) /\ UNCHANGED files
      BY <2>2, Limits DEF files, FileTypes, WorldTypes, Fails, MayFail
    <2> QED
      BY <2>1, <2>2 DEF queue_drop_head
  <1>3. WorldTypes' /\ SessionTypes' /\ HistoryTypes' /\ MemoryTypes'
    BY <1>1, <1>2 DEF world, session, requests, history, WorldTypes, SessionTypes, HistoryTypes, MemoryTypes
  <1>4. WorkerTypes'
    BY <1>1, NothingIsSeq DEF WorkerTypes, Places
  <1>5. SessionShape' /\ PlaceShape'
    BY <1>1 DEF SessionShape, PlaceShape, session, requests, logging_in, AtCard
  <1> QED
    BY <1>2, <1>3, <1>4, <1>5

LEMMA RestIsTyped == ASSUME TypeInv, Rest \/ Wakes PROVE TypeInv'
  <1> USE DEF TypeInv, TypeOK
  <1>1. /\ UNCHANGED <<files, saved, enabled, world, faults, session, requests, pending, file_count,
                       card_ready, batch, ready, sending, history>>
        /\ pc \in {"send", "rest", "asleep", "waiting"} /\ pc' \in {"top", "asleep", "waiting"} /\ active' \in BOOLEAN
    BY DEF Rest, Wakes, Goto, Asleep, WorkerTypes
  <1>2. FileTypes' /\ WorldTypes' /\ SessionTypes' /\ HistoryTypes' /\ MemoryTypes'
    BY <1>1 DEF files, world, session, requests, history, FileTypes, WorldTypes, SessionTypes, HistoryTypes, MemoryTypes
  <1>3. WorkerTypes'
    BY <1>1 DEF WorkerTypes, Places
  <1>4. SessionShape' /\ PlaceShape'
    BY <1>1 DEF SessionShape, PlaceShape, session, requests, logging_in, AtCard
  <1> QED
    BY <1>2, <1>3, <1>4

\* The card, the clock, or nothing at all.
LEMMA WorldIsTyped ==
  ASSUME TypeInv, CardGoes \/ (\E c \in Cards : CardComes(c)) \/ ClockIsSet \/ UNCHANGED vars
  PROVE  TypeInv'
  <1> USE DEF TypeInv, TypeOK
  <1>1. /\ UNCHANGED <<files, saved, enabled, faults, session, requests, pending, file_count,
                       pc, card_ready, active, batch, ready, sending, history>>
        /\ card' \in Cards \cup {NoCard} /\ clock' \in BOOLEAN
    BY DEF CardGoes, CardComes, ClockIsSet, vars, world, WorldTypes
  <1>2. FileTypes' /\ WorldTypes' /\ SessionTypes' /\ HistoryTypes' /\ MemoryTypes' /\ WorkerTypes'
    BY <1>1 DEF files, session, requests, history, FileTypes, WorldTypes, SessionTypes, HistoryTypes, MemoryTypes, WorkerTypes
  <1>3. SessionShape' /\ PlaceShape'
    BY <1>1 DEF SessionShape, PlaceShape, session, requests, logging_in, AtCard
  <1> QED
    BY <1>2, <1>3

LEMMA PowerLossIsTyped == ASSUME TypeInv, PowerLoss PROVE TypeInv'
  <1> USE DEF TypeInv, TypeOK
  <1>1. FileTypes' /\ WorldTypes' /\ HistoryTypes'
    BY DEF PowerLoss, files, history, FileTypes, WorldTypes, HistoryTypes
  <1>2. SessionTypes'
    <2>1. saved.user \in Accounts \cup {NoAccount} /\ saved.key \in BOOLEAN
      BY DEF SessionTypes
    <2> QED
      BY <2>1, Limits DEF PowerLoss, SessionTypes
  <1>3. MemoryTypes'
    BY NothingIsSeq, Limits DEF PowerLoss, MemoryTypes
  <1>4. WorkerTypes'
    <2>1. ready' \in Seq(Plays) /\ sending' \in Seq(Plays \cup {Torn})
      BY NothingIsSeq DEF PowerLoss
    <2> QED
      BY <2>1 DEF PowerLoss, WorkerTypes, Places
  <1>5. PlaceShape'
    BY DEF PowerLoss, PlaceShape
  <1>6. SessionShape'
    <2>1. /\ saved' = saved /\ user' = saved.user /\ session_key' = saved.key
          /\ session_expired' = (saved.user /= NoAccount /\ ~saved.key)
      BY DEF PowerLoss
    <2>2. session_key' \/ session_expired' \/ saved'.key => user' /= NoAccount
      BY <2>1 DEF SessionShape
    <2>3. ~card_ready' /\ file_count' = 0 /\ pending' = <<>> /\ pc' = "top" /\ ~login_requested'
      BY DEF PowerLoss
    <2> QED
      BY <2>1, <2>2, <2>3 DEF SessionShape, AtCard
  <1> QED
    BY <1>1, <1>2, <1>3, <1>4, <1>5, <1>6

LEMMA StepIsTyped == TypeInv /\ [Next]_vars => TypeInv'
  <1> SUFFICES ASSUME TypeInv, [Next]_vars PROVE TypeInv'
    OBVIOUS
  <1>1. CASE Gui
    BY <1>1, GuiIsTyped
  <1>2. CASE worker_main
    BY <1>2, RequestsAreTyped, LoginIsTyped, TakingIsTyped, AppendIsTyped, KeepingIsTyped, SendIsTyped,
       AnswersAreTyped, DropIsTyped, RestIsTyped DEF worker_main
  <1>3. CASE Wakes
    BY <1>3, RestIsTyped
  <1>4. CASE CardGoes \/ (\E c \in Cards : CardComes(c)) \/ ClockIsSet \/ UNCHANGED vars
    BY <1>4, WorldIsTyped
  <1>5. CASE PowerLoss
    BY <1>5, PowerLossIsTyped
  <1> QED
    BY <1>1, <1>2, <1>3, <1>4, <1>5 DEF Next

\* Every variable keeps its type, whatever happens; and plays are only kept, and
\* the worker only at the card, for somebody who is signed in.
THEOREM TypeCorrect == Spec => []TypeOK
  <1>1. TypeInv => TypeOK
    BY DEF TypeInv
  <1> QED
    BY <1>1, InitIsTyped, StepIsTyped, PTL DEF Spec

-----------------------------------------------------------------------------
(***************************************************************************)
(* Whose plays are where.  It needs an account that expired to be followed *)
(* by itself, and a card that comes back to be the one that went, or to    *)
(* find that the worker knows of none: it may have slept through the       *)
(* change.                                                                 *)
(***************************************************************************)
OneCard == \A c, d \in Cards : c = d

\* The worker takes the card, whichever it is, for one that it has looked at.
Counts == card_ready \/ file_count > 0 \/ AtCard

CardsAreSeen == card' \in {card, NoCard} \/ OneCard \/ ~Counts

\* The cards that can be the one the worker looked at.
Seen == {c \in Cards : OneCard \/ c = card}

\* Who signs in is who was signed in, unless he signs out first.
LoginShape ==
    /\ user /= NoAccount => session_key \/ session_expired \/ logout_requested
    /\ \/ login_user \in {NoAccount, user} \/ user = NoAccount
       \/ logout_requested /\ pc /= "login"

MemoryIsOwn ==
    /\ \A i \in DOMAIN pending : listener[pending[i].play] = user
    /\ \A p \in (Lines(ready) \cup Lines(sending)) \ {Torn} : listener[p] = user

FilesAreOwn ==
    \A c \in Cards : \A p \in Lines(queue[c]) \ {Torn} : owner[c] /= NoAccount /\ listener[p] = owner[c]

CardIsOwn == Counts => \A c \in Seen : owner[c] \in {NoAccount, user}

\* The lines on their way are still the first of the queue.
SendingIsHead ==
    \A c \in Seen : /\ Len(sending) <= Len(queue[c])
                     /\ \A i \in DOMAIN sending : sending[i] = queue[c][i]

SentIsDone == pc = "drop" => \A p \in Sent : <<user, p>> \in received \/ p \in refused

OwnInv == /\ LoginShape /\ MemoryIsOwn /\ FilesAreOwn /\ CardIsOwn
          /\ SendingIsHead /\ SentIsDone /\ OwnPlaysOnly

LEMMA SeenIsCard == card \in Cards => Seen = {card}
  BY DEF Seen, OneCard

LEMMA SeenStays == card' \in {card, NoCard} => Seen' \subseteq Seen
  BY CardsAssumption DEF Seen, OneCard

LEMMA NothingHasNoLines == Lines(<<>>) = {}
  BY DEF Lines

LEMMA InitIsOwn == Init => OwnInv
  <1> SUFFICES ASSUME Init PROVE OwnInv
    OBVIOUS
  <1>1. LoginShape /\ CardIsOwn /\ SentIsDone /\ OwnPlaysOnly
    BY DEF Init, LoginShape, CardIsOwn, Counts, AtCard, SentIsDone, OwnPlaysOnly
  <1>2. MemoryIsOwn /\ FilesAreOwn
    BY NothingHasNoLines DEF Init, MemoryIsOwn, FilesAreOwn
  <1>3. SendingIsHead
    BY DEF Init, SendingIsHead, Seen
  <1> QED
    BY <1>1, <1>2, <1>3 DEF OwnInv

\* A step that moves no play, and does not bring the worker to the card.
LEMMA StillOwn ==
  ASSUME TypeInv, OwnInv, LoginShape',
         UNCHANGED <<files, history, user, pending, ready, sending, file_count, card_ready>>,
         pc' \in {"append", "keep", "wire", "drop"} => pc' = pc, card' \in {card, NoCard}
  PROVE  OwnInv'
  <1> USE DEF OwnInv, files, history
  <1>1. MemoryIsOwn' /\ FilesAreOwn' /\ OwnPlaysOnly'
    BY DEF MemoryIsOwn, FilesAreOwn, OwnPlaysOnly
  <1>2. CardIsOwn'
    BY SeenStays DEF CardIsOwn, Counts, AtCard
  <1>3. SendingIsHead' /\ SentIsDone'
    BY SeenStays DEF SendingIsHead, SentIsDone, Sent
  <1> QED
    BY <1>1, <1>2, <1>3

\* A play that is counted was nobody's.
LEMMA QualifyIsOwn == ASSUME TypeInv, OwnInv, NEW p \in Plays, qualify(p) PROVE OwnInv'
  <1> USE DEF OwnInv
  <1>1. /\ user /= NoAccount /\ listener[p] = NoAccount /\ listener' = [listener EXCEPT ![p] = user]
        /\ pc' \in {pc, "top"}
        /\ UNCHANGED <<files, saved, enabled, world, faults, session, requests, file_count,
                       card_ready, active, batch, ready, sending, received, refused>>
        /\ \/ pending' = pending
           \/ \E known \in BOOLEAN : pending' = Append(pending, [play |-> p, when |-> known])
    BY DEF qualify, counting, Signal
  <1>2. /\ \A x \in Plays : listener[x] /= NoAccount => listener'[x] = listener[x]
        /\ listener'[p] = user
    BY <1>1 DEF TypeInv, TypeOK, HistoryTypes
  <1>3. /\ pending \in Seq([play : Plays, when : BOOLEAN]) /\ ready \in Seq(Plays)
        /\ sending \in Seq(Plays \cup {Torn})
    BY DEF TypeInv, TypeOK, MemoryTypes, WorkerTypes
  <1>4. \A i \in DOMAIN pending' : listener'[pending'[i].play] = user
    <2>1. \A i \in DOMAIN pending : pending[i].play \in Plays /\ listener[pending[i].play] = user
      <3>1. \A i \in DOMAIN pending : pending[i] \in [play : Plays, when : BOOLEAN]
        BY <1>3, ElementIsTyped
      <3> QED
        BY <3>1 DEF MemoryIsOwn
    <2>2. CASE pending' = pending
      BY <1>1, <1>2, <2>1, <2>2
    <2>3. ASSUME NEW known \in BOOLEAN, pending' = Append(pending, [play |-> p, when |-> known])
          PROVE  \A i \in DOMAIN pending' : listener'[pending'[i].play] = user
      <3>1. \A i \in DOMAIN pending' : (i \in DOMAIN pending /\ pending'[i] = pending[i])
                                       \/ pending'[i] = [play |-> p, when |-> known]
        BY <1>3, <2>3
      <3> QED
        BY <1>1, <1>2, <2>1, <3>1
    <2> QED
      BY <1>1, <2>2, <2>3
  <1>5. \A x \in (Lines(ready) \cup Lines(sending)) \ {Torn} : x \in Plays
    <2>1. \A i \in DOMAIN ready : ready[i] \in Plays
      BY <1>3, ElementIsTyped
    <2>2. \A i \in DOMAIN sending : sending[i] \in Plays \cup {Torn}
      BY <1>3, ElementIsTyped
    <2> QED
      BY <2>1, <2>2 DEF Lines
  <1>6. MemoryIsOwn'
    BY <1>1, <1>2, <1>4, <1>5 DEF MemoryIsOwn, session
  <1>7. FilesAreOwn'
    <2>1. \A c \in Cards : \A x \in Lines(queue[c]) \ {Torn} : x \in Plays
      <3>1. \A c \in Cards : \A i \in DOMAIN queue[c] : queue[c][i] \in Plays \cup {Torn}
        BY ElementIsTyped DEF TypeInv, TypeOK, FileTypes
      <3> QED
        BY <3>1 DEF Lines
    <2> QED
      BY <1>1, <1>2, <2>1 DEF FilesAreOwn, files
  <1>8. OwnPlaysOnly'
    <2>1. \A r \in received : r[1] /= NoAccount /\ r[2] \in Plays
      BY AccountsAssumption DEF TypeInv, TypeOK, HistoryTypes
    <2> QED
      BY <1>1, <1>2, <2>1 DEF OwnPlaysOnly
  <1>9. LoginShape' /\ CardIsOwn' /\ SendingIsHead' /\ SentIsDone'
    BY <1>1, SeenStays DEF LoginShape, CardIsOwn, Counts, AtCard, SendingIsHead, SentIsDone, Sent, session, requests,
       files, world
  <1> QED
    BY <1>6, <1>7, <1>8, <1>9

LEMMA GuiIsOwn == ASSUME TypeInv, OwnInv, ~SignsInOver, Gui PROVE OwnInv'
  <1>1. ASSUME NEW a \in Accounts, lastfm_login(a) PROVE OwnInv'
    <2>1. UNCHANGED <<files, world, history, session, pending, ready, sending, file_count, card_ready, logout_requested>>
      BY <1>1 DEF lastfm_login
    <2>2. pc' \in {pc, "top"} /\ login_user' = a /\ ~session_key /\ ~logging_in
      BY <1>1 DEF lastfm_login, Signal
    <2>3. session_expired /\ ~logout_requested => a = user
      BY <1>1 DEF lastfm_login
    <2>4. pc /= "login"
      BY <2>2 DEF TypeInv, SessionShape
    <2>5. LoginShape'
      BY <2>1, <2>2, <2>3, <2>4 DEF LoginShape, OwnInv, session
    <2> QED
      BY <2>1, <2>2, <2>5, StillOwn DEF session, world
  <1>2. CASE lastfm_logout
    <2>1. /\ UNCHANGED <<files, world, history, user, login_user, pending, ready, sending, file_count, card_ready>>
          /\ pc' \in {pc, "top"} /\ logout_requested'
      BY <1>2 DEF lastfm_logout, Signal
    <2>2. LoginShape'
      BY <2>1 DEF LoginShape, OwnInv
    <2> QED
      BY <2>1, <2>2, StillOwn DEF world
  <1>3. CASE lastfm_set_enabled
    <2>1. /\ UNCHANGED <<files, world, history, session, requests, pending, ready, sending, file_count, card_ready>>
          /\ pc' \in {pc, "top"}
      BY <1>3 DEF lastfm_set_enabled, Signal
    <2>2. LoginShape'
      BY <2>1 DEF LoginShape, OwnInv, session, requests
    <2> QED
      BY <2>1, <2>2, StillOwn DEF session, world
  <1> QED
    BY <1>1, <1>2, <1>3, QualifyIsOwn DEF Gui

LEMMA WithoutFileIsOwn ==
  ASSUME TypeInv, FilesAreOwn, NEW c \in Cards, WithoutFile(c), listener' = listener
  PROVE  FilesAreOwn' /\ owner'[c] = NoAccount
  BY NothingHasNoLines DEF FilesAreOwn, WithoutFile, TypeInv, TypeOK, FileTypes

LEMMA NothingIsHead == sending' = <<>> /\ TypeInv' => SendingIsHead'
  <1> SUFFICES ASSUME sending' = <<>>, TypeInv' PROVE SendingIsHead'
    OBVIOUS
  <1>1. \A c \in Cards : Len(queue'[c]) \in Nat
    BY DEF TypeInv, TypeOK, FileTypes
  <1> QED
    BY <1>1 DEF SendingIsHead, Seen

LEMMA RequestsAreOwn == ASSUME TypeInv, OwnInv, TakeRequests PROVE OwnInv'
  <1> USE DEF OwnInv
  <1>1. /\ pc = "top" /\ pc' \in {"login", "card"} /\ ready = <<>> /\ sending = <<>>
        /\ UNCHANGED <<world, ready, sending, history, login_user>> /\ ~logout_requested'
    BY DEF TakeRequests, Goto, TypeInv, PlaceShape
  <1>2. CASE logout_requested
    <2>1. /\ user' = NoAccount /\ pending' = <<>> /\ ~card_ready' /\ file_count' = 0
          /\ (card \in Cards /\ WithoutFile(card)) \/ UNCHANGED files
      BY <1>2 DEF TakeRequests, do_logout, pending_forgotten, TypeInv, TypeOK, WorldTypes
    <2>2. FilesAreOwn'
      <3>1. CASE UNCHANGED files
        BY <1>1, <3>1 DEF FilesAreOwn, files, history
      <3> QED
        BY <1>1, <2>1, <3>1, WithoutFileIsOwn DEF history
    <2>3. LoginShape' /\ MemoryIsOwn'
      BY <1>1, <2>1, NothingHasNoLines DEF LoginShape, MemoryIsOwn
    <2>4. CardIsOwn' /\ SentIsDone' /\ OwnPlaysOnly'
      BY <1>1, <2>1 DEF CardIsOwn, Counts, AtCard, SentIsDone, OwnPlaysOnly, history
    <2>5. SendingIsHead'
      BY <1>1, RequestsAreTyped, NothingIsHead
    <2> QED
      BY <2>2, <2>3, <2>4, <2>5
  <1>3. CASE ~logout_requested
    <2>1. UNCHANGED <<files, card_ready, file_count, pending, session>>
      BY <1>3 DEF TakeRequests
    <2>2. LoginShape'
      BY <1>1, <1>3, <2>1 DEF LoginShape, session
    <2> QED
      BY <1>1, <2>1, <2>2, StillOwn DEF session, world
  <1> QED
    BY <1>2, <1>3

LEMMA LoginIsOwn == ASSUME TypeInv, OwnInv, do_login PROVE OwnInv'
  <1> USE DEF OwnInv
  <1>1. /\ pc = "login" /\ pc' = "card" /\ login_user' = NoAccount /\ ~card_ready'
        /\ UNCHANGED <<files, world, history, pending, file_count, ready, sending, logout_requested>>
        /\ (user' = login_user /\ session_key') \/ UNCHANGED session
    BY DEF do_login, Goto
  <1>2. ready = <<>> /\ sending = <<>> /\ login_user /= NoAccount
    BY <1>1 DEF TypeInv, PlaceShape, SessionShape, logging_in
  <1>3. user' = user \/ user = NoAccount
    BY <1>1, <1>2 DEF LoginShape, session
  <1>4. LoginShape'
    BY <1>1 DEF LoginShape, session
  <1>5. MemoryIsOwn'
    <2>1. user = NoAccount => pending = <<>>
      BY DEF TypeInv, SessionShape
    <2> QED
      BY <1>1, <1>2, <1>3, <2>1, NothingHasNoLines DEF MemoryIsOwn, history
  <1>6. FilesAreOwn' /\ OwnPlaysOnly' /\ SentIsDone'
    BY <1>1 DEF FilesAreOwn, OwnPlaysOnly, SentIsDone, files, history
  <1>7. CardIsOwn'
    <2>1. user = NoAccount => ~(file_count > 0)
      BY DEF TypeInv, SessionShape
    <2> QED
      BY <1>1, <1>3, <2>1, SeenStays DEF CardIsOwn, Counts, AtCard, files, world
  <1>8. SendingIsHead'
    BY <1>1, <1>2, LoginIsTyped, NothingIsHead
  <1> QED
    BY <1>4, <1>5, <1>6, <1>7, <1>8

\* The look at the card throws away what is somebody else's.
LEMMA LookIsOwn ==
  ASSUME TypeInv, OwnInv, LookAtCard, listener' = listener, user' = user, card' = card
  PROVE  /\ FilesAreOwn'
         /\ card_ready' \/ file_count' > 0 => \A c \in Seen' : owner'[c] \in {NoAccount, user}
  <1> USE DEF OwnInv, files
  <1>1. CASE counting /\ card /= NoCard /\ ~card_ready /\ queue_attach
    <2>1. card \in Cards /\ Seen' = {card}
      BY <1>1 DEF TypeInv, TypeOK, WorldTypes, Seen, OneCard
    <2>2. CASE foreign(card)
      <3>1. WithoutFile(card)
        BY <1>1, <2>2 DEF queue_attach
      <3>2. FilesAreOwn' /\ owner'[card] = NoAccount
        BY <2>1, <3>1, WithoutFileIsOwn
      <3> QED
        BY <2>1, <3>2
    <2>3. CASE ~foreign(card)
      <3>1. UNCHANGED files /\ owner[card] \in {NoAccount, user}
        BY <1>1, <2>3 DEF queue_attach, foreign
      <3> QED
        BY <2>1, <3>1 DEF FilesAreOwn
    <2> QED
      BY <2>2, <2>3
  <1>2. CASE /\ counting /\ card = NoCard /\ card_ready' = FALSE /\ files' = files
             /\ file_count' = IF card_ready THEN 0 ELSE file_count
    BY <1>2, SeenStays DEF FilesAreOwn, CardIsOwn, Counts
  <1>3. CASE files' = files /\ card_ready' = card_ready /\ file_count' = file_count
    BY <1>3, SeenStays DEF FilesAreOwn, CardIsOwn, Counts
  <1> QED
    BY <1>1, <1>2, <1>3, LookDoes

LEMMA TakingIsOwn == ASSUME TypeInv, OwnInv, LookAndTake PROVE OwnInv'
  <1> USE DEF OwnInv
  <1>1. /\ UNCHANGED <<world, session, requests, sending, history>>
        /\ pc = "card" /\ pc' \in {"append", "keep", "send", "rest"} /\ LookAtCard
        /\ pc' \in {"append", "keep"} => card_ready'
    BY LookTakes DEF LookAndTake
  <1>2. ready = <<>> /\ sending = <<>>
    BY <1>1 DEF TypeInv, PlaceShape
  <1>3. FilesAreOwn' /\ CardIsOwn'
    BY <1>1, LookIsOwn DEF CardIsOwn, Counts, AtCard, session, history, world
  <1>4. MemoryIsOwn'
    <2>1. \A i \in DOMAIN pending' : i \in DOMAIN pending /\ pending'[i].play = pending[i].play
      <3>1. CASE pending' = pending
        BY <3>1
      <3>2. CASE pending' = Known
        BY <3>2, KnownIsTyped, Zenon DEF Known, TypeInv, TypeOK
      <3> QED
        BY <3>1, <3>2, LookTakes
    <2>2. \A p \in Lines(ready') : \E i \in DOMAIN pending : p = pending[i].play
      <3>1. CASE ready' = ready
        BY <1>2, <3>1, NothingHasNoLines
      <3>2. ASSUME NEW n \in Nat, ready' \in [1..n -> Plays],
                   \A k \in 1..n : \E i \in DOMAIN pending : ready'[k] = pending[i].play
            PROVE  \A p \in Lines(ready') : \E i \in DOMAIN pending : p = pending[i].play
        BY <3>2 DEF Lines
      <3> QED
        BY <3>1, <3>2, LookTakes
    <2> QED
      BY <1>1, <1>2, <2>1, <2>2, NothingHasNoLines DEF MemoryIsOwn, session, history
  <1>5. LoginShape' /\ OwnPlaysOnly' /\ SentIsDone'
    BY <1>1 DEF LoginShape, OwnPlaysOnly, SentIsDone, session, requests, history
  <1>6. SendingIsHead'
    BY <1>1, <1>2, TakingIsTyped, NothingIsHead
  <1> QED
    BY <1>3, <1>4, <1>5, <1>6

LEMMA AppendIsOwn == ASSUME TypeInv, OwnInv, queue_append PROVE OwnInv'
  <1> USE DEF OwnInv
  <1>1. /\ UNCHANGED <<world, session, requests, pending, file_count, card_ready, sending, history>>
        /\ pc = "append" /\ pc' \in {"keep", "send"} /\ ready' \in {ready, <<>>} /\ sending = <<>>
    BY DEF queue_append, Goto, TypeInv, PlaceShape
  <1>0. Seen' \subseteq Seen
    BY <1>1, SeenStays DEF world
  <1>2. user /= NoAccount /\ \A c \in Seen : owner[c] \in {NoAccount, user}
    BY <1>1 DEF TypeInv, SessionShape, CardIsOwn, Counts, AtCard
  <1>3. FilesAreOwn' /\ \A c \in Seen' : owner'[c] \in {NoAccount, user}
    <2>1. CASE UNCHANGED files
      BY <1>0, <1>1, <1>2, <2>1 DEF files, FilesAreOwn, history
    <2>2. ASSUME card /= NoCard, NEW written \in Attempts,
                 queue' = [queue EXCEPT ![card] = Joined(@, written.lines)],
                 owner' = [owner EXCEPT ![card] = IF @ = NoAccount THEN user ELSE @]
          PROVE  FilesAreOwn' /\ \A c \in Seen' : owner'[c] \in {NoAccount, user}
      <3>1. card \in Cards /\ queue[card] \in Seq(Plays \cup {Torn})
        BY <2>2 DEF TypeInv, TypeOK, WorldTypes, FileTypes
      <3>2. /\ Lines(Joined(queue[card], written.lines)) \subseteq Lines(queue[card]) \cup Lines(written.lines)
            /\ Lines(written.lines) \subseteq Lines(ready) \cup {Torn}
        BY <3>1, AttemptsAreOfReady, JoinedProperties DEF TypeInv, TypeOK, WorkerTypes
      <3>3. /\ queue'[card] = Joined(queue[card], written.lines) /\ owner'[card] = user
            /\ \A c \in Cards \ {card} : queue'[c] = queue[c] /\ owner'[c] = owner[c]
        BY <1>2, <2>2, <3>1 DEF TypeInv, TypeOK, FileTypes, Seen
      <3>4. \A p \in Lines(queue'[card]) \ {Torn} : listener[p] = user
        BY <1>2, <3>1, <3>2, <3>3 DEF FilesAreOwn, MemoryIsOwn, Seen
      <3>5. FilesAreOwn'
        BY <1>1, <1>2, <3>3, <3>4 DEF FilesAreOwn, history
      <3> QED
        BY <1>0, <1>2, <3>1, <3>3, <3>5 DEF Seen
    <2> QED
      BY <2>1, <2>2 DEF queue_append
  <1>4. MemoryIsOwn'
    BY <1>1, NothingHasNoLines DEF MemoryIsOwn, session, history
  <1>5. LoginShape' /\ OwnPlaysOnly' /\ SentIsDone' /\ CardIsOwn'
    BY <1>1, <1>3 DEF LoginShape, OwnPlaysOnly, SentIsDone, CardIsOwn, session, requests, history
  <1>6. SendingIsHead'
    BY <1>1, AppendIsTyped, NothingIsHead
  <1> QED
    BY <1>3, <1>4, <1>5, <1>6

LEMMA KeepingIsOwn == ASSUME TypeInv, OwnInv, KeepRest PROVE OwnInv'
  <1> USE DEF OwnInv
  <1>1. /\ UNCHANGED <<files, world, session, requests, card_ready, sending, history>>
        /\ pc = "keep" /\ pc' = "send" /\ ready' = <<>> /\ sending = <<>>
        /\ pending' = Chosen(pending, DOMAIN pending \ Timed(pending))
    BY DEF KeepRest, Goto, TypeInv, PlaceShape
  <1>2. \A k \in DOMAIN pending' : \E i \in DOMAIN pending : pending'[k] = pending[i]
    BY <1>1, ChosenProperties DEF TypeInv, TypeOK, MemoryTypes
  <1>3. MemoryIsOwn'
    <2>1. \A i \in DOMAIN pending' : listener[pending'[i].play] = user
      BY <1>2 DEF MemoryIsOwn
    <2> QED
      BY <1>1, <2>1, NothingHasNoLines DEF MemoryIsOwn, session, history
  <1>4. LoginShape' /\ FilesAreOwn' /\ OwnPlaysOnly' /\ SentIsDone'
    BY <1>1 DEF LoginShape, FilesAreOwn, OwnPlaysOnly, SentIsDone, files, session, requests, history
  <1>5. CardIsOwn'
    BY <1>1, SeenStays DEF CardIsOwn, Counts, AtCard, files, world, session
  <1>6. SendingIsHead'
    BY <1>1, KeepingIsTyped, NothingIsHead
  <1> QED
    BY <1>3, <1>4, <1>5, <1>6

LEMMA SendIsOwn == ASSUME TypeInv, OwnInv, StartSend PROVE OwnInv'
  <1> USE DEF OwnInv
  <1>1. /\ UNCHANGED <<files, world, session, requests, pending, file_count, card_ready, ready, history>>
        /\ pc = "send" /\ pc' = "wire" /\ file_count > 0 /\ sending' = HeadOfQueue
    BY DEF StartSend, Goto
  <1>0. Seen' \subseteq Seen
    BY <1>1, SeenStays DEF world
  <1>2. \A c \in Seen : owner[c] \in {NoAccount, user}
    BY <1>1 DEF CardIsOwn, Counts
  <1>3. SendingIsHead' /\ \A p \in Lines(sending') \ {Torn} : listener[p] = user
    <2>1. CASE card = NoCard
      <3>1. sending' = <<>>
        BY <1>1, <2>1 DEF HeadOfQueue
      <3> QED
        BY <3>1, SendIsTyped, NothingIsHead, NothingHasNoLines
    <2>2. CASE card /= NoCard
      <3>1. card \in Cards /\ queue[card] \in Seq(Plays \cup {Torn})
        BY <2>2 DEF TypeInv, TypeOK, WorldTypes, FileTypes
      <3>2. /\ Len(sending') <= Len(queue[card]) /\ sending' \in Seq(Plays \cup {Torn})
            /\ \A i \in DOMAIN sending' : sending'[i] = queue[card][i]
        BY <1>1, <2>2, <3>1, BatchIsHead DEF HeadOfQueue
      <3>3. SendingIsHead'
        BY <1>0, <1>1, <3>1, <3>2, SeenIsCard DEF SendingIsHead, files
      <3>4. \A i \in DOMAIN sending' : i \in DOMAIN queue[card]
        BY <3>1, <3>2
      <3>5. Lines(sending') \subseteq Lines(queue[card])
        BY <3>2, <3>4 DEF Lines
      <3>6. \A p \in Lines(queue[card]) \ {Torn} : listener[p] = user
        BY <1>2, <3>1 DEF FilesAreOwn, Seen
      <3> QED
        BY <3>3, <3>5, <3>6
    <2> QED
      BY <2>1, <2>2
  <1>4. MemoryIsOwn'
    BY <1>1, <1>3 DEF MemoryIsOwn, session, history
  <1>5. LoginShape' /\ FilesAreOwn' /\ OwnPlaysOnly' /\ SentIsDone' /\ CardIsOwn'
    BY <1>0, <1>1, <1>2 DEF LoginShape, FilesAreOwn, OwnPlaysOnly, SentIsDone, CardIsOwn, files, session, requests, history
  <1> QED
    BY <1>3, <1>4, <1>5

\* The lines leave the queue only after an answer that is about all of them.
LEMMA DroppedIsDone ==
  ASSUME TypeInv, Answer, pc' = "drop"
  PROVE  \A p \in Sent : <<user, p>> \in received' \/ p \in refused'
  <1>1. CASE AnswerOk
    BY <1>1 DEF AnswerOk, Delivered
  <1>2. CASE AnswerBad
    <2>1. batch = 1
      BY <1>2 DEF AnswerBad, Counted, Goto, drop_alone
    <2> QED
      BY <1>2, <2>1 DEF AnswerBad
  <1>3. CASE AnswerLater \/ AnswerSession
    BY <1>3 DEF AnswerLater, AnswerSession, Counted, Goto
  <1> QED
    BY <1>1, <1>2, <1>3 DEF Answer, Answered

LEMMA AnswersAreOwn == ASSUME TypeInv, OwnInv, Answer PROVE OwnInv'
  <1> USE DEF OwnInv
  <1>1. AnswerShape
    BY AnswersAreShaped
  <1>2. /\ UNCHANGED <<files, world, requests, pending, card_ready, ready, listener>> /\ user' = user
        /\ pc = "wire" /\ received' \in {received, Delivered}
    BY <1>1 DEF AnswerShape, Untouched
  <1>3. /\ pc' \in {"drop", "rest"} /\ sending' \in {sending, <<>>}
        /\ pc' = "drop" => sending' = sending
    BY <1>1, CountIsTyped DEF AnswerShape
  <1>0. Seen' \subseteq Seen
    BY <1>2, SeenStays DEF world
  <1>4. user /= NoAccount /\ \A c \in Seen : owner[c] \in {NoAccount, user}
    BY <1>2 DEF TypeInv, SessionShape, CardIsOwn, Counts, AtCard
  <1>5. MemoryIsOwn' /\ FilesAreOwn' /\ CardIsOwn'
    BY <1>0, <1>2, <1>3, <1>4, NothingHasNoLines DEF MemoryIsOwn, FilesAreOwn, CardIsOwn, files
  <1>6. OwnPlaysOnly'
    <2>1. \A p \in Sent : listener[p] = user
      BY DEF MemoryIsOwn, Sent
    <2> QED
      BY <1>2, <2>1 DEF OwnPlaysOnly, Delivered
  <1>7. SentIsDone'
    BY <1>2, <1>3, DroppedIsDone DEF SentIsDone, Sent
  <1>8. SendingIsHead'
    <2>1. CASE sending' = sending
      BY <1>0, <1>2, <2>1 DEF SendingIsHead, files
    <2> QED
      BY <1>3, <2>1, AnswersAreTyped, NothingIsHead
  <1>9. LoginShape'
    <2>1. user /= NoAccount => session_key' \/ session_expired' \/ logout_requested'
      <3>1. UNCHANGED <<session_key, session_expired>> \/ session_expired'
        BY DEF Answer, Answered, AnswerOk, AnswerBad, AnswerLater, AnswerSession, session
      <3> QED
        BY <1>2, <3>1 DEF LoginShape, requests
    <2> QED
      BY <1>2, <1>3, <2>1 DEF LoginShape, requests
  <1> QED
    BY <1>5, <1>6, <1>7, <1>8, <1>9

LEMMA DropIsOwn == ASSUME TypeInv, OwnInv, queue_drop_head PROVE OwnInv'
  <1> USE DEF OwnInv
  <1>1. /\ UNCHANGED <<world, session, requests, pending, file_count, card_ready, ready, history>>
        /\ sending' = <<>> /\ pc = "drop" /\ pc' = "rest"
    BY DEF queue_drop_head, Goto
  <1>0. Seen' \subseteq Seen
    BY <1>1, SeenStays DEF world
  <1>2. \A c \in Seen : owner[c] \in {NoAccount, user}
    BY <1>1 DEF CardIsOwn, Counts, AtCard
  <1>3. FilesAreOwn' /\ \A c \in Seen' : owner'[c] \in {NoAccount, user}
    <2>1. CASE UNCHANGED files
      BY <1>0, <1>1, <1>2, <2>1 DEF files, FilesAreOwn, history
    <2>2. CASE card /= NoCard /\ Drained(card, SubSeq(queue[card], Len(sending) + 1, Len(queue[card])))
      <3> DEFINE q == SubSeq(queue[card], Len(sending) + 1, Len(queue[card]))
      <3>1. /\ card \in Cards /\ queue[card] \in Seq(Plays \cup {Torn})
            /\ Len(sending) \in Nat /\ Len(sending) <= Len(queue[card])
        BY <2>2 DEF TypeInv, TypeOK, WorldTypes, FileTypes, WorkerTypes, SendingIsHead, Seen
      <3>2. Len(sending) \in 0..Len(queue[card])
        BY <3>1
      <3>3. Lines(q) \subseteq Lines(queue[card])
        BY <3>1, <3>2, WithoutHead
      <3>4. /\ queue'[card] = q /\ owner'[card] = IF q = <<>> THEN NoAccount ELSE owner[card]
            /\ \A c \in Cards \ {card} : queue'[c] = queue[c] /\ owner'[c] = owner[c]
        BY <2>2, <3>1 DEF Drained, TypeInv, TypeOK, FileTypes
      <3> HIDE DEF q
      <3>5. \A p \in Lines(queue'[card]) \ {Torn} : owner'[card] /= NoAccount /\ listener[p] = owner'[card]
        BY <3>1, <3>3, <3>4, NothingHasNoLines DEF FilesAreOwn
      <3>6. FilesAreOwn'
        BY <1>1, <3>4, <3>5 DEF FilesAreOwn, history
      <3> QED
        BY <1>0, <1>2, <3>1, <3>4, <3>6 DEF Seen
    <2> QED
      BY <2>1, <2>2 DEF queue_drop_head
  <1>4. MemoryIsOwn'
    BY <1>1, NothingHasNoLines DEF MemoryIsOwn, session, history
  <1>5. LoginShape' /\ OwnPlaysOnly' /\ SentIsDone' /\ CardIsOwn'
    BY <1>1, <1>3 DEF LoginShape, OwnPlaysOnly, SentIsDone, CardIsOwn, session, requests, history
  <1>6. SendingIsHead'
    BY <1>1, DropIsTyped, NothingIsHead
  <1> QED
    BY <1>3, <1>4, <1>5, <1>6

\* A loss of power takes what is in memory, and leaves who is signed in.
LEMMA PowerLossIsOwn == ASSUME TypeInv, OwnInv, PowerLoss PROVE OwnInv'
  <1> USE DEF OwnInv
  <1>1. /\ UNCHANGED <<files, history, saved>> /\ user' = user /\ session_key' = saved.key
        /\ session_expired' = (user /= NoAccount /\ ~saved.key)
        /\ login_user' = NoAccount /\ pending' = <<>> /\ ready' = <<>> /\ sending' = <<>>
        /\ file_count' = 0 /\ ~card_ready' /\ pc' = "top"
    BY DEF PowerLoss, TypeInv, SessionShape
  <1>2. LoginShape' /\ CardIsOwn' /\ SentIsDone'
    <2>1. user' /= NoAccount => session_key' \/ session_expired'
      BY <1>1, Zenon
    <2> QED
      BY <1>1, <2>1 DEF LoginShape, CardIsOwn, Counts, AtCard, SentIsDone
  <1>3. MemoryIsOwn' /\ FilesAreOwn' /\ OwnPlaysOnly'
    BY <1>1, NothingHasNoLines DEF MemoryIsOwn, FilesAreOwn, OwnPlaysOnly, files, history
  <1>4. SendingIsHead'
    BY <1>1, PowerLossIsTyped, NothingIsHead
  <1> QED
    BY <1>2, <1>3, <1>4

\* The worker goes to rest or wakes, the card and the clock come and go.
LEMMA RestIsOwn ==
  ASSUME TypeInv, OwnInv, [CardsAreSeen]_vars,
         Rest \/ Wakes \/ CardGoes \/ (\E c \in Cards : CardComes(c)) \/ ClockIsSet \/ UNCHANGED vars
  PROVE  OwnInv'
  <1>1. /\ UNCHANGED <<files, history, session, requests, pending, ready, sending, file_count, card_ready>>
        /\ pc' \in {pc, "top", "asleep", "waiting"}
    BY DEF Rest, Wakes, Goto, CardGoes, CardComes, ClockIsSet, vars
  <1>2. LoginShape'
    BY <1>1 DEF LoginShape, OwnInv, session, requests
  <1>3. CASE card' \in {card, NoCard}
    BY <1>1, <1>2, <1>3, StillOwn DEF session
  <1>4. CASE OneCard
    <2>1. Seen' = Seen
      BY <1>4 DEF Seen, OneCard
    <2>2. CardIsOwn' /\ SendingIsHead'
      BY <1>1, <2>1 DEF OwnInv, CardIsOwn, SendingIsHead, Counts, AtCard, files, session
    <2>3. MemoryIsOwn' /\ FilesAreOwn' /\ OwnPlaysOnly' /\ SentIsDone'
      BY <1>1 DEF OwnInv, MemoryIsOwn, FilesAreOwn, OwnPlaysOnly, SentIsDone, Sent, files, history, session
    <2> QED
      BY <1>2, <2>2, <2>3 DEF OwnInv
  \* A card that the worker has not looked at: there is nothing of it in memory.
  <1>5. CASE ~Counts
    <2>1. ~Counts' /\ sending = <<>>
      BY <1>1, <1>5 DEF Counts, AtCard, TypeInv, PlaceShape
    <2>2. SendingIsHead'
      BY <1>1, <2>1, RestIsTyped, WorldIsTyped, NothingIsHead
    <2>3. MemoryIsOwn' /\ FilesAreOwn' /\ OwnPlaysOnly' /\ SentIsDone' /\ CardIsOwn'
      BY <1>1, <2>1 DEF OwnInv, MemoryIsOwn, FilesAreOwn, OwnPlaysOnly, SentIsDone, CardIsOwn, Counts, AtCard,
                        Sent, files, history, session
    <2> QED
      BY <1>2, <2>2, <2>3 DEF OwnInv
  <1> QED
    BY <1>3, <1>4, <1>5 DEF CardsAreSeen, vars, world

LEMMA StepIsOwn ==
  ASSUME ~SignsInOver PROVE TypeInv /\ OwnInv /\ [Next]_vars /\ [CardsAreSeen]_vars => OwnInv'
  <1> SUFFICES ASSUME TypeInv, OwnInv, [Next]_vars, [CardsAreSeen]_vars PROVE OwnInv'
    OBVIOUS
  <1>1. CASE Gui
    BY <1>1, GuiIsOwn
  <1>2. CASE worker_main
    BY <1>2, RequestsAreOwn, LoginIsOwn, TakingIsOwn, AppendIsOwn, KeepingIsOwn, SendIsOwn,
       AnswersAreOwn, DropIsOwn, RestIsOwn DEF worker_main
  <1>3. CASE PowerLoss
    BY <1>3, PowerLossIsOwn
  <1> QED
    BY <1>1, <1>2, <1>3, RestIsOwn DEF Next

\* An account that expired is followed by itself only, and no card comes in while
\* the worker takes another for it: then a play goes to Last.fm under the account
\* of its listener, and the queue that is counted is that of the account that plays
\* are counted for.
THEOREM PlaysKeepTheirListeners ==
  ASSUME ~SignsInOver PROVE Spec /\ [][CardsAreSeen]_vars => []PlaysKeepTheirListener
  <1>1. TypeInv /\ OwnInv => PlaysKeepTheirListener
    BY DEF TypeInv, TypeOK, WorldTypes, OwnInv, CardIsOwn, Counts, Seen, PlaysKeepTheirListener, CardIsChecked
  <1>2. Init => TypeInv /\ OwnInv
    BY InitIsTyped, InitIsOwn
  <1>3. TypeInv /\ OwnInv /\ [Next]_vars /\ [CardsAreSeen]_vars => (TypeInv /\ OwnInv)'
    BY StepIsTyped, StepIsOwn
  <1> QED
    BY <1>1, <1>2, <1>3, PTL DEF Spec

\* Where there is one card it is always the one that was looked at.
THEOREM OneCardKeepsListeners ==
  ASSUME OneCard, ~SignsInOver PROVE Spec => []PlaysKeepTheirListener
  <1>1. [Next]_vars => [CardsAreSeen]_vars
    BY DEF CardsAreSeen
  <1> QED
    BY <1>1, PlaysKeepTheirListeners, PTL DEF Spec

-----------------------------------------------------------------------------
(***************************************************************************)
(* What may leave the queue.                                               *)
(***************************************************************************)
FinishedLeave ==
    \A c \in Cards : \A p \in Lines(queue[c]) \ (Lines(queue'[c]) \cup {Torn}) :
        <<owner[c], p>> \in received \/ p \in refused \/ owner[c] /= user'

\* The head that is dropped has been sent, or refused alone.
LEMMA DropLeaves == ASSUME TypeInv, OwnInv, queue_drop_head PROVE FinishedLeave
  <1> USE DEF OwnInv
  <1>1. CASE UNCHANGED files
    BY <1>1 DEF FinishedLeave, files
  <1>2. CASE card /= NoCard /\ Drained(card, SubSeq(queue[card], Len(sending) + 1, Len(queue[card])))
    <2>1. /\ card \in Cards /\ queue[card] \in Seq(Plays \cup {Torn}) /\ sending \in Seq(Plays \cup {Torn})
          /\ Len(sending) \in Nat /\ Len(sending) <= Len(queue[card])
      BY <1>2 DEF TypeInv, TypeOK, WorldTypes, FileTypes, WorkerTypes, SendingIsHead, Seen
    <2>2. Len(sending) \in 0..Len(queue[card])
      BY <2>1
    <2>3. \A x \in Lines(queue[card]) : \/ x \in Lines(SubSeq(queue[card], Len(sending) + 1, Len(queue[card])))
                                        \/ \E i \in 1..Len(sending) : x = queue[card][i]
      BY <2>1, <2>2, WithoutHead
    <2>4. \A i \in 1..Len(sending) : queue[card][i] \in Lines(sending)
      BY <2>1 DEF SendingIsHead, Seen, Lines
    <2>5. /\ queue'[card] = SubSeq(queue[card], Len(sending) + 1, Len(queue[card]))
          /\ \A c \in Cards \ {card} : queue'[c] = queue[c]
      BY <1>2, <2>1 DEF Drained, TypeInv, TypeOK, FileTypes
    <2>6. /\ owner[card] \in {NoAccount, user} /\ pc = "drop"
          /\ \A p \in Lines(queue[card]) \ {Torn} : owner[card] /= NoAccount
      BY <2>1 DEF queue_drop_head, CardIsOwn, Counts, Seen, AtCard, FilesAreOwn
    <2>7. \A p \in Lines(queue[card]) \ (Lines(queue'[card]) \cup {Torn}) : p \in Sent /\ owner[card] = user
      BY <2>3, <2>4, <2>5, <2>6, Zenon DEF Sent
    <2>8. \A p \in Lines(queue[card]) \ (Lines(queue'[card]) \cup {Torn}) :
            <<owner[card], p>> \in received \/ p \in refused
      BY <2>6, <2>7 DEF SentIsDone
    <2> QED
      BY <2>1, <2>5, <2>8 DEF FinishedLeave
  <1> QED
    BY <1>1, <1>2 DEF queue_drop_head

LEMMA StepLeaves ==
  ASSUME TypeInv, OwnInv, [Next]_vars PROVE FinishedLeave
  <1>1. CASE UNCHANGED files
    BY <1>1 DEF FinishedLeave, files
  <1>2. ASSUME NEW c \in Cards, WithoutFile(c), foreign(c), user' = user PROVE FinishedLeave
    BY <1>2 DEF FinishedLeave, WithoutFile, foreign, TypeInv, TypeOK, FileTypes
  <1>3. ASSUME NEW c \in Cards, WithoutFile(c), user' = NoAccount PROVE FinishedLeave
    BY <1>3 DEF FinishedLeave, WithoutFile, TypeInv, TypeOK, FileTypes, OwnInv, FilesAreOwn
  <1>4. CASE TakeRequests
    <2>1. UNCHANGED files \/ (card \in Cards /\ WithoutFile(card) /\ user' = NoAccount)
      BY <1>4 DEF TakeRequests, do_logout, TypeInv, TypeOK, WorldTypes
    <2> QED
      BY <1>1, <1>3, <2>1
  <1>5. CASE LookAndTake
    <2>1. LookAtCard /\ user' = user
      BY <1>5, LookTakes DEF LookAndTake, session
    <2>2. UNCHANGED files \/ (card \in Cards /\ WithoutFile(card) /\ foreign(card))
      BY <2>1, LookDoes DEF queue_attach, TypeInv, TypeOK, WorldTypes
    <2> QED
      BY <1>1, <1>2, <2>1, <2>2
  <1>6. CASE queue_append
    <2>1. ASSUME card /= NoCard, NEW written \in Attempts,
                 queue' = [queue EXCEPT ![card] = Joined(@, written.lines)]
          PROVE  FinishedLeave
      <3>1. card \in Cards /\ queue[card] \in Seq(Plays \cup {Torn})
        BY <2>1 DEF TypeInv, TypeOK, WorldTypes, FileTypes
      <3>2. Lines(queue[card]) \subseteq Lines(Joined(queue[card], written.lines))
        BY <3>1, AttemptsAreOfReady, JoinedProperties DEF TypeInv, TypeOK, WorkerTypes
      <3>3. \A c \in Cards : Lines(queue[c]) \subseteq Lines(queue'[c])
        BY <2>1, <3>1, <3>2 DEF TypeInv, TypeOK, FileTypes
      <3> QED
        BY <3>3 DEF FinishedLeave
    <2> QED
      BY <1>1, <1>6, <2>1 DEF queue_append
  <1>7. CASE queue_drop_head
    BY <1>7, DropLeaves
  <1>8. CASE Gui \/ do_login \/ KeepRest \/ StartSend \/ Rest \/ Wakes
    BY <1>1, <1>8 DEF Gui, qualify, lastfm_login, lastfm_logout, lastfm_set_enabled, do_login, KeepRest,
       StartSend, Rest, Wakes
  <1>9. CASE Answer
    BY <1>1, <1>9, AnswersAreShaped DEF AnswerShape, Untouched
  <1>10. CASE CardGoes \/ (\E c \in Cards : CardComes(c)) \/ ClockIsSet \/ PowerLoss \/ UNCHANGED vars
    BY <1>1, <1>10 DEF CardGoes, CardComes, ClockIsSet, PowerLoss, vars
  <1> QED
    BY <1>4, <1>5, <1>6, <1>7, <1>8, <1>9, <1>10 DEF Next, worker_main

\* On the same terms no lost answer, failed write or loss of power takes a play out
\* of the queue: it leaves when Last.fm has it, or has refused it alone, or when its
\* listener has signed out.
THEOREM OnlyFinishedPlaysLeave ==
  ASSUME ~SignsInOver PROVE Spec /\ [][CardsAreSeen]_vars => OnlyFinishedLeave
  <1>1. Init => TypeInv /\ OwnInv
    BY InitIsTyped, InitIsOwn
  <1>2. TypeInv /\ OwnInv /\ [Next]_vars /\ [CardsAreSeen]_vars => (TypeInv /\ OwnInv)'
    BY StepIsTyped, StepIsOwn
  <1>3. TypeInv /\ OwnInv /\ [Next]_vars => [FinishedLeave]_vars
    BY StepLeaves
  <1>4. OnlyFinishedLeave <=> [][FinishedLeave]_vars
    BY DEF OnlyFinishedLeave, FinishedLeave
  <1> QED
    BY <1>1, <1>2, <1>3, <1>4, PTL DEF Spec
=============================================================================
