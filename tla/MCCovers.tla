------------------------------ MODULE MCCovers ------------------------------
(***************************************************************************)
(* Covers for TLC: "a" and "b" carry the same picture, "c" another, and    *)
(* "d", where there is one, none.                                          *)
(***************************************************************************)
EXTENDS Covers

MCSourceId == [p \in Paths |-> CASE p \in {"a", "b"} -> 1 [] p = "c" -> 2 [] OTHER -> 0]

PlayerIsIdle ==
  /\ player.shown_path = NoPath /\ player.shown_id = 0 /\ ~player.polling
  /\ loader.jobs[PLAYER] = Idle /\ loader.id_job = IdIdle /\ ~loader.prefetch_job
SaverIsIdle == ~saver.images /\ ~saver.visible
IdleFrom(n) == \A s \in Slots : s >= n => rows[s].of = NoPath /\ loader.jobs[s] = Idle

\* Bounds who asks at a time: the player, whatever it plays; the rows and
\* the screensaver; or the first row and the player, with one track.
Scope ==
  \/ IdleFrom(0) /\ SaverIsIdle
  \/ PlayerIsIdle
  \/ IdleFrom(1) /\ SaverIsIdle /\ player.shown_path \in {"a", "c"}

MCSpec == Init /\ [][Next /\ Scope']_vars /\ Fairness
=============================================================================
