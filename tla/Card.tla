------------------------------- MODULE Card -------------------------------
(***************************************************************************)
(* Who has the memory card: device/system.c and device/usb.c.              *)
(*                                                                         *)
(* Five threads move it.  The supervisor looks every few seconds whether   *)
(* the card is readable and mounts it when it is not; the hotplug thread   *)
(* follows the kernel's events; the watcher of the cable hands the card to *)
(* a computer and takes it back; the one that starts DAC mode takes it     *)
(* back too; and the one that powers off lets go of it.  The first two and *)
(* the last go by `card_lock', the other two by `storage_lock', and what   *)
(* one side sees of the other is two flags and the mount itself.           *)
(*                                                                         *)
(* ADB is off and there is no DAC on the port.  The player starts with     *)
(* the card in: without one usb_start() makes no watcher.                  *)
(***************************************************************************)
EXTENDS Integers, Sequences, FiniteSets

CONSTANT
  MaxEvents     \* how often the card or the cable is moved, DAC mode switched,
                \* or the card fails to mount

ASSUME EventsAssumption == MaxEvents \in Nat

VARIABLES
  slot,     \* the card, the cable and the kernel
  player,   \* what the threads share
  locks,    \* who holds card_lock and storage_lock
  at,       \* where each thread is
  watch,    \* the watcher's own: exported, await_unplug, whether it has seen
            \* the newest owner_serial, and its attempts to unmount
  left      \* of MaxEvents
(***************************************************************************)
(* slot.in          a card is in the slot                                  *)
(* slot.cable       "none", a "charger", or a "host" that has enumerated   *)
(*                  the gadget                                             *)
(* slot.medium      what lun.0/file names: nothing ("empty"), the "card",  *)
(*                  or one that is "gone"                                  *)
(* slot.mount       what is on the mount point: "none", the "live" card, a *)
(*                  view of it that is "stale" since a host wrote it, the  *)
(*                  card "readonly", or one that is no longer there, "dead"*)
(* slot.uevents     not yet read by the hotplug thread                     *)
(* slot.offered     history: since the watcher saw no cable, or the gadget *)
(*                  changed hands, the host has not ejected the card, nor  *)
(*                  has the card been moved                                *)
(* player.library   whether the databases are "closed", open on the        *)
(*                  "card", or open "elsewhere": on the directory that is  *)
(*                  under the mount point                                  *)
(***************************************************************************)
vars == <<slot, player, locks, at, watch, left>>

Mounted == slot.mount # "none"
Alive(mount) == mount \in {"live", "stale", "readonly"}     \* mount_is_alive()

Goes(t, where) == at' = [at EXCEPT ![t] = where]
Takes(lock, t) == locks[lock] = "nobody" /\ locks' = [locks EXCEPT ![lock] = t]
Leaves(lock) == locks' = [locks EXCEPT ![lock] = "nobody"]
Passes(lock) == locks[lock] = "nobody" /\ UNCHANGED locks   \* takes and leaves it

Init ==
  /\ slot = [in |-> TRUE, cable |-> "none", medium |-> "empty", mount |-> "live",
             uevents |-> <<>>, offered |-> TRUE]
  /\ player = [storage_active |-> FALSE, card_attached |-> TRUE, library |-> "card",
               card_released |-> FALSE, dac_owns_usb |-> FALSE]
  /\ locks = [card |-> "nobody", storage |-> "nobody"]
  /\ at = [supervisor |-> "asleep", hotplug |-> "reading", watcher |-> "top",
           dac |-> "settled", power |-> "on"]
  /\ watch = [exported |-> FALSE, await_unplug |-> FALSE, seen |-> TRUE, attempt |-> 0]
  /\ left = MaxEvents

-----------------------------------------------------------------------------
(* The world. *)

Happens == left > 0 /\ left' = left - 1

\* One card makes two events, of the disk and of its partition.
card_pulled ==
  /\ slot.in /\ Happens
  /\ slot' = [slot EXCEPT !.in = FALSE,
                          !.medium = IF @ = "card" THEN "gone" ELSE @,
                          !.mount = IF Mounted THEN "dead" ELSE @,
                          !.uevents = @ \o <<"remove", "remove">>,
                          !.offered = FALSE]
  /\ UNCHANGED <<player, locks, at, watch>>

card_put_in ==
  /\ ~slot.in /\ Happens
  /\ slot' = [slot EXCEPT !.in = TRUE, !.uevents = @ \o <<"add", "add">>, !.offered = FALSE]
  /\ UNCHANGED <<player, locks, at, watch>>

cable_moved ==
  /\ Happens
  /\ \E cable \in {"none", "charger", "host"} \ {slot.cable} :
       slot' = [slot EXCEPT !.cable = cable]
  /\ UNCHANGED <<player, locks, at, watch>>

\* On a removable lun the kernel closes the file.
host_ejects ==
  /\ slot.cable = "host" /\ slot.medium # "empty"
  /\ slot' = [slot EXCEPT !.medium = "empty", !.offered = FALSE]
  /\ UNCHANGED <<player, locks, at, watch, left>>

\* What is mounted here is then not what is on the card.
host_writes ==
  /\ slot.cable = "host" /\ slot.medium = "card" /\ slot.mount = "live"
  /\ slot' = [slot EXCEPT !.mount = "stale"]
  /\ UNCHANGED <<player, locks, at, watch, left>>

-----------------------------------------------------------------------------
(* system.c: the card's databases, and the mount. *)

\* card_databases_detach().
Detached == IF player.card_attached
            THEN [player EXCEPT !.card_attached = FALSE, !.library = "closed"]
            ELSE player

\* library_open(): what is open stays, and on a mount that is dead, or on a
\* directory that has no .local, it fails.
Opened == CASE player.library # "closed" -> {player.library}
            [] Alive(slot.mount)         -> {"card"}
            [] slot.mount = "none"       -> {"closed", "elsewhere"}
            [] slot.mount = "dead"       -> {"closed"}

\* card_databases_attach().
Attached == IF player.card_attached THEN {player}
            ELSE {[player EXCEPT !.card_attached = TRUE, !.library = library] : library \in Opened}

\* mount_sd(), by the mount it leaves: a dead one is cleared, a live one left
\* alone.
mount_sd(mount) ==
  \/ Alive(slot.mount) /\ mount = slot.mount /\ UNCHANGED <<slot, left>>
  \/ /\ ~Alive(slot.mount) /\ slot.in /\ mount = "live"
     /\ slot' = [slot EXCEPT !.mount = mount] /\ UNCHANGED left
  \/ /\ ~Alive(slot.mount) /\ mount = "none"
     /\ IF slot.in THEN Happens ELSE UNCHANGED left
     /\ slot' = [slot EXCEPT !.mount = mount]

\* What the supervisor and the hotplug thread do next, card_lock in hand.
Settles(t, idle, mount) ==
  IF Alive(mount) THEN Goes(t, "attaching") /\ locks' = [locks EXCEPT !.card = t]
                  ELSE Goes(t, idle) /\ Leaves("card")

Attaches(t, idle) ==
  /\ at[t] = "attaching"
  /\ player' \in Attached
  /\ Goes(t, idle) /\ Leaves("card")
  /\ UNCHANGED <<slot, watch, left>>

-----------------------------------------------------------------------------
(* storage_recheck_card(), of the supervisor. *)

supervisor_looks ==
  /\ at.supervisor = "asleep" /\ ~player.storage_active
  /\ Goes("supervisor", "waiting")
  /\ UNCHANGED <<slot, player, locks, watch, left>>

supervisor_locks ==
  /\ at.supervisor = "waiting"
  /\ \/ /\ player.card_released \/ Alive(slot.mount)
        /\ Passes("card") /\ Goes("supervisor", "asleep") /\ UNCHANGED player
     \/ /\ ~player.card_released /\ ~Alive(slot.mount) /\ ~slot.in
        /\ player' = Detached
        /\ Passes("card") /\ Goes("supervisor", "asleep")
     \/ /\ ~player.card_released /\ ~Alive(slot.mount) /\ slot.in
        /\ player' = Detached
        /\ Takes("card", "supervisor") /\ Goes("supervisor", "mounting")
  /\ UNCHANGED <<slot, watch, left>>

supervisor_mounts ==
  /\ at.supervisor = "mounting"
  /\ \E mount \in {"none", "live", slot.mount} : mount_sd(mount) /\ Settles("supervisor", "asleep", mount)
  /\ UNCHANGED <<player, watch>>

supervisor_attaches == Attaches("supervisor", "asleep")

-----------------------------------------------------------------------------
(* sd_hotplug_thread(). *)

Reads(event) ==
  /\ at.hotplug = "reading" /\ slot.uevents # <<>> /\ Head(slot.uevents) = event
  /\ slot' = [slot EXCEPT !.uevents = Tail(@)]

hotplug_adds_unasked ==
  /\ Reads("add")
  /\ Takes("card", "hotplug") /\ Goes("hotplug", "mounting")
  /\ UNCHANGED <<player, watch, left>>

hotplug_adds ==
  /\ Reads("add")
  /\ \/ player.card_released /\ Passes("card") /\ UNCHANGED at
     \/ ~player.card_released /\ Takes("card", "hotplug") /\ Goes("hotplug", "mounting")
  /\ UNCHANGED <<player, watch, left>>

hotplug_mounts ==
  /\ at.hotplug = "mounting"
  /\ \E mount \in {"none", "live", slot.mount} : mount_sd(mount) /\ Settles("hotplug", "reading", mount)
  /\ UNCHANGED <<player, watch>>

hotplug_attaches == Attaches("hotplug", "reading")

hotplug_removes ==
  /\ Reads("remove")
  /\ Takes("card", "hotplug") /\ Goes("hotplug", "unmounting")
  /\ player' = Detached
  /\ UNCHANGED <<watch, left>>

hotplug_unmounts ==
  /\ at.hotplug = "unmounting"
  /\ slot' = [slot EXCEPT !.mount = "none"]
  /\ Goes("hotplug", "reading") /\ Leaves("card")
  /\ UNCHANGED <<player, watch, left>>

-----------------------------------------------------------------------------
(* usb_thread(): the watcher of the cable. *)

watcher_wakes ==
  /\ at.watcher = "top" /\ ~player.dac_owns_usb
  /\ Goes("watcher", "looking")
  /\ UNCHANGED <<slot, player, locks, watch, left>>

Reconciled_believes(w) == IF w.seen THEN w ELSE [w EXCEPT !.seen = TRUE, !.await_unplug = FALSE]

\* What it knew belongs to the gadget that had the controller before, and a
\* card that was taken back is not exported any more.
Reconciled(w) ==
  LET met == IF w.seen THEN w ELSE [w EXCEPT !.seen = TRUE, !.await_unplug = FALSE] IN
    [met EXCEPT !.exported = @ /\ player.storage_active]

watcher_looks ==
  LET w == Reconciled(watch)
      ejected == slot.medium = "empty"                      \* host_ejected()
      Turns(where, next) == Goes("watcher", where) /\ watch' = next
  IN
  /\ at.watcher = "looking"
  /\ \/ /\ slot.cable = "none"
        /\ Turns(IF w.exported THEN "reclaiming" ELSE "top",
                 [w EXCEPT !.exported = FALSE, !.await_unplug = FALSE])
        /\ slot' = [slot EXCEPT !.offered = slot.in]
     \/ /\ slot.cable # "none" /\ w.exported /\ UNCHANGED slot
        /\ IF ejected THEN Turns("reclaiming", [w EXCEPT !.exported = FALSE, !.await_unplug = TRUE])
                      ELSE Turns("top", w)
     \/ /\ slot.cable # "none" /\ ~w.exported /\ UNCHANGED slot
        /\ Turns(IF slot.cable = "host" /\ ~w.await_unplug THEN "offering" ELSE "top", w)
  /\ UNCHANGED <<player, locks, left>>

\* locked_restore().
watcher_reclaims ==
  /\ at.watcher = "reclaiming"
  /\ IF player.storage_active THEN Takes("storage", "watcher") /\ Goes("watcher", "emptying")
                              ELSE Passes("storage") /\ Goes("watcher", "top")
  /\ UNCHANGED <<slot, player, watch, left>>

\* locked_export(), and storage_export(): the supervisor is told first.
watcher_offers ==
  /\ at.watcher = "offering"
  /\ Takes("storage", "watcher") /\ Goes("watcher", "closing")
  /\ player' = [player EXCEPT !.storage_active = TRUE]
  /\ UNCHANGED <<slot, watch, left>>

watcher_closes ==
  /\ at.watcher = "closing"
  /\ player' = [player EXCEPT !.library = "closed"]
  /\ Goes("watcher", "unmounting") /\ watch' = [watch EXCEPT !.attempt = 0]
  /\ UNCHANGED <<slot, locks, left>>

watcher_unmounts_again ==
  /\ \/ at.watcher = "unmounting" /\ UNCHANGED watch
     \/ /\ at.watcher = "retrying" /\ Mounted /\ ~player.dac_owns_usb
        /\ watch' = [watch EXCEPT !.attempt = @ + 1]
  /\ \E mount \in {"none", slot.mount} : slot' = [slot EXCEPT !.mount = mount]
  /\ Goes("watcher", "retrying")
  /\ UNCHANGED <<player, locks, left>>

\* A straggler may keep the card busy, but the last of the three attempts
\* that follow the first is lazy.
watcher_unmounts ==
  /\ \/ at.watcher = "unmounting" /\ UNCHANGED watch
     \/ /\ at.watcher = "retrying" /\ Mounted /\ watch.attempt < 3 /\ ~player.dac_owns_usb
        /\ watch' = [watch EXCEPT !.attempt = @ + 1]
  /\ \E mount \in {"none"} \cup (IF watch'.attempt < 3 THEN {slot.mount} ELSE {}) :
       slot' = [slot EXCEPT !.mount = mount]
  /\ Goes("watcher", "retrying")
  /\ UNCHANGED <<player, locks, left>>

watcher_abandons ==
  /\ at.watcher = "retrying" /\ player.dac_owns_usb
  /\ player' = [player EXCEPT !.storage_active = FALSE]
  /\ Leaves("storage") /\ Goes("watcher", "believing")
  /\ UNCHANGED <<slot, watch, left>>

watcher_goes_on_regardless ==
  /\ at.watcher = "retrying" /\ (~Mounted \/ watch.attempt = 3)
  /\ Goes("watcher", "inserting")
  /\ UNCHANGED <<slot, player, locks, watch, left>>

\* "exporting anyway", when it could not be unmounted.
watcher_goes_on ==
  /\ at.watcher = "retrying" /\ ~player.dac_owns_usb /\ (~Mounted \/ watch.attempt = 3)
  /\ Goes("watcher", "inserting")
  /\ UNCHANGED <<slot, player, locks, watch, left>>

watcher_inserts ==
  /\ at.watcher = "inserting"
  /\ slot' = [slot EXCEPT !.medium = IF slot.in THEN "card" ELSE "empty"]
  /\ Leaves("storage") /\ Goes("watcher", "believing")
  /\ UNCHANGED <<player, watch, left>>

watcher_believes ==
  /\ at.watcher = "believing"
  /\ watch' = [watch EXCEPT !.exported = player.storage_active]
  /\ Goes("watcher", "top")
  /\ UNCHANGED <<slot, player, locks, left>>

-----------------------------------------------------------------------------
(* storage_restore(), under storage_lock: of the watcher, and of DAC mode. *)

restore_empties(t) ==
  /\ at[t] = "emptying"
  /\ slot' = [slot EXCEPT !.medium = "empty"]
  /\ Goes(t, "dropping")
  /\ UNCHANGED <<player, locks, watch, left>>

restore_keeps(t) ==
  /\ at[t] = "dropping"
  /\ Goes(t, "remounting")
  /\ UNCHANGED <<slot, player, locks, watch, left>>

\* Whatever is mounted is a stale view of the card.
restore_drops(t) ==
  /\ at[t] = "dropping"
  /\ slot' = [slot EXCEPT !.mount = "none"]
  /\ Goes(t, "remounting")
  /\ UNCHANGED <<player, locks, watch, left>>

\* Here a dead mount would count as one that is up.
restore_remounts(t) ==
  /\ at[t] = "remounting"
  /\ \/ Mounted /\ UNCHANGED <<slot, left>>
     \/ ~Mounted /\ slot.in /\ slot' = [slot EXCEPT !.mount = "live"] /\ UNCHANGED left
     \/ /\ ~Mounted /\ UNCHANGED slot
        /\ IF slot.in THEN Happens ELSE UNCHANGED left
  /\ Goes(t, "reopening")
  /\ UNCHANGED <<player, locks, watch>>

restore_reopens(t, then) ==
  /\ at[t] = "reopening"
  /\ \E library \in Opened :
       player' = [player EXCEPT !.library = library, !.storage_active = FALSE]
  /\ Leaves("storage") /\ Goes(t, then)
  /\ UNCHANGED <<slot, watch, left>>

Restores(t, then) == restore_empties(t) \/ restore_drops(t) \/ restore_remounts(t) \/ restore_reopens(t, then)

-----------------------------------------------------------------------------
(* usb_set_dac_mode(). *)

dac_switches ==
  /\ at.dac = "settled" /\ Happens
  /\ \/ ~player.dac_owns_usb /\ Goes("dac", "taking")
     \/ player.dac_owns_usb /\ Goes("dac", "telling")
  /\ player' = [player EXCEPT !.dac_owns_usb = ~@]
  /\ slot' = [slot EXCEPT !.offered = slot.in]
  /\ UNCHANGED <<locks, watch>>

\* take_card_back().
dac_takes ==
  /\ at.dac = "taking"
  /\ IF player.storage_active THEN Takes("storage", "dac") /\ Goes("dac", "emptying")
                              ELSE Passes("storage") /\ Goes("dac", "telling")
  /\ UNCHANGED <<slot, player, watch, left>>

\* owner_changed().
dac_tells ==
  /\ at.dac = "telling"
  /\ Goes("dac", "settled")
  /\ watch' = [watch EXCEPT !.seen = FALSE]
  /\ UNCHANGED <<slot, player, locks, left>>

-----------------------------------------------------------------------------
(* storage_release_for_shutdown(). *)

power_releases ==
  /\ at.power = "on"
  /\ IF Mounted /\ ~player.storage_active
     THEN /\ Takes("card", "power") /\ Goes("power", "releasing")
          /\ player' = [Detached EXCEPT !.card_released = TRUE]
     ELSE /\ Passes("card") /\ Goes("power", "released")
          /\ player' = [player EXCEPT !.card_released = TRUE]
  /\ UNCHANGED <<slot, watch, left>>

\* Unmounted, or read-only, or neither, and then the log says why.
power_unmounts ==
  /\ at.power = "releasing"
  /\ \E mount \in {"none", slot.mount} \cup (IF Alive(slot.mount) THEN {"readonly"} ELSE {}) :
       slot' = [slot EXCEPT !.mount = mount]
  /\ Leaves("card") /\ Goes("power", "released")
  /\ UNCHANGED <<player, watch, left>>

-----------------------------------------------------------------------------
World == card_pulled \/ card_put_in \/ cable_moved \/ host_ejects \/ host_writes
Supervisor == supervisor_looks \/ supervisor_locks \/ supervisor_mounts \/ supervisor_attaches
Hotplug == hotplug_adds \/ hotplug_mounts \/ hotplug_attaches \/ hotplug_removes \/ hotplug_unmounts
Watcher == \/ watcher_wakes \/ watcher_looks \/ watcher_reclaims \/ watcher_offers
           \/ watcher_closes \/ watcher_unmounts \/ watcher_abandons \/ watcher_goes_on
           \/ watcher_inserts \/ watcher_believes \/ Restores("watcher", "top")
Dac == dac_takes \/ dac_tells \/ Restores("dac", "telling")
Power == power_releases \/ power_unmounts

Next == World \/ Supervisor \/ Hotplug \/ Watcher \/ dac_switches \/ Dac \/ Power

\* Each thread runs on, and gets the lock it waits for when that is free again
\* and again: the others hold it for a while every few seconds.
Fairness ==
  /\ SF_vars(Supervisor) /\ SF_vars(Hotplug) /\ SF_vars(Watcher) /\ SF_vars(Dac)
  /\ WF_vars(power_unmounts)

Spec == Init /\ [][Next]_vars /\ Fairness

-----------------------------------------------------------------------------
\* Every variable keeps its type, each lock has an owner that takes it, and no
\* live mount or exported medium is left of a card that is out.
TypeOK ==
  /\ slot \in [in : BOOLEAN, cable : {"none", "charger", "host"},
               medium : {"empty", "card", "gone"},
               mount : {"none", "live", "stale", "readonly", "dead"},
               uevents : Seq({"add", "remove"}), offered : BOOLEAN]
  /\ player \in [storage_active : BOOLEAN, card_attached : BOOLEAN,
                 library : {"closed", "card", "elsewhere"},
                 card_released : BOOLEAN, dac_owns_usb : BOOLEAN]
  /\ locks \in [card : {"nobody", "supervisor", "hotplug", "power"},
                storage : {"nobody", "watcher", "dac"}]
  /\ at \in [supervisor : {"asleep", "waiting", "mounting", "attaching"},
             hotplug : {"reading", "mounting", "attaching", "unmounting"},
             watcher : {"top", "looking", "reclaiming", "offering", "believing",
                        "closing", "unmounting", "retrying", "inserting",
                        "emptying", "dropping", "remounting", "reopening"},
             dac : {"settled", "taking", "telling",
                    "emptying", "dropping", "remounting", "reopening"},
             power : {"on", "releasing", "released"}]
  /\ watch \in [exported : BOOLEAN, await_unplug : BOOLEAN, seen : BOOLEAN, attempt : 0..3]
  /\ left \in 0..MaxEvents
  \* A card is in, or what was mounted of one is dead.
  /\ Alive(slot.mount) \/ slot.medium = "card" => slot.in

\* usb.c, at usb_set_dac_mode(): once DAC mode has the controller, the host
\* has no card of ours, whatever the watcher was in the middle of.
DacHasNoCard ==
  at.dac = "settled" /\ player.dac_owns_usb => slot.medium # "card"

\* usb.c, at storage_restore(): a computer may have written to the card, and
\* what was mounted before that is never what the player reads afterwards.
NoStaleView == slot.mount = "stale" => player.storage_active

\* system.c, at card_released: once the card has been let go of for the
\* power-off, it is not mounted again, unless a host gives it back.
ReleaseIsKept ==
  [][player.card_released /\ ~Alive(slot.mount) /\ Alive(slot'.mount) => player.storage_active]_vars

\* system.c, at the supervisor: however the card was lost, with the card in
\* and no cable it is mounted again, and nobody keeps the supervisor away.
CardComesBack ==
  <>[](slot.in /\ slot.cable = "none" /\ ~player.card_released)
    => <>[](slot.mount = "live" /\ ~player.storage_active)

\* usb.c, at usb_thread(): a host that stays is offered the card, though DAC
\* mode had the controller before, and an earlier host may have ejected it.
CardIsOffered ==
  <>[](slot.cable = "host" /\ slot.offered /\ ~player.dac_owns_usb)
    => <>[](slot.medium = "card")

\* What ends with the card where it belongs.
CardSettles == CardComesBack /\ CardIsOffered

\* usb.c:687: "From then on the PC and the player write to the same medium".
OneWriter == ~(slot.medium = "card" /\ slot.cable = "host" /\ slot.mount = "live")
=============================================================================
