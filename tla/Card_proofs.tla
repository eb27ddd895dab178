---------------------------- MODULE Card_proofs ----------------------------
(***************************************************************************)
(* The inductive invariant of Card and its theorems, however often the     *)
(* card and the cable are moved.                                           *)
(***************************************************************************)
EXTENDS Card, TLAPS

\* Where the watcher lends the card, where a restore has emptied the lun, and
\* where it has also dropped what was mounted.
Lending == {"closing", "unmounting", "retrying", "inserting"}
Emptied == {"dropping", "remounting", "reopening"}
Dropped == {"remounting", "reopening"}
Restoring == {"emptying"} \cup Emptied

SlotTypes ==
  /\ slot \in [in : BOOLEAN, cable : {"none", "charger", "host"},
               medium : {"empty", "card", "gone"},
               mount : {"none", "live", "stale", "readonly", "dead"},
               uevents : Seq({"add", "remove"}), offered : BOOLEAN]
  /\ Alive(slot.mount) \/ slot.medium = "card" => slot.in
PlayerType == [storage_active : BOOLEAN, card_attached : BOOLEAN,
               library : {"closed", "card", "elsewhere"},
               card_released : BOOLEAN, dac_owns_usb : BOOLEAN]
PlayerTypes ==
  /\ player \in PlayerType
  /\ locks \in [card : {"nobody", "supervisor", "hotplug", "power"},
                storage : {"nobody", "watcher", "dac"}]
ThreadTypes ==
  /\ at \in [supervisor : {"asleep", "waiting", "mounting", "attaching"},
             hotplug : {"reading", "mounting", "attaching", "unmounting"},
             watcher : {"top", "looking", "reclaiming", "offering", "believing"}
                         \cup Lending \cup Restoring,
             dac : {"settled", "taking", "telling"} \cup Restoring,
             power : {"on", "releasing", "released"}]
  /\ watch \in [exported : BOOLEAN, await_unplug : BOOLEAN, seen : BOOLEAN, attempt : 0..3]
  /\ left \in 0..MaxEvents

\* A lock is held at certain places, and only there.
CardLockShape ==
  /\ locks.card = "supervisor" <=> at.supervisor \in {"mounting", "attaching"}
  /\ locks.card = "hotplug" <=> at.hotplug \in {"mounting", "attaching", "unmounting"}
  /\ locks.card = "power" <=> at.power = "releasing"
StorageLockShape ==
  /\ locks.storage = "watcher" <=> at.watcher \in Lending \cup Restoring
  /\ locks.storage = "dac" <=> at.dac \in Restoring

\* The flag is up as long as the lock is held, and as long as a host has the
\* card or has written to it; the watcher that does not have the lock knows of
\* it, or is about to.
FlagShape ==
  /\ locks.storage # "nobody" => player.storage_active
  /\ slot.medium = "card" \/ slot.mount = "stale" => player.storage_active
  /\ player.storage_active /\ locks.storage # "watcher"
       => watch.exported \/ at.watcher \in {"reclaiming", "believing"}
  /\ at.watcher = "offering" => ~watch.exported

\* What is left to lend, and what a restore has done so far.
LendShape ==
  /\ at.watcher \in Lending => slot.medium # "card" /\ slot.mount # "stale"
  /\ \A t \in {"watcher", "dac"} :
       /\ at[t] \in Emptied => slot.medium # "card"
       /\ at[t] \in Dropped => slot.mount # "stale"

\* Once DAC mode has waited for the lock, nothing is put into the lun.
DacShape ==
  /\ at.dac \in {"taking"} \cup Restoring => player.dac_owns_usb
  /\ player.dac_owns_usb /\ at.dac \notin {"taking", "emptying"} => slot.medium # "card"
  /\ player.dac_owns_usb /\ at.dac # "taking" => at.watcher # "inserting"

\* Nobody is about to mount a card that has been released.
ReleaseShape == at.supervisor = "mounting" \/ at.hotplug = "mounting" => ~player.card_released

IInv ==
  /\ SlotTypes /\ PlayerTypes /\ ThreadTypes
  /\ CardLockShape /\ StorageLockShape
  /\ FlagShape /\ LendShape /\ DacShape /\ ReleaseShape
-----------------------------------------------------------------------------

\* What happens to the events keeps them events.
LEMMA EventsAreRead == ASSUME NEW s \in Seq({"add", "remove"}), s # <<>> PROVE Tail(s) \in Seq({"add", "remove"})
  OBVIOUS
LEMMA EventsAreQueued ==
  ASSUME NEW s \in Seq({"add", "remove"}), NEW e \in {"add", "remove"} PROVE s \o <<e, e>> \in Seq({"add", "remove"})
  <1>1. <<e, e>> \in Seq({"add", "remove"})
    OBVIOUS
  <1> QED
    BY <1>1

\* Closing the databases touches nothing else, and neither does opening them.
LEMMA DetachedIsClosed ==
  ASSUME PlayerTypes
  PROVE  /\ Detached \in PlayerType
         /\ Detached.storage_active = player.storage_active
         /\ Detached.card_released = player.card_released
         /\ Detached.dac_owns_usb = player.dac_owns_usb
  <1>1. CASE player.card_attached
    BY <1>1 DEF Detached, PlayerTypes, PlayerType
  <1>2. CASE ~player.card_attached
    BY <1>2 DEF Detached, PlayerTypes, PlayerType
  <1> QED
    BY <1>1, <1>2 DEF PlayerTypes, PlayerType
LEMMA OpenedIsLibrary == ASSUME PlayerTypes, SlotTypes PROVE Opened \subseteq {"closed", "card", "elsewhere"}
  <1>1. CASE player.library # "closed"
    BY <1>1 DEF Opened, PlayerTypes, PlayerType
  <1>2. CASE player.library = "closed"
    BY <1>2 DEF Opened, SlotTypes, Alive
  <1> QED
    BY <1>1, <1>2
LEMMA AttachedIsOpen ==
  ASSUME PlayerTypes, SlotTypes, NEW p \in Attached
  PROVE  /\ p \in PlayerType
         /\ p.storage_active = player.storage_active
         /\ p.card_released = player.card_released
         /\ p.dac_owns_usb = player.dac_owns_usb
  <1>1. CASE player.card_attached
    BY <1>1 DEF Attached, PlayerTypes, PlayerType
  <1>2. CASE ~player.card_attached
    <2>1. PICK library \in Opened : p = [player EXCEPT !.card_attached = TRUE, !.library = library]
      BY <1>2 DEF Attached
    <2>2. library \in {"closed", "card", "elsewhere"}
      BY OpenedIsLibrary
    <2> QED
      BY <2>1, <2>2 DEF PlayerTypes, PlayerType
  <1> QED
    BY <1>1, <1>2 DEF PlayerTypes, PlayerType

\* What the watcher knew, and no more than is so.
LEMMA ReconciledKnows ==
  ASSUME player.storage_active \in BOOLEAN,
         NEW w \in [exported : BOOLEAN, await_unplug : BOOLEAN, seen : BOOLEAN, attempt : 0..3]
  PROVE  /\ Reconciled(w) \in [exported : BOOLEAN, await_unplug : BOOLEAN, seen : BOOLEAN, attempt : 0..3]
         /\ Reconciled(w).exported = (w.exported /\ player.storage_active)
  <1>1. CASE w.seen
    BY <1>1 DEF Reconciled
  <1>2. CASE ~w.seen
    BY <1>2 DEF Reconciled
  <1> QED
    BY <1>1, <1>2
-----------------------------------------------------------------------------

\* A card that is pulled leaves a dead mount, and a lun whose medium is gone.
LEMMA CardPulled == ASSUME IInv, card_pulled PROVE IInv'
  <1> USE EventsAssumption DEF IInv, card_pulled, Happens, Goes, Alive, Mounted, Lending, Emptied, Dropped, Restoring
  <1>1. SlotTypes'
    <2>1. slot.uevents \o <<"remove", "remove">> \in Seq({"add", "remove"})
      BY EventsAreQueued DEF SlotTypes
    <2> QED
      BY <2>1 DEF SlotTypes
  <1>2. PlayerTypes'
    BY DEF PlayerTypes, PlayerType
  <1>3. ThreadTypes'
    BY DEF ThreadTypes
  <1>4. CardLockShape' /\ StorageLockShape'
    BY DEF CardLockShape, StorageLockShape, PlayerTypes, ThreadTypes
  <1>5. FlagShape' /\ LendShape'
    BY DEF FlagShape, LendShape, StorageLockShape, SlotTypes, PlayerTypes, ThreadTypes, PlayerType
  <1>6. DacShape' /\ ReleaseShape'
    BY DEF DacShape, ReleaseShape, FlagShape, LendShape, CardLockShape, StorageLockShape, SlotTypes, PlayerTypes, ThreadTypes, PlayerType
  <1> QED
    BY <1>1, <1>2, <1>3, <1>4, <1>5, <1>6

\* A card put in is not mounted yet.
LEMMA CardPutIn == ASSUME IInv, card_put_in PROVE IInv'
  <1> USE EventsAssumption DEF IInv, card_put_in, Happens, Goes, Alive, Mounted, Lending, Emptied, Dropped, Restoring
  <1>1. SlotTypes'
    <2>1. slot.uevents \o <<"add", "add">> \in Seq({"add", "remove"})
      BY EventsAreQueued DEF SlotTypes
    <2> QED
      BY <2>1 DEF SlotTypes
  <1>2. PlayerTypes'
    BY DEF PlayerTypes, PlayerType
  <1>3. ThreadTypes'
    BY DEF ThreadTypes
  <1>4. CardLockShape' /\ StorageLockShape'
    BY DEF CardLockShape, StorageLockShape, PlayerTypes, ThreadTypes
  <1>5. FlagShape' /\ LendShape'
    BY DEF FlagShape, LendShape, StorageLockShape, SlotTypes, PlayerTypes, ThreadTypes, PlayerType
  <1>6. DacShape' /\ ReleaseShape'
    BY DEF DacShape, ReleaseShape, FlagShape, LendShape, CardLockShape, StorageLockShape, SlotTypes, PlayerTypes, ThreadTypes, PlayerType
  <1> QED
    BY <1>1, <1>2, <1>3, <1>4, <1>5, <1>6

\* A cable that is moved tells nobody yet.
LEMMA CableMoved == ASSUME IInv, cable_moved PROVE IInv'
  <1> USE EventsAssumption DEF IInv, cable_moved, Happens, Goes, Alive, Mounted, Lending, Emptied, Dropped, Restoring
  <1>1. SlotTypes'
    BY DEF SlotTypes
  <1>2. PlayerTypes'
    BY DEF PlayerTypes, PlayerType
  <1>3. ThreadTypes'
    BY DEF ThreadTypes
  <1>4. CardLockShape' /\ StorageLockShape'
    BY DEF CardLockShape, StorageLockShape, PlayerTypes, ThreadTypes
  <1>5. FlagShape' /\ LendShape'
    BY DEF FlagShape, LendShape, StorageLockShape, SlotTypes, PlayerTypes, ThreadTypes, PlayerType
  <1>6. DacShape' /\ ReleaseShape'
    BY DEF DacShape, ReleaseShape, FlagShape, LendShape, CardLockShape, StorageLockShape, SlotTypes, PlayerTypes, ThreadTypes, PlayerType
  <1> QED
    BY <1>1, <1>2, <1>3, <1>4, <1>5, <1>6

\* An ejected lun is empty, which no shape forbids.
LEMMA HostEjects == ASSUME IInv, host_ejects PROVE IInv'
  <1> USE EventsAssumption DEF IInv, host_ejects, Happens, Goes, Alive, Mounted, Lending, Emptied, Dropped, Restoring
  <1>1. SlotTypes'
    BY DEF SlotTypes
  <1>2. PlayerTypes'
    BY DEF PlayerTypes, PlayerType
  <1>3. ThreadTypes'
    BY DEF ThreadTypes
  <1>4. CardLockShape' /\ StorageLockShape'
    BY DEF CardLockShape, StorageLockShape, PlayerTypes, ThreadTypes
  <1>5. FlagShape' /\ LendShape'
    BY DEF FlagShape, LendShape, StorageLockShape, SlotTypes, PlayerTypes, ThreadTypes, PlayerType
  <1>6. DacShape' /\ ReleaseShape'
    BY DEF DacShape, ReleaseShape, FlagShape, LendShape, CardLockShape, StorageLockShape, SlotTypes, PlayerTypes, ThreadTypes, PlayerType
  <1> QED
    BY <1>1, <1>2, <1>3, <1>4, <1>5, <1>6

\* A host writes only to what it was lent, and then the flag is up and no restore has come to the lun.
LEMMA HostWrites == ASSUME IInv, host_writes PROVE IInv'
  <1> USE EventsAssumption DEF IInv, host_writes, Happens, Goes, Alive, Mounted, Lending, Emptied, Dropped, Restoring
  <1>1. SlotTypes'
    BY DEF SlotTypes
  <1>2. PlayerTypes'
    BY DEF PlayerTypes, PlayerType
  <1>3. ThreadTypes'
    BY DEF ThreadTypes
  <1>4. CardLockShape' /\ StorageLockShape'
    BY DEF CardLockShape, StorageLockShape, PlayerTypes, ThreadTypes
  <1>5. FlagShape' /\ LendShape'
    BY DEF FlagShape, LendShape, StorageLockShape, SlotTypes, PlayerTypes, ThreadTypes, PlayerType
  <1>6. DacShape' /\ ReleaseShape'
    BY DEF DacShape, ReleaseShape, FlagShape, LendShape, CardLockShape, StorageLockShape, SlotTypes, PlayerTypes, ThreadTypes, PlayerType
  <1> QED
    BY <1>1, <1>2, <1>3, <1>4, <1>5, <1>6

\* A look changes nothing but the supervisor.
LEMMA SupervisorLooks == ASSUME IInv, supervisor_looks PROVE IInv'
  <1> USE EventsAssumption DEF IInv, supervisor_looks, Happens, Goes, Alive, Mounted, Lending, Emptied, Dropped, Restoring
  <1>1. SlotTypes'
    BY DEF SlotTypes
  <1>2. PlayerTypes'
    BY DEF PlayerTypes, PlayerType
  <1>3. ThreadTypes'
    BY DEF ThreadTypes
  <1>4. CardLockShape' /\ StorageLockShape'
    BY DEF CardLockShape, StorageLockShape, PlayerTypes, ThreadTypes
  <1>5. FlagShape' /\ LendShape'
    BY DEF FlagShape, LendShape, StorageLockShape, SlotTypes, PlayerTypes, ThreadTypes, PlayerType
  <1>6. DacShape' /\ ReleaseShape'
    BY DEF DacShape, ReleaseShape, FlagShape, LendShape, CardLockShape, StorageLockShape, SlotTypes, PlayerTypes, ThreadTypes, PlayerType
  <1> QED
    BY <1>1, <1>2, <1>3, <1>4, <1>5, <1>6

\* Whoever goes on to mount has the lock and has seen that the card is not released.
LEMMA SupervisorLocks == ASSUME IInv, supervisor_locks PROVE IInv'
  <1> USE EventsAssumption DEF IInv, supervisor_locks, Takes, Leaves, Passes, Happens, Goes, Alive, Mounted, Lending, Emptied, Dropped, Restoring
  <1>0. /\ Detached \in PlayerType /\ Detached.storage_active = player.storage_active
        /\ Detached.card_released = player.card_released /\ Detached.dac_owns_usb = player.dac_owns_usb
    BY DetachedIsClosed
  <1>1. SlotTypes'
    BY DEF SlotTypes
  <1>2. PlayerTypes'
    BY <1>0 DEF PlayerTypes
  <1>3. ThreadTypes'
    BY DEF ThreadTypes
  <1>4. CardLockShape' /\ StorageLockShape'
    BY DEF CardLockShape, StorageLockShape, PlayerTypes, ThreadTypes
  <1>5. FlagShape' /\ LendShape'
    BY <1>0 DEF FlagShape, LendShape, StorageLockShape, SlotTypes, PlayerTypes, ThreadTypes
  <1>6. DacShape' /\ ReleaseShape'
    BY <1>0 DEF DacShape, ReleaseShape, FlagShape, LendShape, CardLockShape, StorageLockShape, SlotTypes, PlayerTypes, ThreadTypes
  <1> QED
    BY <1>1, <1>2, <1>3, <1>4, <1>5, <1>6

\* A mount that comes up is live, and the card is in.
LEMMA SupervisorMounts == ASSUME IInv, supervisor_mounts PROVE IInv'
  <1> USE EventsAssumption DEF IInv, supervisor_mounts, Settles, mount_sd, Leaves, Happens, Happens, Goes, Alive, Mounted, Lending, Emptied, Dropped, Restoring
  <1>1. SlotTypes'
    BY DEF SlotTypes
  <1>2. PlayerTypes'
    BY DEF PlayerTypes, PlayerType
  <1>3. ThreadTypes'
    BY DEF ThreadTypes
  <1>4. CardLockShape' /\ StorageLockShape'
    BY DEF CardLockShape, StorageLockShape, PlayerTypes, ThreadTypes
  <1>5. FlagShape' /\ LendShape'
    BY DEF FlagShape, LendShape, StorageLockShape, SlotTypes, PlayerTypes, ThreadTypes, PlayerType
  <1>6. DacShape' /\ ReleaseShape'
    BY DEF DacShape, ReleaseShape, FlagShape, LendShape, CardLockShape, StorageLockShape, SlotTypes, PlayerTypes, ThreadTypes, PlayerType
  <1> QED
    BY <1>1, <1>2, <1>3, <1>4, <1>5, <1>6

\* The lock is let go of when the databases are open.
LEMMA SupervisorAttaches == ASSUME IInv, supervisor_attaches PROVE IInv'
  <1> USE EventsAssumption DEF IInv, supervisor_attaches, Attaches, Leaves, Happens, Goes, Alive, Mounted, Lending, Emptied, Dropped, Restoring
  <1>0. /\ player' \in PlayerType /\ player'.storage_active = player.storage_active
        /\ player'.card_released = player.card_released /\ player'.dac_owns_usb = player.dac_owns_usb
    BY AttachedIsOpen
  <1>1. SlotTypes'
    BY DEF SlotTypes
  <1>2. PlayerTypes'
    BY <1>0 DEF PlayerTypes
  <1>3. ThreadTypes'
    BY DEF ThreadTypes
  <1>4. CardLockShape' /\ StorageLockShape'
    BY DEF CardLockShape, StorageLockShape, PlayerTypes, ThreadTypes
  <1>5. FlagShape' /\ LendShape'
    BY <1>0 DEF FlagShape, LendShape, StorageLockShape, SlotTypes, PlayerTypes, ThreadTypes
  <1>6. DacShape' /\ ReleaseShape'
    BY <1>0 DEF DacShape, ReleaseShape, FlagShape, LendShape, CardLockShape, StorageLockShape, SlotTypes, PlayerTypes, ThreadTypes
  <1> QED
    BY <1>1, <1>2, <1>3, <1>4, <1>5, <1>6

\* The hotplug thread asks for the release too.
LEMMA HotplugAdds == ASSUME IInv, hotplug_adds PROVE IInv'
  <1> USE EventsAssumption DEF IInv, hotplug_adds, Reads, Takes, Passes, Happens, Goes, Alive, Mounted, Lending, Emptied, Dropped, Restoring
  <1>1. SlotTypes'
    <2>1. Tail(slot.uevents) \in Seq({"add", "remove"})
      BY EventsAreRead DEF SlotTypes
    <2> QED
      BY <2>1 DEF SlotTypes
  <1>2. PlayerTypes'
    BY DEF PlayerTypes, PlayerType
  <1>3. ThreadTypes'
    BY DEF ThreadTypes
  <1>4. CardLockShape' /\ StorageLockShape'
    BY DEF CardLockShape, StorageLockShape, PlayerTypes, ThreadTypes
  <1>5. FlagShape' /\ LendShape'
    BY DEF FlagShape, LendShape, StorageLockShape, SlotTypes, PlayerTypes, ThreadTypes, PlayerType
  <1>6. DacShape' /\ ReleaseShape'
    BY DEF DacShape, ReleaseShape, FlagShape, LendShape, CardLockShape, StorageLockShape, SlotTypes, PlayerTypes, ThreadTypes, PlayerType
  <1> QED
    BY <1>1, <1>2, <1>3, <1>4, <1>5, <1>6

\* A mount that comes up is live, and the card is in.
LEMMA HotplugMounts == ASSUME IInv, hotplug_mounts PROVE IInv'
  <1> USE EventsAssumption DEF IInv, hotplug_mounts, Settles, mount_sd, Leaves, Happens, Happens, Goes, Alive, Mounted, Lending, Emptied, Dropped, Restoring
  <1>1. SlotTypes'
    BY DEF SlotTypes
  <1>2. PlayerTypes'
    BY DEF PlayerTypes, PlayerType
  <1>3. ThreadTypes'
    BY DEF ThreadTypes
  <1>4. CardLockShape' /\ StorageLockShape'
    BY DEF CardLockShape, StorageLockShape, PlayerTypes, ThreadTypes
  <1>5. FlagShape' /\ LendShape'
    BY DEF FlagShape, LendShape, StorageLockShape, SlotTypes, PlayerTypes, ThreadTypes, PlayerType
  <1>6. DacShape' /\ ReleaseShape'
    BY DEF DacShape, ReleaseShape, FlagShape, LendShape, CardLockShape, StorageLockShape, SlotTypes, PlayerTypes, ThreadTypes, PlayerType
  <1> QED
    BY <1>1, <1>2, <1>3, <1>4, <1>5, <1>6

\* The lock is let go of when the databases are open.
LEMMA HotplugAttaches == ASSUME IInv, hotplug_attaches PROVE IInv'
  <1> USE EventsAssumption DEF IInv, hotplug_attaches, Attaches, Leaves, Happens, Goes, Alive, Mounted, Lending, Emptied, Dropped, Restoring
  <1>0. /\ player' \in PlayerType /\ player'.storage_active = player.storage_active
        /\ player'.card_released = player.card_released /\ player'.dac_owns_usb = player.dac_owns_usb
    BY AttachedIsOpen
  <1>1. SlotTypes'
    BY DEF SlotTypes
  <1>2. PlayerTypes'
    BY <1>0 DEF PlayerTypes
  <1>3. ThreadTypes'
    BY DEF ThreadTypes
  <1>4. CardLockShape' /\ StorageLockShape'
    BY DEF CardLockShape, StorageLockShape, PlayerTypes, ThreadTypes
  <1>5. FlagShape' /\ LendShape'
    BY <1>0 DEF FlagShape, LendShape, StorageLockShape, SlotTypes, PlayerTypes, ThreadTypes
  <1>6. DacShape' /\ ReleaseShape'
    BY <1>0 DEF DacShape, ReleaseShape, FlagShape, LendShape, CardLockShape, StorageLockShape, SlotTypes, PlayerTypes, ThreadTypes
  <1> QED
    BY <1>1, <1>2, <1>3, <1>4, <1>5, <1>6

\* The databases are closed before the mount goes.
LEMMA HotplugRemoves == ASSUME IInv, hotplug_removes PROVE IInv'
  <1> USE EventsAssumption DEF IInv, hotplug_removes, Reads, Takes, Happens, Goes, Alive, Mounted, Lending, Emptied, Dropped, Restoring
  <1>0. /\ Detached \in PlayerType /\ Detached.storage_active = player.storage_active
        /\ Detached.card_released = player.card_released /\ Detached.dac_owns_usb = player.dac_owns_usb
    BY DetachedIsClosed
  <1>1. SlotTypes'
    <2>1. Tail(slot.uevents) \in Seq({"add", "remove"})
      BY EventsAreRead DEF SlotTypes
    <2> QED
      BY <2>1 DEF SlotTypes
  <1>2. PlayerTypes'
    BY <1>0 DEF PlayerTypes
  <1>3. ThreadTypes'
    BY DEF ThreadTypes
  <1>4. CardLockShape' /\ StorageLockShape'
    BY DEF CardLockShape, StorageLockShape, PlayerTypes, ThreadTypes
  <1>5. FlagShape' /\ LendShape'
    BY <1>0 DEF FlagShape, LendShape, StorageLockShape, SlotTypes, PlayerTypes, ThreadTypes
  <1>6. DacShape' /\ ReleaseShape'
    BY <1>0 DEF DacShape, ReleaseShape, FlagShape, LendShape, CardLockShape, StorageLockShape, SlotTypes, PlayerTypes, ThreadTypes
  <1> QED
    BY <1>1, <1>2, <1>3, <1>4, <1>5, <1>6

\* Nothing is mounted after that, stale or not.
LEMMA HotplugUnmounts == ASSUME IInv, hotplug_unmounts PROVE IInv'
  <1> USE EventsAssumption DEF IInv, hotplug_unmounts, Leaves, Happens, Goes, Alive, Mounted, Lending, Emptied, Dropped, Restoring
  <1>1. SlotTypes'
    BY DEF SlotTypes
  <1>2. PlayerTypes'
    BY DEF PlayerTypes, PlayerType
  <1>3. ThreadTypes'
    BY DEF ThreadTypes
  <1>4. CardLockShape' /\ StorageLockShape'
    BY DEF CardLockShape, StorageLockShape, PlayerTypes, ThreadTypes
  <1>5. FlagShape' /\ LendShape'
    BY DEF FlagShape, LendShape, StorageLockShape, SlotTypes, PlayerTypes, ThreadTypes, PlayerType
  <1>6. DacShape' /\ ReleaseShape'
    BY DEF DacShape, ReleaseShape, FlagShape, LendShape, CardLockShape, StorageLockShape, SlotTypes, PlayerTypes, ThreadTypes, PlayerType
  <1> QED
    BY <1>1, <1>2, <1>3, <1>4, <1>5, <1>6

\* A wake changes nothing but the watcher.
LEMMA WatcherWakes == ASSUME IInv, watcher_wakes PROVE IInv'
  <1> USE EventsAssumption DEF IInv, watcher_wakes, Happens, Goes, Alive, Mounted, Lending, Emptied, Dropped, Restoring
  <1>1. SlotTypes'
    BY DEF SlotTypes
  <1>2. PlayerTypes'
    BY DEF PlayerTypes, PlayerType
  <1>3. ThreadTypes'
    BY DEF ThreadTypes
  <1>4. CardLockShape' /\ StorageLockShape'
    BY DEF CardLockShape, StorageLockShape, PlayerTypes, ThreadTypes
  <1>5. FlagShape' /\ LendShape'
    BY DEF FlagShape, LendShape, StorageLockShape, SlotTypes, PlayerTypes, ThreadTypes, PlayerType
  <1>6. DacShape' /\ ReleaseShape'
    BY DEF DacShape, ReleaseShape, FlagShape, LendShape, CardLockShape, StorageLockShape, SlotTypes, PlayerTypes, ThreadTypes, PlayerType
  <1> QED
    BY <1>1, <1>2, <1>3, <1>4, <1>5, <1>6

\* What the watcher forgets as it looks, it goes on to reclaim, or is no longer so.
LEMMA WatcherLooks == ASSUME IInv, watcher_looks PROVE IInv'
  <1> USE EventsAssumption DEF IInv, watcher_looks, Happens, Goes, Alive, Mounted, Lending, Emptied, Dropped, Restoring
  <1>0. /\ Reconciled(watch) \in [exported : BOOLEAN, await_unplug : BOOLEAN, seen : BOOLEAN, attempt : 0..3]
        /\ Reconciled(watch).exported = (watch.exported /\ player.storage_active)
    BY ReconciledKnows DEF PlayerTypes, ThreadTypes, PlayerType
  <1>1. SlotTypes'
    BY DEF SlotTypes
  <1>2. PlayerTypes'
    BY <1>0 DEF PlayerTypes, PlayerType
  <1>3. ThreadTypes'
    BY <1>0, ZenonT(40) DEF ThreadTypes
  <1>4. CardLockShape' /\ StorageLockShape'
    BY DEF CardLockShape, StorageLockShape, PlayerTypes, ThreadTypes
  <1>5. FlagShape' /\ LendShape'
    BY <1>0 DEF FlagShape, LendShape, StorageLockShape, SlotTypes, PlayerTypes, ThreadTypes, PlayerType
  <1>6. DacShape' /\ ReleaseShape'
    BY <1>0 DEF DacShape, ReleaseShape, FlagShape, LendShape, CardLockShape, StorageLockShape, SlotTypes, PlayerTypes, ThreadTypes, PlayerType
  <1> QED
    BY <1>1, <1>2, <1>3, <1>4, <1>5, <1>6

\* Nothing is restored that was not lent.
LEMMA WatcherReclaims == ASSUME IInv, watcher_reclaims PROVE IInv'
  <1> USE EventsAssumption DEF IInv, watcher_reclaims, Takes, Passes, Happens, Goes, Alive, Mounted, Lending, Emptied, Dropped, Restoring
  <1>1. SlotTypes'
    BY DEF SlotTypes
  <1>2. PlayerTypes'
    BY DEF PlayerTypes, PlayerType
  <1>3. ThreadTypes'
    BY DEF ThreadTypes
  <1>4. CardLockShape' /\ StorageLockShape'
    BY DEF CardLockShape, StorageLockShape, PlayerTypes, ThreadTypes
  <1>5. FlagShape' /\ LendShape'
    BY DEF FlagShape, LendShape, StorageLockShape, SlotTypes, PlayerTypes, ThreadTypes, PlayerType
  <1>6. DacShape' /\ ReleaseShape'
    BY DEF DacShape, ReleaseShape, FlagShape, LendShape, CardLockShape, StorageLockShape, SlotTypes, PlayerTypes, ThreadTypes, PlayerType
  <1> QED
    BY <1>1, <1>2, <1>3, <1>4, <1>5, <1>6

\* What is offered was not exported: with the lock free, the flag was down, the lun without card and the mount not stale.
LEMMA WatcherOffers == ASSUME IInv, watcher_offers PROVE IInv'
  <1> USE EventsAssumption DEF IInv, watcher_offers, Takes, Happens, Goes, Alive, Mounted, Lending, Emptied, Dropped, Restoring
  <1>1. SlotTypes'
    BY DEF SlotTypes
  <1>2. PlayerTypes'
    BY DEF PlayerTypes, PlayerType
  <1>3. ThreadTypes'
    BY DEF ThreadTypes
  <1>4. CardLockShape' /\ StorageLockShape'
    BY DEF CardLockShape, StorageLockShape, PlayerTypes, ThreadTypes
  <1>5. FlagShape' /\ LendShape'
    BY DEF FlagShape, LendShape, StorageLockShape, SlotTypes, PlayerTypes, ThreadTypes, PlayerType
  <1>6. DacShape' /\ ReleaseShape'
    BY DEF DacShape, ReleaseShape, FlagShape, LendShape, CardLockShape, StorageLockShape, SlotTypes, PlayerTypes, ThreadTypes, PlayerType
  <1> QED
    BY <1>1, <1>2, <1>3, <1>4, <1>5, <1>6

\* Only the library is closed.
LEMMA WatcherCloses == ASSUME IInv, watcher_closes PROVE IInv'
  <1> USE EventsAssumption DEF IInv, watcher_closes, Happens, Goes, Alive, Mounted, Lending, Emptied, Dropped, Restoring
  <1>1. SlotTypes'
    BY DEF SlotTypes
  <1>2. PlayerTypes'
    BY DEF PlayerTypes, PlayerType
  <1>3. ThreadTypes'
    BY DEF ThreadTypes
  <1>4. CardLockShape' /\ StorageLockShape'
    BY DEF CardLockShape, StorageLockShape, PlayerTypes, ThreadTypes
  <1>5. FlagShape' /\ LendShape'
    BY DEF FlagShape, LendShape, StorageLockShape, SlotTypes, PlayerTypes, ThreadTypes, PlayerType
  <1>6. DacShape' /\ ReleaseShape'
    BY DEF DacShape, ReleaseShape, FlagShape, LendShape, CardLockShape, StorageLockShape, SlotTypes, PlayerTypes, ThreadTypes, PlayerType
  <1> QED
    BY <1>1, <1>2, <1>3, <1>4, <1>5, <1>6

\* An attempt to unmount leaves the mount or none.
LEMMA WatcherUnmounts == ASSUME IInv, watcher_unmounts PROVE IInv'
  <1> USE EventsAssumption DEF IInv, watcher_unmounts, Happens, Goes, Alive, Mounted, Lending, Emptied, Dropped, Restoring
  <1>1. SlotTypes'
    BY DEF SlotTypes
  <1>2. PlayerTypes'
    BY DEF PlayerTypes, PlayerType
  <1>3. ThreadTypes'
    BY DEF ThreadTypes
  <1>4. CardLockShape' /\ StorageLockShape'
    BY DEF CardLockShape, StorageLockShape, PlayerTypes, ThreadTypes
  <1>5. FlagShape' /\ LendShape'
    BY DEF FlagShape, LendShape, StorageLockShape, SlotTypes, PlayerTypes, ThreadTypes, PlayerType
  <1>6. DacShape' /\ ReleaseShape'
    BY DEF DacShape, ReleaseShape, FlagShape, LendShape, CardLockShape, StorageLockShape, SlotTypes, PlayerTypes, ThreadTypes, PlayerType
  <1> QED
    BY <1>1, <1>2, <1>3, <1>4, <1>5, <1>6

\* The flag may go down, for the lun is empty and the mount is not stale.
LEMMA WatcherAbandons == ASSUME IInv, watcher_abandons PROVE IInv'
  <1> USE EventsAssumption DEF IInv, watcher_abandons, Leaves, Happens, Goes, Alive, Mounted, Lending, Emptied, Dropped, Restoring
  <1>1. SlotTypes'
    BY DEF SlotTypes
  <1>2. PlayerTypes'
    BY DEF PlayerTypes, PlayerType
  <1>3. ThreadTypes'
    BY DEF ThreadTypes
  <1>4. CardLockShape' /\ StorageLockShape'
    BY DEF CardLockShape, StorageLockShape, PlayerTypes, ThreadTypes
  <1>5. FlagShape' /\ LendShape'
    BY DEF FlagShape, LendShape, StorageLockShape, SlotTypes, PlayerTypes, ThreadTypes, PlayerType
  <1>6. DacShape' /\ ReleaseShape'
    BY DEF DacShape, ReleaseShape, FlagShape, LendShape, CardLockShape, StorageLockShape, SlotTypes, PlayerTypes, ThreadTypes, PlayerType
  <1> QED
    BY <1>1, <1>2, <1>3, <1>4, <1>5, <1>6

\* The watcher goes on to the lun only while DAC mode has not taken the controller.
LEMMA WatcherGoesOn == ASSUME IInv, watcher_goes_on PROVE IInv'
  <1> USE EventsAssumption DEF IInv, watcher_goes_on, Happens, Goes, Alive, Mounted, Lending, Emptied, Dropped, Restoring
  <1>1. SlotTypes'
    BY DEF SlotTypes
  <1>2. PlayerTypes'
    BY DEF PlayerTypes, PlayerType
  <1>3. ThreadTypes'
    BY DEF ThreadTypes
  <1>4. CardLockShape' /\ StorageLockShape'
    BY DEF CardLockShape, StorageLockShape, PlayerTypes, ThreadTypes
  <1>5. FlagShape' /\ LendShape'
    BY DEF FlagShape, LendShape, StorageLockShape, SlotTypes, PlayerTypes, ThreadTypes, PlayerType
  <1>6. DacShape' /\ ReleaseShape'
    BY DEF DacShape, ReleaseShape, FlagShape, LendShape, CardLockShape, StorageLockShape, SlotTypes, PlayerTypes, ThreadTypes, PlayerType
  <1> QED
    BY <1>1, <1>2, <1>3, <1>4, <1>5, <1>6

\* The card goes into the lun while the flag is up, and DAC mode still waits for the lock.
LEMMA WatcherInserts == ASSUME IInv, watcher_inserts PROVE IInv'
  <1> USE EventsAssumption DEF IInv, watcher_inserts, Leaves, Happens, Goes, Alive, Mounted, Lending, Emptied, Dropped, Restoring
  <1>1. SlotTypes'
    BY DEF SlotTypes
  <1>2. PlayerTypes'
    BY DEF PlayerTypes, PlayerType
  <1>3. ThreadTypes'
    BY DEF ThreadTypes
  <1>4. CardLockShape' /\ StorageLockShape'
    BY DEF CardLockShape, StorageLockShape, PlayerTypes, ThreadTypes
  <1>5. FlagShape' /\ LendShape'
    BY DEF FlagShape, LendShape, StorageLockShape, SlotTypes, PlayerTypes, ThreadTypes, PlayerType
  <1>6. DacShape' /\ ReleaseShape'
    BY DEF DacShape, ReleaseShape, FlagShape, LendShape, CardLockShape, StorageLockShape, SlotTypes, PlayerTypes, ThreadTypes, PlayerType
  <1> QED
    BY <1>1, <1>2, <1>3, <1>4, <1>5, <1>6

\* From here on the watcher knows what it has lent.
LEMMA WatcherBelieves == ASSUME IInv, watcher_believes PROVE IInv'
  <1> USE EventsAssumption DEF IInv, watcher_believes, Happens, Goes, Alive, Mounted, Lending, Emptied, Dropped, Restoring
  <1>1. SlotTypes'
    BY DEF SlotTypes
  <1>2. PlayerTypes'
    BY DEF PlayerTypes, PlayerType
  <1>3. ThreadTypes'
    <2>1. player.storage_active \in BOOLEAN
      BY DEF PlayerTypes, PlayerType
    <2> QED
      BY <2>1 DEF ThreadTypes
  <1>4. CardLockShape' /\ StorageLockShape'
    BY DEF CardLockShape, StorageLockShape, PlayerTypes, ThreadTypes
  <1>5. FlagShape' /\ LendShape'
    BY DEF FlagShape, LendShape, StorageLockShape, SlotTypes, PlayerTypes, ThreadTypes, PlayerType
  <1>6. DacShape' /\ ReleaseShape'
    BY DEF DacShape, ReleaseShape, FlagShape, LendShape, CardLockShape, StorageLockShape, SlotTypes, PlayerTypes, ThreadTypes, PlayerType
  <1> QED
    BY <1>1, <1>2, <1>3, <1>4, <1>5, <1>6

\* The lun is emptied first, so that no host writes any more.
LEMMA RestoreEmpties == ASSUME IInv, NEW t \in {"watcher", "dac"}, restore_empties(t) PROVE IInv'
  <1> USE EventsAssumption DEF IInv, restore_empties, Happens, Goes, Alive, Mounted, Lending, Emptied, Dropped, Restoring
  <1>1. SlotTypes'
    BY DEF SlotTypes
  <1>2. PlayerTypes'
    BY DEF PlayerTypes, PlayerType
  <1>3. ThreadTypes'
    BY DEF ThreadTypes
  <1>4. CardLockShape' /\ StorageLockShape'
    BY DEF CardLockShape, StorageLockShape, PlayerTypes, ThreadTypes
  <1>5. FlagShape' /\ LendShape'
    BY DEF FlagShape, LendShape, StorageLockShape, SlotTypes, PlayerTypes, ThreadTypes, PlayerType
  <1>6. DacShape' /\ ReleaseShape'
    BY DEF DacShape, ReleaseShape, FlagShape, LendShape, CardLockShape, StorageLockShape, SlotTypes, PlayerTypes, ThreadTypes, PlayerType
  <1> QED
    BY <1>1, <1>2, <1>3, <1>4, <1>5, <1>6

\* Then the stale view goes.
LEMMA RestoreDrops == ASSUME IInv, NEW t \in {"watcher", "dac"}, restore_drops(t) PROVE IInv'
  <1> USE EventsAssumption DEF IInv, restore_drops, Happens, Goes, Alive, Mounted, Lending, Emptied, Dropped, Restoring
  <1>1. SlotTypes'
    BY DEF SlotTypes
  <1>2. PlayerTypes'
    BY DEF PlayerTypes, PlayerType
  <1>3. ThreadTypes'
    BY DEF ThreadTypes
  <1>4. CardLockShape' /\ StorageLockShape'
    BY DEF CardLockShape, StorageLockShape, PlayerTypes, ThreadTypes
  <1>5. FlagShape' /\ LendShape'
    BY DEF FlagShape, LendShape, StorageLockShape, SlotTypes, PlayerTypes, ThreadTypes, PlayerType
  <1>6. DacShape' /\ ReleaseShape'
    BY DEF DacShape, ReleaseShape, FlagShape, LendShape, CardLockShape, StorageLockShape, SlotTypes, PlayerTypes, ThreadTypes, PlayerType
  <1> QED
    BY <1>1, <1>2, <1>3, <1>4, <1>5, <1>6

\* What is mounted now is as the card is.
LEMMA RestoreRemounts == ASSUME IInv, NEW t \in {"watcher", "dac"}, restore_remounts(t) PROVE IInv'
  <1> USE EventsAssumption DEF IInv, restore_remounts, Happens, Happens, Goes, Alive, Mounted, Lending, Emptied, Dropped, Restoring
  <1>1. SlotTypes'
    BY DEF SlotTypes
  <1>2. PlayerTypes'
    BY DEF PlayerTypes, PlayerType
  <1>3. ThreadTypes'
    BY DEF ThreadTypes
  <1>4. CardLockShape' /\ StorageLockShape'
    BY DEF CardLockShape, StorageLockShape, PlayerTypes, ThreadTypes
  <1>5. FlagShape' /\ LendShape'
    BY DEF FlagShape, LendShape, StorageLockShape, SlotTypes, PlayerTypes, ThreadTypes, PlayerType
  <1>6. DacShape' /\ ReleaseShape'
    BY DEF DacShape, ReleaseShape, FlagShape, LendShape, CardLockShape, StorageLockShape, SlotTypes, PlayerTypes, ThreadTypes, PlayerType
  <1> QED
    BY <1>1, <1>2, <1>3, <1>4, <1>5, <1>6

\* The flag goes down with the lun empty and no stale view.
LEMMA RestoreReopens == ASSUME IInv, NEW t \in {"watcher", "dac"}, restore_reopens(t, IF t = "dac" THEN "telling" ELSE "top") PROVE IInv'
  <1> USE EventsAssumption DEF IInv, restore_reopens, Leaves, Happens, Goes, Alive, Mounted, Lending, Emptied, Dropped, Restoring
  <1>1. SlotTypes'
    BY DEF SlotTypes
  <1>2. PlayerTypes'
    <2>1. Opened \subseteq {"closed", "card", "elsewhere"}
      BY OpenedIsLibrary
    <2> QED
      BY <2>1 DEF PlayerTypes, PlayerType
  <1>3. ThreadTypes'
    BY DEF ThreadTypes
  <1>4. CardLockShape' /\ StorageLockShape'
    BY DEF CardLockShape, StorageLockShape, PlayerTypes, ThreadTypes
  <1>5. FlagShape' /\ LendShape'
    BY DEF FlagShape, LendShape, StorageLockShape, SlotTypes, PlayerTypes, ThreadTypes, PlayerType
  <1>6. DacShape' /\ ReleaseShape'
    BY DEF DacShape, ReleaseShape, FlagShape, LendShape, CardLockShape, StorageLockShape, SlotTypes, PlayerTypes, ThreadTypes, PlayerType
  <1> QED
    BY <1>1, <1>2, <1>3, <1>4, <1>5, <1>6

\* DAC mode is switched only when the last switch is over.
LEMMA DacSwitches == ASSUME IInv, dac_switches PROVE IInv'
  <1> USE EventsAssumption DEF IInv, dac_switches, Happens, Happens, Goes, Alive, Mounted, Lending, Emptied, Dropped, Restoring
  <1>1. SlotTypes'
    BY DEF SlotTypes
  <1>2. PlayerTypes'
    BY DEF PlayerTypes, PlayerType
  <1>3. ThreadTypes'
    BY DEF ThreadTypes
  <1>4. CardLockShape' /\ StorageLockShape'
    BY DEF CardLockShape, StorageLockShape, PlayerTypes, ThreadTypes
  <1>5. FlagShape' /\ LendShape'
    BY DEF FlagShape, LendShape, StorageLockShape, SlotTypes, PlayerTypes, ThreadTypes, PlayerType
  <1>6. DacShape' /\ ReleaseShape'
    BY ZenonT(40) DEF DacShape, ReleaseShape, FlagShape, LendShape, CardLockShape, StorageLockShape, SlotTypes, PlayerTypes, ThreadTypes, PlayerType
  <1> QED
    BY <1>1, <1>2, <1>3, <1>4, <1>5, <1>6

\* With the lock free and the flag down, the lun has no card, and nobody is about to insert one.
LEMMA DacTakes == ASSUME IInv, dac_takes PROVE IInv'
  <1> USE EventsAssumption DEF IInv, dac_takes, Takes, Passes, Happens, Goes, Alive, Mounted, Lending, Emptied, Dropped, Restoring
  <1>1. SlotTypes'
    BY DEF SlotTypes
  <1>2. PlayerTypes'
    BY DEF PlayerTypes, PlayerType
  <1>3. ThreadTypes'
    BY DEF ThreadTypes
  <1>4. CardLockShape' /\ StorageLockShape'
    BY DEF CardLockShape, StorageLockShape, PlayerTypes, ThreadTypes
  <1>5. FlagShape' /\ LendShape'
    BY DEF FlagShape, LendShape, StorageLockShape, SlotTypes, PlayerTypes, ThreadTypes, PlayerType
  <1>6. DacShape' /\ ReleaseShape'
    BY DEF DacShape, ReleaseShape, FlagShape, LendShape, CardLockShape, StorageLockShape, SlotTypes, PlayerTypes, ThreadTypes, PlayerType
  <1> QED
    BY <1>1, <1>2, <1>3, <1>4, <1>5, <1>6

\* The watcher is told, and nothing else.
LEMMA DacTells == ASSUME IInv, dac_tells PROVE IInv'
  <1> USE EventsAssumption DEF IInv, dac_tells, Happens, Goes, Alive, Mounted, Lending, Emptied, Dropped, Restoring
  <1>1. SlotTypes'
    BY DEF SlotTypes
  <1>2. PlayerTypes'
    BY DEF PlayerTypes, PlayerType
  <1>3. ThreadTypes'
    BY DEF ThreadTypes
  <1>4. CardLockShape' /\ StorageLockShape'
    BY DEF CardLockShape, StorageLockShape, PlayerTypes, ThreadTypes
  <1>5. FlagShape' /\ LendShape'
    BY DEF FlagShape, LendShape, StorageLockShape, SlotTypes, PlayerTypes, ThreadTypes, PlayerType
  <1>6. DacShape' /\ ReleaseShape'
    BY DEF DacShape, ReleaseShape, FlagShape, LendShape, CardLockShape, StorageLockShape, SlotTypes, PlayerTypes, ThreadTypes, PlayerType
  <1> QED
    BY <1>1, <1>2, <1>3, <1>4, <1>5, <1>6

\* With card_lock in hand, nobody is about to mount.
LEMMA PowerReleases == ASSUME IInv, power_releases PROVE IInv'
  <1> USE EventsAssumption DEF IInv, power_releases, Takes, Passes, Happens, Goes, Alive, Mounted, Lending, Emptied, Dropped, Restoring
  <1>0. /\ Detached \in PlayerType /\ Detached.storage_active = player.storage_active
        /\ Detached.card_released = player.card_released /\ Detached.dac_owns_usb = player.dac_owns_usb
    BY DetachedIsClosed
  <1>1. SlotTypes'
    BY DEF SlotTypes
  <1>2. PlayerTypes'
    BY <1>0, ZenonT(40) DEF PlayerTypes, PlayerType
  <1>3. ThreadTypes'
    BY DEF ThreadTypes
  <1>4. CardLockShape' /\ StorageLockShape'
    BY DEF CardLockShape, StorageLockShape, PlayerTypes, ThreadTypes
  <1>5. FlagShape' /\ LendShape'
    BY <1>0 DEF FlagShape, LendShape, StorageLockShape, SlotTypes, PlayerTypes, ThreadTypes, PlayerType
  <1>6. DacShape' /\ ReleaseShape'
    BY <1>0 DEF DacShape, ReleaseShape, CardLockShape, SlotTypes, PlayerTypes, ThreadTypes, PlayerType
  <1> QED
    BY <1>1, <1>2, <1>3, <1>4, <1>5, <1>6

\* What is left is read-only, or as it was.
LEMMA PowerUnmounts == ASSUME IInv, power_unmounts PROVE IInv'
  <1> USE EventsAssumption DEF IInv, power_unmounts, Leaves, Happens, Goes, Alive, Mounted, Lending, Emptied, Dropped, Restoring
  <1>1. SlotTypes'
    BY DEF SlotTypes
  <1>2. PlayerTypes'
    BY DEF PlayerTypes, PlayerType
  <1>3. ThreadTypes'
    BY DEF ThreadTypes
  <1>4. CardLockShape' /\ StorageLockShape'
    BY DEF CardLockShape, StorageLockShape, PlayerTypes, ThreadTypes
  <1>5. FlagShape' /\ LendShape'
    BY DEF FlagShape, LendShape, StorageLockShape, SlotTypes, PlayerTypes, ThreadTypes, PlayerType
  <1>6. DacShape' /\ ReleaseShape'
    BY DEF DacShape, ReleaseShape, FlagShape, LendShape, CardLockShape, StorageLockShape, SlotTypes, PlayerTypes, ThreadTypes, PlayerType
  <1> QED
    BY <1>1, <1>2, <1>3, <1>4, <1>5, <1>6
-----------------------------------------------------------------------------
\* A restore that ends goes on as its thread does.
LEMMA WatcherRestores == ASSUME IInv, Restores("watcher", "top") PROVE IInv'
  <1>1. CASE restore_empties("watcher") \/ restore_drops("watcher") \/ restore_remounts("watcher")
    BY <1>1, RestoreEmpties, RestoreDrops, RestoreRemounts
  <1>2. CASE restore_reopens("watcher", "top")
    <2>1. restore_reopens("watcher", IF "watcher" = "dac" THEN "telling" ELSE "top")
      BY <1>2
    <2> QED
      BY <2>1, RestoreReopens
  <1> QED
    BY <1>1, <1>2 DEF Restores
LEMMA DacRestores == ASSUME IInv, Restores("dac", "telling") PROVE IInv'
  <1>1. CASE restore_empties("dac") \/ restore_drops("dac") \/ restore_remounts("dac")
    BY <1>1, RestoreEmpties, RestoreDrops, RestoreRemounts
  <1>2. CASE restore_reopens("dac", "telling")
    <2>1. restore_reopens("dac", IF "dac" = "dac" THEN "telling" ELSE "top")
      BY <1>2
    <2> QED
      BY <2>1, RestoreReopens
  <1> QED
    BY <1>1, <1>2 DEF Restores

\* Nothing is held, lent or released at the start.
LEMMA InitHolds == Init => IInv
  <1> SUFFICES ASSUME Init PROVE IInv
    OBVIOUS
  <1> USE EventsAssumption DEF Init, Alive, Lending, Restoring, Emptied, Dropped
  <1>1. SlotTypes /\ PlayerTypes /\ ThreadTypes
    BY DEF SlotTypes, PlayerTypes, PlayerType, ThreadTypes
  <1>2. CardLockShape /\ StorageLockShape /\ FlagShape /\ LendShape /\ DacShape /\ ReleaseShape
    BY DEF CardLockShape, StorageLockShape, FlagShape, LendShape, DacShape, ReleaseShape
  <1> QED
    BY <1>1, <1>2 DEF IInv

\* Every step keeps the invariant.
LEMMA StepHolds == IInv /\ [Next]_vars => IInv'
  <1> SUFFICES ASSUME IInv, [Next]_vars PROVE IInv'
    OBVIOUS
  <1>1. CASE World
    BY <1>1, CardPulled, CardPutIn, CableMoved, HostEjects, HostWrites DEF World
  <1>2. CASE Supervisor
    BY <1>2, SupervisorLooks, SupervisorLocks, SupervisorMounts, SupervisorAttaches DEF Supervisor
  <1>3. CASE Hotplug
    BY <1>3, HotplugAdds, HotplugMounts, HotplugAttaches, HotplugRemoves, HotplugUnmounts DEF Hotplug
  <1>4. CASE Watcher
    BY <1>4, WatcherWakes, WatcherLooks, WatcherReclaims, WatcherOffers, WatcherCloses, WatcherUnmounts,
       WatcherAbandons, WatcherGoesOn, WatcherInserts, WatcherBelieves, WatcherRestores DEF Watcher
  <1>5. CASE dac_switches \/ Dac
    BY <1>5, DacSwitches, DacTakes, DacTells, DacRestores DEF Dac
  <1>6. CASE Power
    BY <1>6, PowerReleases, PowerUnmounts DEF Power
  <1>7. CASE UNCHANGED vars
    BY <1>7 DEF vars, IInv, SlotTypes, PlayerTypes, ThreadTypes, CardLockShape, StorageLockShape,
       FlagShape, LendShape, DacShape, ReleaseShape, Alive
  <1> QED
    BY <1>1, <1>2, <1>3, <1>4, <1>5, <1>6, <1>7 DEF Next
-----------------------------------------------------------------------------
\* The shapes hold of every state of every behaviour.
THEOREM LocksHold == Spec => []IInv
  BY InitHolds, StepHolds, PTL DEF Spec

\* Every variable keeps its type, and nothing is live of a card that is out.
THEOREM TypeCorrect == Spec => []TypeOK
  <1>1. IInv => TypeOK
    <2> SUFFICES ASSUME IInv PROVE TypeOK
      OBVIOUS
    <2> QED
      BY DEF Lending, Restoring, Emptied, IInv, TypeOK, SlotTypes, PlayerTypes, PlayerType, ThreadTypes
  <1> QED
    BY <1>1, LocksHold, PTL

\* usb_set_dac_mode() takes the card back: from then on the host has none of
\* ours, however far an export had come.
THEOREM DacHasNoCardHolds == Spec => []DacHasNoCard
  <1>1. IInv => DacHasNoCard
    BY DEF IInv, DacHasNoCard, DacShape
  <1> QED
    BY <1>1, LocksHold, PTL

\* storage_restore() drops what was mounted while the card was lent: the
\* player never reads a view of the card from before.
THEOREM NoStaleViewHolds == Spec => []NoStaleView
  <1>1. IInv => NoStaleView
    BY DEF IInv, NoStaleView, FlagShape
  <1> QED
    BY <1>1, LocksHold, PTL

\* card_released is believed: neither the supervisor nor the hotplug thread
\* mounts a card that has been let go of for the power-off.
THEOREM ReleaseHolds == Spec => ReleaseIsKept
  <1> DEFINE Kept == player.card_released /\ ~Alive(slot.mount) /\ Alive(slot'.mount) => player.storage_active
  <1>1. IInv /\ [Next]_vars => Kept
    <2> SUFFICES ASSUME IInv, [Next]_vars PROVE Kept
      OBVIOUS
    <2> USE DEF Alive
    <2>1. CASE World
      BY <2>1 DEF World, card_pulled, card_put_in, cable_moved, host_ejects, host_writes, Mounted, IInv, SlotTypes
    <2>2. CASE Supervisor
      BY <2>2 DEF Supervisor, supervisor_looks, supervisor_locks, supervisor_mounts, supervisor_attaches,
         Attaches, mount_sd, IInv, ReleaseShape
    <2>3. CASE Hotplug
      BY <2>3 DEF Hotplug, hotplug_adds, hotplug_mounts, hotplug_attaches, hotplug_removes, hotplug_unmounts,
         Reads, Attaches, mount_sd, IInv, ReleaseShape, SlotTypes
    <2>4. CASE Restores("watcher", "top") \/ Restores("dac", "telling")
      BY <2>4 DEF Restores, restore_empties, restore_drops, restore_remounts, restore_reopens, Mounted,
         IInv, FlagShape, StorageLockShape, SlotTypes, PlayerTypes, Lending, Restoring, Emptied
    <2>5. CASE Watcher /\ ~Restores("watcher", "top")
      BY <2>5 DEF Watcher, watcher_wakes, watcher_looks, watcher_reclaims, watcher_offers, watcher_closes,
         watcher_unmounts, watcher_abandons, watcher_goes_on, watcher_inserts, watcher_believes, IInv, SlotTypes
    <2>6. CASE dac_switches \/ dac_takes \/ dac_tells
      BY <2>6 DEF dac_switches, dac_takes, dac_tells, IInv, SlotTypes
    <2>7. CASE Power
      BY <2>7 DEF Power, power_releases, power_unmounts, IInv, SlotTypes
    <2>8. CASE UNCHANGED vars
      BY <2>8 DEF vars
    <2> QED
      BY <2>1, <2>2, <2>3, <2>4, <2>5, <2>6, <2>7, <2>8 DEF Next, Dac
  <1> QED
    BY <1>1, LocksHold, PTL DEF Spec, ReleaseIsKept
=============================================================================
