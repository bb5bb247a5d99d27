------------------------------ MODULE HotReload ------------------------------
(***************************************************************************)
(* The hot reload of one shared plugin.  The daemon's main loop compares    *)
(* the file on disk with what it has loaded, compiles a new version on a    *)
(* thread of its own while the old one keeps serving, and swaps it in: free *)
(* slots on the old bytes are emptied at once, and for each busy slot one   *)
(* eviction is owed, which a dispatch pays when it ends                     *)
(* (agentplug-runner/src/daemon.rs, PluginModules; agentplug-host/src/      *)
(* registry.rs, SharedPluginPool; precompiled.rs, load_module_file_backed). *)
(*                                                                         *)
(* The order in which waiters get a slot is SlotPool's: here any free slot  *)
(* may be taken by any dispatch.  A module is the hash it goes by and the   *)
(* bytes it was compiled from.                                              *)
(***************************************************************************)
EXTENDS Naturals, FiniteSets

CONSTANTS Hashes,       \* versions of the plugin's file, named by their sha256
          FirstHash,    \* the version on disk when the daemon starts
          Slots,        \* slots of the shared pool
          Dispatchers,  \* dispatch threads of the daemon
          Callers,      \* calls from other plugins (plugin_call_reply, embed_text_via_bert)
          Threads,      \* recompile threads
          MaxPublish,   \* how often the file on disk is replaced
          MaxFails,     \* how often a compilation fails
          None

Users == Dispatchers \cup Callers
Module == [hash : Hashes, bytes : Hashes]
Source == Module \cup {None}

ASSUME HotReloadAssumption ==
    /\ FirstHash \in Hashes
    /\ IsFiniteSet(Slots)
    /\ MaxPublish \in Nat /\ MaxFails \in Nat
    /\ Dispatchers \cap Callers = {}
    /\ None \notin Hashes \cup Slots \cup Users \cup Threads \cup Module

VARIABLES
    disk, gen,      \* the file's bytes, and its (mtime, len), which every replacement changes
    artifacts,      \* the precompiled directory: what the artifact named by a hash was compiled from
    main,           \* where the main loop is in get_or_compile
    stat,           \* the file's stat this call read first
    lastStat,       \* last_hash_check_stat
    loaded,         \* modules and loaded_content_hash
    installing,     \* the module install_compiled is swapping in
    unswept,        \* slots request_store_swap has still to visit
    deferred,       \* the busy slots it met
    recompiling,    \* the thread whose result the main loop awaits
    thread,         \* the recompile threads
    source,         \* SIBLING_RELOAD_SOURCE, the module map the daemon published
    remembered,     \* REMEMBERED_PLUGIN_MODULES: the last module instantiated
    slot, holder,   \* the stores, and who has each slot locked
    owed,           \* hashes_to_evict_when_their_in_flight_dispatch_completes
    registered,     \* the dispatch threads whose project's siblings map holds the pool
    user,           \* the dispatch threads and callers
    fails,          \* failed compilations so far
    late, mixed     \* history: refills with retired bytes; hashes compiled from other bytes

mainVars  == <<main, stat, lastStat, loaded, installing, unswept, deferred, recompiling>>
slotVars  == <<slot, holder, owed, remembered, late>>
diskVars  == <<disk, gen, artifacts, mixed>>
vars == <<mainVars, slotVars, diskVars, thread, source, registered, user, fails>>

ThreadStates == {"off", "load", "write", "done", "failed"}
MainStates == {"scan", "stat", "hash", "compile", "sweep", "owe", "swap", "note", "publish"}
UserStates == {"idle", "acquire", "run", "retry", "ensure", "fill", "again"}

TypeOK ==
    /\ disk \in Hashes /\ gen \in 0..MaxPublish
    /\ artifacts \in [Hashes -> Hashes \cup {None}]
    /\ main \in MainStates
    /\ stat \in 0..MaxPublish \cup {None} /\ lastStat \in 0..MaxPublish \cup {None}
    /\ loaded \in Source /\ installing \in Source
    /\ unswept \subseteq Slots /\ deferred \in 0..Cardinality(Slots)
    /\ recompiling \in Threads \cup {None}
    /\ thread \in [Threads -> [pc : ThreadStates, hash : Hashes \cup {None},
                               bytes : Hashes \cup {None}]]
    /\ source \in Source /\ remembered \in Source
    /\ slot \in [Slots -> Source] /\ holder \in [Slots -> Users \cup {None}]
    /\ owed \in [Hashes -> 0..Cardinality(Slots)]
    /\ registered \subseteq Dispatchers
    /\ user \in [Users -> [pc : UserStates, local : Source, slot : Slots \cup {None}]]
    /\ fails \in 0..MaxFails
    /\ late \in [Hashes -> 0..Cardinality(Slots)] /\ mixed \subseteq Hashes

Off == [pc |-> "off", hash |-> None, bytes |-> None]
Idle == [pc |-> "idle", local |-> None, slot |-> None]

Init ==
    /\ disk = FirstHash /\ gen = 0 /\ artifacts = [h \in Hashes |-> None]
    /\ main = "scan" /\ stat = None /\ lastStat = None /\ loaded = None
    /\ installing = None /\ unswept = {} /\ deferred = 0 /\ recompiling = None
    /\ thread = [t \in Threads |-> Off]
    /\ source = None /\ remembered = None
    /\ slot = [s \in Slots |-> None] /\ holder = [s \in Slots |-> None]
    /\ owed = [h \in Hashes |-> 0]
    /\ registered = {} /\ user = [u \in Users |-> Idle]
    /\ fails = 0 /\ late = [h \in Hashes |-> 0] /\ mixed = {}

Free(s) == holder[s] = None
Holds(s, h) == slot[s] # None /\ slot[s].hash = h

\* is_loaded of a shared plugin: a busy slot counts as instantiated.
AnyInstantiated == \E s \in Slots : ~Free(s) \/ slot[s] # None

-----------------------------------------------------------------------------
\* The disk: an update, a rollback or a sideload renames another file into place.

Publish ==
    /\ gen < MaxPublish
    /\ disk' \in Hashes \ {disk}
    /\ gen' = gen + 1
    /\ UNCHANGED <<artifacts, mixed, mainVars, slotVars, thread, source, registered, user, fails>>

\* load_module_file_backed for hash h: the artifact of that name when there is one, else
\* the file as it is now, which is not read under the lock or at the time of its hash.
Cached(h) == artifacts[h] # None

\* Mutant: the artifact's name lacks the content hash.
OneArtifactForAll(h, bytes) == artifacts' = [g \in Hashes |-> bytes]

\* The artifact is renamed into place and those of other hashes are removed.
WritesArtifact(h, bytes) ==
    artifacts' = [g \in Hashes |-> IF g = h THEN bytes ELSE None]

ReadsDisk(h) == mixed' = IF disk = h THEN mixed ELSE mixed \cup {h}

-----------------------------------------------------------------------------
\* The recompile threads.

ThreadLoad(t) ==
    /\ thread[t].pc = "load"
    /\ IF Cached(thread[t].hash)
         THEN /\ thread' = [thread EXCEPT ![t] =
                    IF recompiling = t
                      THEN [@ EXCEPT !.pc = "done", !.bytes = artifacts[thread[t].hash]]
                      ELSE Off]
              /\ UNCHANGED mixed
         ELSE /\ thread' = [thread EXCEPT ![t].pc = "write", ![t].bytes = disk]
              /\ ReadsDisk(thread[t].hash)
    /\ UNCHANGED <<disk, gen, artifacts, mainVars, slotVars, source, registered, user, fails>>

\* The result of a thread nobody awaits any more is dropped with its channel.
ThreadWrite(t) ==
    /\ thread[t].pc = "write"
    /\ WritesArtifact(thread[t].hash, thread[t].bytes)
    /\ thread' = [thread EXCEPT ![t] = IF recompiling = t THEN [@ EXCEPT !.pc = "done"] ELSE Off]
    /\ UNCHANGED <<disk, gen, mixed, mainVars, slotVars, source, registered, user, fails>>

\* The compilation fails, or the thread ends without a result.
ThreadFail(t) ==
    /\ thread[t].pc = "write" /\ fails < MaxFails
    /\ fails' = fails + 1
    /\ thread' = [thread EXCEPT ![t] = IF recompiling = t THEN [Off EXCEPT !.pc = "failed"] ELSE Off]
    /\ UNCHANGED <<diskVars, mainVars, slotVars, source, registered, user>>

-----------------------------------------------------------------------------
\* The main loop: adopt_finished_recompile, then the rest of get_or_compile.

Awaits(pc) == recompiling # None /\ thread[recompiling].pc = pc
AwaitsHash(h) == recompiling # None /\ thread[recompiling].hash = h

AdoptNothing ==
    /\ main = "scan"
    /\ ~Awaits("done") /\ ~Awaits("failed")
    /\ main' = "stat"
    /\ UNCHANGED <<stat, lastStat, loaded, installing, unswept, deferred, recompiling,
                   slotVars, diskVars, thread, source, registered, user, fails>>

\* install_compiled begins: a new hash makes request_store_swap visit the slots.
Install(module) ==
    /\ installing' = module
    /\ main' = IF loaded # None /\ loaded.hash # module.hash THEN "sweep" ELSE "swap"
    /\ unswept' = Slots /\ deferred' = 0

Adopt ==
    /\ main = "scan" /\ Awaits("done")
    /\ Install([hash |-> thread[recompiling].hash, bytes |-> thread[recompiling].bytes])
    /\ thread' = [thread EXCEPT ![recompiling] = Off]
    /\ recompiling' = None
    /\ UNCHANGED <<stat, lastStat, loaded, slotVars, diskVars, source, registered, user, fails>>

\* Mutant: the stat of the file whose recompile failed stays, and the file looks unchanged.
KeepsTheStat ==
    /\ main = "scan" /\ Awaits("failed")
    /\ thread' = [thread EXCEPT ![recompiling] = Off]
    /\ recompiling' = None
    /\ main' = "publish"
    /\ UNCHANGED <<stat, lastStat, loaded, installing, unswept, deferred, slotVars, diskVars,
                   source, registered, user, fails>>

\* A failed recompile forgets the stat, so that the next call compares the hash again.
AdoptFailure ==
    /\ main = "scan" /\ Awaits("failed")
    /\ thread' = [thread EXCEPT ![recompiling] = Off]
    /\ recompiling' = None /\ lastStat' = None
    /\ main' = "publish"
    /\ UNCHANGED <<stat, loaded, installing, unswept, deferred, slotVars, diskVars, source,
                   registered, user, fails>>

CheckStat ==
    /\ main = "stat"
    /\ IF gen = lastStat /\ loaded # None
         THEN main' = "publish" /\ UNCHANGED stat
         ELSE main' = "hash" /\ stat' = gen
    /\ UNCHANGED <<lastStat, loaded, installing, unswept, deferred, recompiling, slotVars,
                   diskVars, thread, source, registered, user, fails>>

\* A thread the main loop stops awaiting ends alone, its result unread.
AbandonCompile == [t \in Threads |-> IF t = recompiling /\ thread[t].pc \in {"done", "failed"}
                                       THEN Off ELSE thread[t]]

\* The file is the loaded one again: a recompile on its way is no longer wanted.
HashIsLoaded ==
    /\ main = "hash" /\ loaded # None /\ loaded.hash = disk
    /\ lastStat' = stat /\ stat' = None
    /\ thread' = AbandonCompile /\ recompiling' = None
    /\ main' = "publish"
    /\ UNCHANGED <<loaded, installing, unswept, deferred, slotVars, diskVars, source,
                   registered, user, fails>>

HashIsAwaited ==
    /\ main = "hash" /\ loaded # None /\ loaded.hash # disk
    /\ AwaitsHash(disk)
    /\ lastStat' = stat /\ stat' = None
    /\ main' = "publish"
    /\ UNCHANGED <<loaded, installing, unswept, deferred, recompiling, slotVars, diskVars,
                   thread, source, registered, user, fails>>

\* A recompile of another version that is under way is replaced, not cancelled.
HashIsNew(t) ==
    /\ main = "hash" /\ loaded # None /\ loaded.hash # disk
    /\ ~AwaitsHash(disk)
    /\ thread[t].pc = "off"
    /\ lastStat' = stat /\ stat' = None
    /\ thread' = [AbandonCompile EXCEPT ![t] = [pc |-> "load", hash |-> disk, bytes |-> None]]
    /\ recompiling' = t
    /\ main' = "publish"
    /\ UNCHANGED <<loaded, installing, unswept, deferred, slotVars, diskVars, source,
                   registered, user, fails>>

\* The first compilation runs on the main loop itself; installing keeps the hash it goes by.
HashIsFirst ==
    /\ main = "hash" /\ loaded = None
    /\ lastStat' = stat /\ stat' = None
    /\ installing' = [hash |-> disk, bytes |-> disk]
    /\ main' = "compile"
    /\ UNCHANGED <<loaded, unswept, deferred, recompiling, slotVars, diskVars, thread, source,
                   registered, user, fails>>

CompileFirst ==
    /\ main = "compile"
    /\ LET h == installing.hash
       IN  IF Cached(h)
             THEN /\ Install([hash |-> h, bytes |-> artifacts[h]])
                  /\ UNCHANGED <<artifacts, mixed>>
             ELSE /\ Install([hash |-> h, bytes |-> disk])
                  /\ WritesArtifact(h, disk) /\ ReadsDisk(h)
    /\ UNCHANGED <<disk, gen, stat, lastStat, loaded, recompiling, slotVars, thread, source,
                   registered, user, fails>>

CompileFirstFails ==
    /\ main = "compile" /\ ~Cached(installing.hash) /\ fails < MaxFails
    /\ fails' = fails + 1
    /\ installing' = None
    /\ main' = "publish"
    /\ UNCHANGED <<stat, lastStat, loaded, unswept, deferred, recompiling, slotVars, diskVars,
                   thread, source, registered, user>>

\* request_store_swap tries each slot's lock: a free slot on the old bytes is emptied, a
\* busy one is counted, whatever it holds.
Sweep(s) ==
    /\ main = "sweep" /\ s \in unswept
    /\ unswept' = unswept \ {s}
    /\ IF Free(s)
         THEN /\ slot' = [slot EXCEPT ![s] = IF Holds(s, loaded.hash) THEN None ELSE @]
              /\ UNCHANGED deferred
         ELSE deferred' = deferred + 1 /\ UNCHANGED slot
    /\ main' = IF unswept = {s} THEN "owe" ELSE "sweep"
    /\ UNCHANGED <<stat, lastStat, loaded, installing, recompiling, holder, owed, remembered,
                   late, diskVars, thread, source, registered, user, fails>>

\* Mutant: one eviction is owed however many slots were busy.
OwesOne ==
    /\ main = "owe"
    /\ owed' = [owed EXCEPT ![loaded.hash] = IF deferred > 0 THEN 1 ELSE @]
    /\ deferred' = 0
    /\ main' = "swap"
    /\ UNCHANGED <<stat, lastStat, loaded, installing, unswept, recompiling, slot, holder,
                   remembered, late, diskVars, thread, source, registered, user, fails>>

\* Only then are the evictions owed written down: a dispatch may have ended in between.
Owe ==
    /\ main = "owe"
    /\ owed' = [owed EXCEPT ![loaded.hash] = @ + deferred]
    /\ deferred' = 0
    /\ main' = "swap"
    /\ UNCHANGED <<stat, lastStat, loaded, installing, unswept, recompiling, slot, holder,
                   remembered, late, diskVars, thread, source, registered, user, fails>>

\* The first compilation ends the call: nothing is owed yet.
Swap ==
    /\ main = "swap"
    /\ loaded' = installing /\ installing' = None
    /\ late' = [late EXCEPT ![installing.hash] = 0]
    /\ unswept' = {}
    /\ main' = IF loaded = None THEN "publish" ELSE "note"
    /\ UNCHANGED <<stat, lastStat, deferred, recompiling, slot, holder, owed,
                   remembered, diskVars, thread, source, registered, user, fails>>

\* Mutant: bytes that become current again keep the evictions owed to them.
NotesNothing ==
    /\ main = "note"
    /\ main' = "stat"
    /\ UNCHANGED <<stat, lastStat, loaded, installing, unswept, deferred, recompiling,
                   slotVars, diskVars, thread, source, registered, user, fails>>

\* note_bytes_current; the call, which adopted a recompile, goes on to compare the file.
Note ==
    /\ main = "note"
    /\ owed' = [owed EXCEPT ![loaded.hash] = 0]
    /\ main' = "stat"
    /\ UNCHANGED <<stat, lastStat, loaded, installing, unswept, deferred, recompiling, slot, holder,
                   remembered, late, diskVars, thread, source, registered, user, fails>>

\* set_sibling_reload_source, at the end of each pass.
PublishSource ==
    /\ main = "publish"
    /\ source' = loaded
    /\ main' = "scan"
    /\ UNCHANGED <<stat, lastStat, loaded, installing, unswept, deferred, recompiling,
                   slotVars, diskVars, thread, registered, user, fails>>

-----------------------------------------------------------------------------
\* The stores.

\* History: a refill with bytes request_store_swap has already passed over in this slot.
Retired(s, h) ==
    /\ loaded # None
    /\ \/ h # loaded.hash
       \/ /\ main \in {"sweep", "owe", "swap"} /\ installing.hash # loaded.hash
          /\ s \notin unswept

Counted(s, h) ==
    late' = [late EXCEPT ![h] = IF Retired(s, h) /\ @ < Cardinality(Slots) THEN @ + 1 ELSE @]

\* instantiate_plugin into slot s.
Fill(s, module) ==
    /\ slot' = [slot EXCEPT ![s] = module]
    /\ remembered' = module
    /\ Counted(s, module.hash)

\* note_pending_eviction_consumed
Consumed(h) == [owed EXCEPT ![h] = IF @ = 0 THEN 0 ELSE @ - 1]

\* evict_if_swap_pending, as the slot's guard is dropped.
EvictIfPending(s) ==
    IF slot[s] # None /\ owed[slot[s].hash] > 0
      THEN slot' = [slot EXCEPT ![s] = None] /\ owed' = Consumed(slot[s].hash)
      ELSE UNCHANGED <<slot, owed>>

\* reload_entry: the dispatch site's own map, the published one, the last instantiated.
ReloadEntry(local) ==
    IF local # None THEN local ELSE IF source # None THEN source ELSE remembered

Goes(u, pc) == user' = [user EXCEPT ![u].pc = pc]
Ends(u) == user' = [user EXCEPT ![u] = Idle]
Release(s) == holder' = [holder EXCEPT ![s] = None]

others == <<mainVars, diskVars, thread, source, fails>>

\* A worker of the main loop readies the project for a request (install_into_project,
\* load_plugin) and copies the module map for its dispatch; the loop waits for the workers.
Prepare(d) ==
    /\ main = "scan" /\ loaded # None /\ user[d].pc = "idle"
    /\ user' = [user EXCEPT ![d] = [Idle EXCEPT !.pc = "acquire", !.local = loaded]]
    /\ registered' = registered \cup {d}
    /\ IF \/ d \in registered /\ AnyInstantiated
          \/ \E s \in Slots : ~Free(s) \/ Holds(s, loaded.hash)
          \/ \A s \in Slots : slot[s] # None
         THEN UNCHANGED <<slot, remembered, late>>
         ELSE \E s \in Slots : Free(s) /\ slot[s] = None /\ Fill(s, loaded)
    /\ UNCHANGED <<holder, owed, others>>

\* DispatchHandle::dispatch: an empty slot is refilled under its lock.
Acquire(d, s) ==
    /\ user[d].pc = "acquire" /\ Free(s)
    /\ holder' = [holder EXCEPT ![s] = d]
    /\ user' = [user EXCEPT ![d].pc = "run", ![d].slot = s]
    /\ IF slot[s] = None THEN Fill(s, ReloadEntry(user[d].local))
                         ELSE UNCHANGED <<slot, remembered, late>>
    /\ UNCHANGED <<owed, registered, others>>

DispatchOk(d) ==
    /\ d \in Dispatchers /\ user[d].pc = "run"
    /\ EvictIfPending(user[d].slot)
    /\ Release(user[d].slot) /\ Ends(d)
    /\ UNCHANGED <<remembered, late, registered, others>>

\* The call poisons its store: the slot is evicted, pays one eviction owed to its bytes,
\* and is refilled in place; a call that ran out of time is not repeated.
Poison(d) ==
    /\ d \in Dispatchers /\ user[d].pc = "run"
    /\ LET s == user[d].slot
       IN  /\ owed' = Consumed(slot[s].hash)
           /\ Fill(s, ReloadEntry(user[d].local))
           /\ \/ Goes(d, "retry") /\ UNCHANGED holder
              \/ Ends(d) /\ Release(s)
    /\ UNCHANGED <<registered, others>>

\* The repeated call answers, without a look at the evictions owed, or empties the slot.
Retry(d) ==
    /\ user[d].pc = "retry"
    /\ \/ UNCHANGED slot
       \/ slot' = [slot EXCEPT ![user[d].slot] = None]
    /\ Release(user[d].slot) /\ Ends(d)
    /\ UNCHANGED <<owed, remembered, late, registered, others>>

-----------------------------------------------------------------------------
\* A call from another plugin (plugin_call_reply): it never refills under the lock.

Call(c, s) ==
    /\ user[c].pc \in {"idle", "again"} /\ Free(s)
    /\ IF slot[s] # None
         THEN /\ holder' = [holder EXCEPT ![s] = c]
              /\ user' = [user EXCEPT ![c].pc = "run", ![c].slot = s]
         ELSE /\ user' = [user EXCEPT ![c] =
                    IF user[c].pc = "idle" THEN [Idle EXCEPT !.pc = "ensure"] ELSE Idle]
              /\ UNCHANGED holder
    /\ UNCHANGED <<slot, owed, remembered, late, registered, others>>

\* ensure_sibling_registered: with every slot free and empty, fill one from the published map.
Ensure(c) ==
    /\ user[c].pc = "ensure"
    /\ user' = [user EXCEPT ![c] = IF AnyInstantiated \/ source = None
                                     THEN [Idle EXCEPT !.pc = "again"]
                                     ELSE [Idle EXCEPT !.pc = "fill", !.local = source]]
    /\ UNCHANGED <<slotVars, registered, others>>

FillForCall(c, s) ==
    /\ user[c].pc = "fill" /\ Free(s)
    /\ IF slot[s] = None \/ slot[s].hash # user[c].local.hash
         THEN Fill(s, user[c].local)
         ELSE UNCHANGED <<slot, remembered, late>>
    /\ user' = [user EXCEPT ![c] = [Idle EXCEPT !.pc = "again"]]
    /\ UNCHANGED <<holder, owed, registered, others>>

\* The guard is dropped after evict_if_swap_pending, whether the call succeeded or not.
CallEnds(c) ==
    /\ c \in Callers /\ user[c].pc = "run"
    /\ EvictIfPending(user[c].slot)
    /\ Release(user[c].slot) /\ Ends(c)
    /\ UNCHANGED <<remembered, late, registered, others>>

\* embed_text_via_bert empties the slot of a call that failed, and pays nothing owed.
EmbedFails(c) ==
    /\ c \in Callers /\ user[c].pc = "run"
    /\ slot' = [slot EXCEPT ![user[c].slot] = None]
    /\ Release(user[c].slot) /\ Ends(c)
    /\ UNCHANGED <<owed, remembered, late, registered, others>>

\* release_shared_plugin, under memory pressure: the free slots are emptied.
ReleaseShared ==
    /\ \E s \in Slots : Free(s) /\ slot[s] # None
    /\ slot' = [s \in Slots |-> IF Free(s) THEN None ELSE slot[s]]
    /\ UNCHANGED <<holder, owed, remembered, late, registered, user, others>>

-----------------------------------------------------------------------------
Main == \/ AdoptNothing \/ Adopt \/ AdoptFailure \/ CheckStat
        \/ HashIsLoaded \/ HashIsAwaited \/ HashIsFirst
        \/ \E t \in Threads : HashIsNew(t)
        \/ CompileFirst \/ CompileFirstFails
        \/ \E s \in Slots : Sweep(s)
        \/ Owe \/ Swap \/ Note \/ PublishSource

Compiling(t) == ThreadLoad(t) \/ ThreadWrite(t) \/ ThreadFail(t)

Next ==
    \/ Publish \/ Main \/ ReleaseShared
    \/ \E t \in Threads : Compiling(t)
    \/ \E d \in Dispatchers : Prepare(d) \/ DispatchOk(d) \/ Poison(d) \/ Retry(d)
    \/ \E d \in Dispatchers, s \in Slots : Acquire(d, s)
    \/ \E c \in Callers : Ensure(c) \/ CallEnds(c) \/ EmbedFails(c)
    \/ \E c \in Callers, s \in Slots : Call(c, s) \/ FillForCall(c, s)

\* The main loop and the compile threads keep running; nothing is asked of the others.
Spec == Init /\ [][Next]_vars /\ WF_vars(Main) /\ \A t \in Threads : WF_vars(Compiling(t))

----
(* Properties.                                                             *)

\* Every store still on retired bytes has an eviction owed to it, or is the work of a
\* refill with an old module map (request_store_swap, evict_if_swap_pending and
\* note_pending_eviction_consumed keep one count per hash for all the slots).
StoresAreOwed ==
    loaded # None =>
        \A h \in Hashes \ {loaded.hash} :
            Cardinality({s \in Slots : Holds(s, h)}) <= owed[h] + late[h]

\* Between two passes no eviction is owed to the bytes just loaded: a dispatch that ends
\* does not throw away a current store because those bytes were swapped out once before.
CurrentIsKept ==
    main \in {"scan", "stat", "hash", "publish"} /\ loaded # None => owed[loaded.hash] = 0

\* A module that goes by a hash was compiled from the bytes of that hash, unless the file
\* was replaced between its hash and its compilation: an abandoned recompile, a failed one
\* or the artifact cache never lends the bytes of one version to another.
BytesAreTheirHash ==
    \A m \in ({loaded, source} \cup {slot[s] : s \in Slots}) \ {None} :
        m.bytes = m.hash \/ m.hash \in mixed

\* Once the file stops changing, its version is the one loaded and published, whatever
\* recompiles were under way, abandoned or failed (get_or_compile, adopt_finished_recompile).
DiskGetsLoaded == <>[](source # None /\ source.hash = disk)
=============================================================================
