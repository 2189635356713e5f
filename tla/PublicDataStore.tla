-------------------------- MODULE PublicDataStore --------------------------
(***************************************************************************)
(* The store of public datasets: immutable release directories, a registry *)
(* file that says which releases are registered and which one is active,   *)
(* and the lock directory under which processes change the registry.       *)
(*                                                                         *)
(* One dataset is modelled.  A lock directory is made, then its owner file *)
(* is written in it; a waiting process looks at a lock first and renames   *)
(* it away later, whatever is there by then.  A release is its content:    *)
(* the checksum, record count and provenance that the code compares.       *)
(***************************************************************************)
EXTENDS Sequences, FiniteSets, SequencesExt

CONSTANTS
    Procs,
    HostOf,         \* the host a process runs on
    Versions,
    Contents,       \* what a release of a version may contain
    Absent

Operations ==
    [kind : {"stage"}, version : Versions, content : Contents]
        \cup [kind : {"activate"}, version : Versions, content : {Absent}]
        \cup {[kind |-> "rollback", version |-> Absent, content |-> Absent]}
Idle == [kind |-> "idle", version |-> Absent, content |-> Absent]

Status == {"staged", "active", "superseded"}

\* The lock directory: who made it, whose owner file is in it, whether it is
\* older than stale_lock_seconds.
Locks == [maker : Procs \cup {"gone"}, owner : Procs \cup {Absent, "gone"}, old : BOOLEAN]

ASSUME StoreConstants ==
    /\ DOMAIN HostOf = Procs
    /\ Absent \notin Procs \cup Versions \cup Contents \cup Status \cup Locks \cup {"gone"}
    /\ "gone" \notin Procs

\* PublicDataRegistry, the part of one dataset; an unregistered version has no
\* content and no status.
NoEntry == [content |-> Absent, status |-> Absent]
Entries == [content : Contents, status : Status] \cup {NoEntry}
Registries == [entry : [Versions -> Entries], active : Versions \cup {Absent},
               history : Seq(Versions)]
EmptyRegistry == [entry |-> [v \in Versions |-> NoEntry], active |-> Absent, history |-> <<>>]

Labels == {"idle", "waiting", "breaking", "made", "discarding", "owned", "installing",
           "writing", "releasing", "removing"}
\* Where a process believes that it holds the lock.
Critical == {"owned", "installing", "writing", "releasing"}

VARIABLES
    registry,       \* registry.json
    dirs,           \* the content of a release directory, Absent when there is none
    lock,           \* the lock directory, Absent when there is none
    pc, op,         \* what a process is doing, for which operation
    copy,           \* the registry as a process read it under the lock
    \* history: what a process that is about to remove a lock decided on was not
    \* the dead owner of this lock (it saw no owner file, another host's, or
    \* another lock); releases that stage reported; whether a live process lost
    \* its lock to such a decision
    unfounded, reported, usurped

storeVars == <<registry, dirs, lock, pc, op, copy, unfounded, reported, usurped>>

\* A registry is well formed and every process works on values the code computes.
StoreTypeOK ==
    /\ registry \in Registries
    /\ dirs \in [Versions -> Contents \cup {Absent}]
    /\ lock \in Locks \cup {Absent}
    /\ pc \in [Procs -> Labels]
    /\ op \in [Procs -> Operations \cup {Idle}]
    /\ \A p \in Procs : op[p].kind = "idle" <=> pc[p] = "idle"
    /\ copy \in [Procs -> Registries]
    /\ unfounded \in [Procs -> BOOLEAN]
    /\ reported \in SUBSET (Versions \X Contents)
    /\ usurped \in BOOLEAN

StoreInit ==
    /\ registry = EmptyRegistry
    /\ dirs = [v \in Versions |-> Absent]
    /\ lock = Absent
    /\ pc = [p \in Procs |-> "idle"]
    /\ op = [p \in Procs |-> Idle]
    /\ copy = [p \in Procs |-> EmptyRegistry]
    /\ unfounded = [p \in Procs |-> FALSE]
    /\ reported = {}
    /\ usurped = FALSE
----------------------------------------------------------------------------
(* What the code looks at and computes.                                    *)

Registered(reg, v) == reg.entry[v] # NoEntry

\* _validate_registered: the version is registered and its directory holds the
\* records that its manifest describes.
Valid(reg, v) == Registered(reg, v) /\ dirs[v] = reg.entry[v].content

\* rollback: where the history has releases other than the active one.
Previous(reg) == {i \in DOMAIN reg.history : reg.history[i] # reg.active}

\* The release an operation asks to be active; a rollback takes the latest of the
\* previous ones.
Target(reg, o) ==
    IF o.kind = "activate" THEN o.version
    ELSE IF Previous(reg) = {} THEN Absent ELSE reg.history[Max(Previous(reg))]

\* The history without v, which is in it at most once (RegistryConsistent).
Without(history, v) ==
    IF v \in ToSet(history) THEN RemoveAt(history, CHOOSE i \in DOMAIN history : history[i] = v)
    ELSE history

MutActivateKeepsStatus(reg, v) ==
    [entry |-> [reg.entry EXCEPT ![v].status = "active"],
     active |-> v,
     history |-> Append(Without(reg.history, v), v)]

\* _activate_locked: the previous release is superseded and the new one moves to
\* the end of the activation history.
Activated(reg, v) ==
    [entry |-> [u \in Versions |->
                  CASE u = v -> [reg.entry[u] EXCEPT !.status = "active"]
                    [] u = reg.active /\ u # v -> [reg.entry[u] EXCEPT !.status = "superseded"]
                    [] OTHER -> reg.entry[u]],
     active |-> v,
     history |-> Append(Without(reg.history, v), v)]

\* Mutant: staging takes the active release out of use
MutStagedDeactivates(reg, v, c) ==
    [entry |-> [u \in Versions |->
                  CASE u = v -> [content |-> c, status |-> "staged"]
                    [] u = reg.active /\ u # v -> [reg.entry[u] EXCEPT !.status = "superseded"]
                    [] OTHER -> reg.entry[u]],
     active |-> Absent, history |-> reg.history]

\* _register_staged
Staged(reg, v, c) == [reg EXCEPT !.entry[v] = [content |-> c, status |-> "staged"]]

\* The registry an operation writes, from the copy it read.
Written(p) ==
    IF op[p].kind = "stage" THEN Staged(copy[p], op[p].version, op[p].content)
    ELSE Activated(copy[p], Target(copy[p], op[p]))

MutRemovableByAge(p) == lock # Absent /\ lock.old

\* _remove_stale_lock: the lock is old, and its owner is not a live process of
\* this host.
Removable(p) ==
    /\ lock # Absent /\ lock.old
    /\ ~(lock.owner \in Procs /\ HostOf[lock.owner] = HostOf[p])

\* The lock belongs to a process that is still at work under it.
Alive == lock.maker \in Procs /\ pc[lock.maker] \in Critical \cup {"made", "removing"}
----------------------------------------------------------------------------
(* Building blocks of the actions.                                         *)

Goto(p, label) == pc' = [pc EXCEPT ![p] = label]

\* The lock directory disappears: what was seen of it is not true of the next one.
DropLock(p) ==
    /\ lock' = Absent
    /\ unfounded' = [q \in Procs |-> q # p /\ pc[q] = "breaking"]

\* The operation ends: it returned, or raised.
Finish(p) ==
    /\ Goto(p, "idle")
    /\ op' = [op EXCEPT ![p] = Idle]
    /\ copy' = [copy EXCEPT ![p] = EmptyRegistry]

Report(p) == reported' = reported \cup {<<op[p].version, op[p].content>>}
----------------------------------------------------------------------------
(* _registry_lock                                                          *)

\* stage (its records written to a temporary directory and validated), activate
\* or rollback begins and waits for the lock.
Begin(p, o) ==
    /\ pc[p] = "idle"
    /\ Goto(p, "waiting")
    /\ op' = [op EXCEPT ![p] = o]
    /\ UNCHANGED <<registry, dirs, lock, copy, unfounded, reported, usurped>>

MakeLock(p) ==
    /\ pc[p] = "waiting" /\ lock = Absent
    /\ lock' = [maker |-> p, owner |-> Absent, old |-> FALSE]
    /\ Goto(p, "made")
    /\ UNCHANGED <<registry, dirs, op, copy, unfounded, reported, usurped>>

\* The owner file goes into whatever lock directory is there, and makes it young.
WriteOwner(p) ==
    /\ pc[p] = "made"
    /\ IF lock = Absent
       THEN Goto(p, "discarding") /\ UNCHANGED lock
       ELSE Goto(p, "owned") /\ lock' = [lock EXCEPT !.owner = p, !.old = FALSE]
    /\ UNCHANGED <<registry, dirs, op, copy, unfounded, reported, usurped>>

\* Writing the owner file failed: the lock directory is removed, whosever it is.
Discard(p) ==
    /\ pc[p] = "discarding"
    /\ DropLock(p)
    /\ Finish(p)
    /\ UNCHANGED <<registry, dirs, reported, usurped>>

\* _remove_stale_lock up to its decision ...
Examine(p) ==
    /\ pc[p] = "waiting"
    /\ Removable(p)
    /\ unfounded' = [unfounded EXCEPT ![p] =
                       lock.owner = Absent \/ (lock.owner \in Procs /\ HostOf[lock.owner] # HostOf[p])]
    /\ Goto(p, "breaking")
    /\ UNCHANGED <<registry, dirs, lock, op, copy, reported, usurped>>

\* ... and the rename of whatever lock directory is there by now; the time may be
\* up after it.
Break(p) ==
    /\ pc[p] = "breaking"
    /\ usurped' = (usurped \/ (lock # Absent /\ Alive /\ unfounded[p]))
    /\ DropLock(p)
    /\ Finish(p) \/ (Goto(p, "waiting") /\ UNCHANGED <<op, copy>>)
    /\ UNCHANGED <<registry, dirs, reported>>

\* RegistryLockTimeoutError
TimeOut(p) ==
    /\ pc[p] = "waiting" /\ lock # Absent
    /\ Finish(p)
    /\ UNCHANGED <<registry, dirs, lock, unfounded, reported, usurped>>

\* _release_registry_lock reads the owner file ...
Release(p) ==
    /\ pc[p] = "releasing"
    /\ IF lock # Absent /\ lock.owner = p
       THEN Goto(p, "removing") /\ UNCHANGED <<op, copy>>
       ELSE Finish(p)
    /\ UNCHANGED <<registry, dirs, lock, unfounded, reported, usurped>>

\* ... and removes the lock directory.
RemoveLock(p) ==
    /\ pc[p] = "removing"
    /\ DropLock(p)
    /\ Finish(p)
    /\ UNCHANGED <<registry, dirs, reported, usurped>>
----------------------------------------------------------------------------
(* The operations, under the lock.                                         *)

MutAdoptReported(p) ==
    LET v == op[p].version IN
    /\ pc[p] = "owned" /\ op[p].kind = "stage"
    /\ copy' = [copy EXCEPT ![p] = registry]
    /\ IF dirs[v] = Absent
       THEN Goto(p, "installing") /\ UNCHANGED reported
       ELSE /\ Goto(p, "releasing")
            /\ IF dirs[v] = op[p].content THEN Report(p) ELSE UNCHANGED reported
    /\ UNCHANGED <<registry, dirs, lock, op, unfounded, usurped>>

\* _commit_staged: a directory that exists with this content is adopted, and
\* registered unless it is already; one with other content is refused.
ReadForStage(p) ==
    LET v == op[p].version IN
    /\ pc[p] = "owned" /\ op[p].kind = "stage"
    /\ copy' = [copy EXCEPT ![p] = registry]
    /\ IF dirs[v] = Absent
       THEN Goto(p, "installing") /\ UNCHANGED reported
       ELSE IF dirs[v] # op[p].content
       THEN Goto(p, "releasing") /\ UNCHANGED reported
       ELSE IF Registered(registry, v)
       THEN Goto(p, "releasing") /\ Report(p)
       ELSE Goto(p, "writing") /\ UNCHANGED reported
    /\ UNCHANGED <<registry, dirs, lock, op, unfounded, usurped>>

\* The temporary directory is renamed; a rename onto a directory that has
\* appeared since raises.
Install(p) ==
    LET v == op[p].version IN
    /\ pc[p] = "installing"
    /\ IF dirs[v] = Absent
       THEN dirs' = [dirs EXCEPT ![v] = op[p].content] /\ Goto(p, "writing")
       ELSE Goto(p, "releasing") /\ UNCHANGED dirs
    /\ UNCHANGED <<registry, lock, op, copy, unfounded, reported, usurped>>

\* activate and rollback: nothing to go back to, a release that is not valid and
\* one that is already active end the operation.
ReadForActivation(p) ==
    LET v == Target(registry, op[p]) IN
    /\ pc[p] = "owned" /\ op[p].kind \in {"activate", "rollback"}
    /\ copy' = [copy EXCEPT ![p] = registry]
    /\ Goto(p, IF v # Absent /\ Valid(registry, v) /\ registry.active # v
               THEN "writing" ELSE "releasing")
    /\ UNCHANGED <<registry, dirs, lock, op, unfounded, reported, usurped>>

\* _write_registry: the whole file is replaced.
WriteRegistry(p) ==
    /\ pc[p] = "writing"
    /\ registry' = Written(p)
    /\ IF op[p].kind = "stage" THEN Report(p) ELSE UNCHANGED reported
    /\ Goto(p, "releasing")
    /\ UNCHANGED <<dirs, lock, op, copy, unfounded, usurped>>
----------------------------------------------------------------------------
\* stale_lock_seconds pass.
LockAges ==
    /\ lock # Absent /\ ~lock.old
    /\ lock' = [lock EXCEPT !.old = TRUE]
    /\ UNCHANGED <<registry, dirs, pc, op, copy, unfounded, reported, usurped>>

\* The process is gone, and its pid with it.
Crash(p) ==
    /\ pc[p] # "idle"
    /\ Finish(p)
    /\ unfounded' = [unfounded EXCEPT ![p] = FALSE]
    /\ lock' = IF lock = Absent THEN Absent
               ELSE [lock EXCEPT !.owner = IF @ = p THEN "gone" ELSE @,
                                 !.maker = IF @ = p THEN "gone" ELSE @]
    /\ UNCHANGED <<registry, dirs, reported, usurped>>

ProcStep(p) ==
    \/ \E o \in Operations : Begin(p, o)
    \/ MakeLock(p) \/ WriteOwner(p) \/ Discard(p) \/ Examine(p) \/ Break(p) \/ TimeOut(p)
    \/ ReadForStage(p) \/ Install(p) \/ ReadForActivation(p) \/ WriteRegistry(p)
    \/ Release(p) \/ RemoveLock(p)
    \/ Crash(p)

StoreNext == LockAges \/ \E p \in Procs : ProcStep(p)

StoreSpec == StoreInit /\ [][StoreNext]_storeVars
----------------------------------------------------------------------------
(* Properties.                                                             *)

\* The registry lock excludes: two processes never both believe they hold it,
\* through crashes and removals of stale locks, unless a lock was taken from a
\* live process in one of the three ways _remove_stale_lock leaves open: its owner
\* runs on another host, its owner file is not written yet, or the lock that was
\* found stale is gone and another stands in its place when it is renamed.  In the
\* last two that process may be a local one, although docs/public_data.md:88 says
\* "A live local process's lock is not stolen": that there is no fourth way is what
\* the property shows.
LockExcludes ==
    usurped \/ Cardinality({p \in Procs : pc[p] \in Critical}) <= 1

\* A release that stage reported is on disk with that content for ever, even when
\* two processes are under the lock at once; and it is registered from then on, also
\* when an earlier process died between installing the directory and registering it,
\* unless the lock was usurped and a registry written from an older copy.
ReportedStaysRegistered ==
    \A r \in reported :
        /\ dirs[r[1]] = r[2]
        /\ usurped \/ registry.entry[r[1]].content = r[2]

\* The registry never names a release that is not installed as registered, its
\* active pointer, statuses and activation history agree, and no release appears
\* in the history twice, even when two processes are under the lock at once.
RegistryConsistent ==
    /\ StoreTypeOK
    /\ \A v \in Versions : Registered(registry, v) => dirs[v] = registry.entry[v].content
    /\ \A v \in Versions : registry.entry[v].status = "active" <=> v = registry.active
    /\ IsInjective(registry.history)
    /\ registry.active # Absent => Last(registry.history) = registry.active
    /\ ToSet(registry.history) =
           {v \in Versions : registry.entry[v].status \in {"active", "superseded"}}

\* The store keeps what the catalog promises its readers: through staging,
\* activation, rollback, crashes and removed locks, an installed release never
\* changes, a registered one stays registered and a dataset that has an active
\* release never loses it, until a live process is deprived of its lock.
Catalog == INSTANCE ReleaseCatalog WITH
    installed <- dirs,
    registered <- {v \in Versions : Registered(registry, v)},
    active <- registry.active,
    broken <- usurped,
    None <- Absent
ImplementsCatalog == Catalog!Spec
=============================================================================
