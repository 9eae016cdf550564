-------------------------- MODULE PinGCDurability --------------------------
(***************************************************************************)
(* What survives a restart.  Pins that were flushed are there again, with  *)
(* every block below them, when the only commands are pin add, repo gc,    *)
(* files writes and block puts.                                            *)
(***************************************************************************)
EXTENDS PinGCProofs

\* Nothing is unpinned, and nothing but the collector deletes blocks.
KeepOnly == Disciplined /\ Ops \cap {"pinRm", "blockRm", "repoRm"} = {}

(***************************************************************************)
(* The inductive invariant.                                                *)
(***************************************************************************)

\* pinner.lock is held from the fetch to the pin, and through a flush; a
\* flush runs under the PinLock.
FlushLocked ==
    \A c \in Client :
        /\ pc[c] \notin {"unpin", "rmLock", "filterPinned", "rmBlocks",
                        "removeLock", "remove", "delete"}
        /\ pc[c] \in {"fetch", "fetched", "flushPut"} => plock = c
        /\ pc[c] = "flushPut" => c \in readers
        /\ pc[c] \in Pinning \cup {"flushPut"} => job[c].op \in PinOps

\* The nodes of the state that is being flushed are in the blockstore.
FlushWritten ==
    \A c \in Client :
        pc[c] = "flushPut" => /\ {directPin, recursePin} \subseteq setNodes
                              /\ Pins \in rootNodes

\* The pinner's own nodes are those that the datastore key names, and the
\* recursive pins they hold are still pinned.
StateNamed ==
    /\ internalPin = dsRoot
    /\ dsRoot = NoState => durable = {}
    /\ dsRoot # NoState => durable = dsRoot.rec

\* A sweep spares the flushed state: its nodes, and what it pins.
SweepSpares ==
    \A c \in Client :
        pc[c] = "sweep" =>
            /\ job[c].keep = dsRoot
            /\ dsRoot # NoState =>
                   GraphOf(dsRoot.rec) \cup dsRoot.dir \subseteq job[c].set

DurableInv ==
    /\ PinInv
    /\ FlushLocked
    /\ FlushWritten
    /\ StateNamed
    /\ SweepSpares
    /\ PinStateLoadable
    /\ FlushedPresent
    /\ DurablePinned

\* Flushes keep to the locks.
LEMMA FlushLockStep ==
    ASSUME DurableInv, KeepOnly, [Next]_vars
    PROVE  FlushLocked'
<1> USE ClientAssumption, NoStateAssumption
    DEF DurableInv, PinInv, TypeInv, TypeOK, LockTypeOK, Job, NoJob, Admitted,
        LocksHeld, Pinning, Exclusive, Goto, blockVars, pinVars, lockVars,
        KeepOnly, Disciplined, FlushLocked, PinOps
<1>1. ASSUME NEW c \in Client, PinAdd(c) PROVE FlushLocked'
    BY <1>1 DEF PinAdd, Start, PinOps, PinLock
<1>2. ASSUME NEW c \in Client, PinRm(c) PROVE FlushLocked'
    BY Zenon, <1>2 DEF PinRm, Start
<1>3. ASSUME NEW c \in Client, PinUpdate(c) PROVE FlushLocked'
    BY Zenon, <1>3 DEF PinUpdate, Start
<1>4. ASSUME NEW c \in Client, GarbageCollect(c) PROVE FlushLocked'
    BY <1>4 DEF GarbageCollect, Start, GCLockRequest
<1>5. ASSUME NEW c \in Client, BlockRm(c) PROVE FlushLocked'
    BY Zenon, <1>5 DEF BlockRm, Start, GCLockRequest
<1>6. ASSUME NEW c \in Client, RepoRm(c) PROVE FlushLocked'
    BY Zenon, <1>6 DEF RepoRm, Start, GCLockRequest
<1>7. ASSUME NEW c \in Client, FilesAdd(c) PROVE FlushLocked'
    BY <1>7 DEF FilesAdd, Start
<1>8. ASSUME NEW c \in Client, GCLocked(c) PROVE FlushLocked'
    BY <1>8 DEF GCLocked, GCLock
<1>9. ASSUME NEW c \in Client, RmLocked(c) PROVE FlushLocked'
    BY Zenon, <1>9 DEF RmLocked, GCLock
<1>10. ASSUME NEW c \in Client, RemoveLocked(c) PROVE FlushLocked'
    BY Zenon, <1>10 DEF RemoveLocked, GCLock
<1>11. ASSUME NEW c \in Client, FetchGraph(c) PROVE FlushLocked'
    BY <1>11 DEF FetchGraph
<1>12. ASSUME NEW c \in Client, FetchGraphFails(c) PROVE FlushLocked'
    BY <1>12 DEF FetchGraphFails
<1>13. ASSUME NEW c \in Client, PinRecursiveDone(c) PROVE FlushLocked'
    BY <1>13 DEF PinRecursiveDone
<1>14. ASSUME NEW c \in Client, FlushPut(c) PROVE FlushLocked'
    BY <1>14 DEF FlushPut, AfterFlush, Return
<1>15. ASSUME NEW c \in Client, FlushFails(c) PROVE FlushLocked'
    BY <1>15 DEF FlushFails, AfterFlush, Return
<1>16. ASSUME NEW c \in Client, PinAddReturn(c) PROVE FlushLocked'
    BY <1>16 DEF PinAddReturn, Return, PinUnlock
<1>17. ASSUME NEW c \in Client, DiffEnumerate(c) PROVE FlushLocked'
    BY Zenon, <1>17 DEF DiffEnumerate
<1>18. ASSUME NEW c \in Client, DiffEnumerateFails(c) PROVE FlushLocked'
    BY Zenon, <1>18 DEF DiffEnumerateFails, Return
<1>19. ASSUME NEW c \in Client, PinUpdateDone(c) PROVE FlushLocked'
    BY Zenon, <1>19 DEF PinUpdateDone, Return
<1>20. ASSUME NEW c \in Client, MarkRecursive(c) PROVE FlushLocked'
    BY <1>20 DEF MarkRecursive, Mark
<1>21. ASSUME NEW c \in Client, MarkBestEffort(c) PROVE FlushLocked'
    BY <1>21 DEF MarkBestEffort, Mark
<1>22. ASSUME NEW c \in Client, MarkDirect(c) PROVE FlushLocked'
    BY <1>22 DEF MarkDirect, Mark
<1>23. ASSUME NEW c \in Client, MarkInternal(c) PROVE FlushLocked'
    BY <1>23 DEF MarkInternal, Return, GCUnlock
<1>24. ASSUME NEW c \in Client, SweepBlock(c) PROVE FlushLocked'
    BY Zenon, <1>24 DEF SweepBlock
<1>25. ASSUME NEW c \in Client, SweepPinNode(c) PROVE FlushLocked'
    BY Zenon, <1>25 DEF SweepPinNode
<1>26. ASSUME NEW c \in Client, GCReturn(c) PROVE FlushLocked'
    BY <1>26 DEF GCReturn, Return, GCUnlock
<1>27. ASSUME NEW c \in Client, FilterPinned(c) PROVE FlushLocked'
    BY Zenon, <1>27 DEF FilterPinned
<1>28. ASSUME NEW c \in Client, RmBlock(c) PROVE FlushLocked'
    BY Zenon, <1>28 DEF RmBlock
<1>29. ASSUME NEW c \in Client, RmReturn(c) PROVE FlushLocked'
    BY Zenon, <1>29 DEF RmReturn, Return, GCUnlock
<1>30. ASSUME NEW c \in Client, Clear(c) PROVE FlushLocked'
    BY Zenon, <1>30 DEF Clear, GCLockRequest
<1>31. ASSUME NEW c \in Client, RemoveCheck(c) PROVE FlushLocked'
    BY Zenon, <1>31 DEF RemoveCheck
<1>32. ASSUME NEW c \in Client, RemoveDelete(c) PROVE FlushLocked'
    BY Zenon, <1>32 DEF RemoveDelete
<1>33. ASSUME NEW c \in Client, RemoveReturn(c) PROVE FlushLocked'
    BY Zenon, <1>33 DEF RemoveReturn, Return, GCUnlock
<1>34. ASSUME NEW c \in Client, FilesFlush(c) PROVE FlushLocked'
    BY <1>34 DEF FilesFlush, Return
<1>35. ASSUME NEW c \in Client, Flush(c) PROVE FlushLocked'
    BY <1>35 DEF Flush
<1>36. ASSUME NEW c \in Client, PathFails(c) PROVE FlushLocked'
    BY <1>36 DEF PathFails, BetweenPaths, Return
<1>37. ASSUME NEW c \in Client, PinAddCancel(c) PROVE FlushLocked'
    BY Zenon, <1>37 DEF PinAddCancel, PinUnlock
<1>38. ASSUME NEW c \in Client, NEW b \in Target, PinRecursive(c, b) PROVE FlushLocked'
    BY <1>38 DEF PinRecursive, BetweenPaths
<1>39. ASSUME NEW c \in Client, NEW b \in Target, PinDirect(c, b) PROVE FlushLocked'
    BY <1>39 DEF PinDirect, BetweenPaths
<1>40. ASSUME NEW c \in Client, NEW b \in Target, Unpin(c, b) PROVE FlushLocked'
    BY Zenon, <1>40 DEF Unpin
<1>41. CASE PutBlock
    BY Zenon, <1>41 DEF PutBlock
<1>42. CASE Restart
    BY Zenon, <1>42 DEF Restart, LockReset
<1>43. CASE UNCHANGED vars
    BY Zenon, <1>43 DEF vars
<1> QED
    BY ZenonT(30), <1>1, <1>2, <1>3, <1>4, <1>5, <1>6, <1>7, <1>8, <1>9, <1>10,
       <1>11, <1>12, <1>13, <1>14, <1>15, <1>16, <1>17, <1>18, <1>19, <1>20,
       <1>21, <1>22, <1>23, <1>24, <1>25, <1>26, <1>27, <1>28, <1>29, <1>30,
       <1>31, <1>32, <1>33, <1>34, <1>35, <1>36, <1>37, <1>38, <1>39, <1>40,
       <1>41, <1>42, <1>43
    DEF Next, Begin, Acquire, Continue, LeaveLoop

\* Nothing changes the pins, or deletes pin nodes, during a flush.
LEMMA FlushWriteStep ==
    ASSUME DurableInv, KeepOnly, [Next]_vars
    PROVE  FlushWritten'
<1> USE ClientAssumption, NoStateAssumption
    DEF DurableInv, PinInv, TypeInv, TypeOK, LockTypeOK, Job, NoJob, Admitted,
        LocksHeld, Pinning, Exclusive, Goto, blockVars, pinVars, lockVars,
        KeepOnly, Disciplined, FlushLocked, FlushWritten, Pins
<1>1. ASSUME NEW c \in Client, PinAdd(c) PROVE FlushWritten'
    BY <1>1 DEF PinAdd, Start, PinOps, PinLock
<1>2. ASSUME NEW c \in Client, PinRm(c) PROVE FlushWritten'
    BY Zenon, <1>2 DEF PinRm, Start
<1>3. ASSUME NEW c \in Client, PinUpdate(c) PROVE FlushWritten'
    BY Zenon, <1>3 DEF PinUpdate, Start
<1>4. ASSUME NEW c \in Client, GarbageCollect(c) PROVE FlushWritten'
    BY ZenonT(30), <1>4 DEF GarbageCollect, Start, GCLockRequest
<1>5. ASSUME NEW c \in Client, BlockRm(c) PROVE FlushWritten'
    BY Zenon, <1>5 DEF BlockRm, Start, GCLockRequest
<1>6. ASSUME NEW c \in Client, RepoRm(c) PROVE FlushWritten'
    BY Zenon, <1>6 DEF RepoRm, Start, GCLockRequest
<1>7. ASSUME NEW c \in Client, FilesAdd(c) PROVE FlushWritten'
    BY <1>7 DEF FilesAdd, Start
<1>8. ASSUME NEW c \in Client, GCLocked(c) PROVE FlushWritten'
    BY Zenon, <1>8 DEF GCLocked, GCLock
<1>9. ASSUME NEW c \in Client, RmLocked(c) PROVE FlushWritten'
    BY Zenon, <1>9 DEF RmLocked, GCLock
<1>10. ASSUME NEW c \in Client, RemoveLocked(c) PROVE FlushWritten'
    BY Zenon, <1>10 DEF RemoveLocked, GCLock
<1>11. ASSUME NEW c \in Client, FetchGraph(c) PROVE FlushWritten'
    BY Zenon, <1>11 DEF FetchGraph
<1>12. ASSUME NEW c \in Client, FetchGraphFails(c) PROVE FlushWritten'
    BY Zenon, <1>12 DEF FetchGraphFails
<1>13. ASSUME NEW c \in Client, PinRecursiveDone(c) PROVE FlushWritten'
    BY ZenonT(30), <1>13 DEF PinRecursiveDone
<1>14. ASSUME NEW c \in Client, FlushPut(c) PROVE FlushWritten'
    BY <1>14 DEF FlushPut, AfterFlush, Return
<1>15. ASSUME NEW c \in Client, FlushFails(c) PROVE FlushWritten'
    BY ZenonT(30), <1>15 DEF FlushFails, AfterFlush, Return
<1>16. ASSUME NEW c \in Client, PinAddReturn(c) PROVE FlushWritten'
    BY Zenon, <1>16 DEF PinAddReturn, Return, PinUnlock
<1>17. ASSUME NEW c \in Client, DiffEnumerate(c) PROVE FlushWritten'
    BY Zenon, <1>17 DEF DiffEnumerate
<1>18. ASSUME NEW c \in Client, DiffEnumerateFails(c) PROVE FlushWritten'
    BY Zenon, <1>18 DEF DiffEnumerateFails, Return
<1>19. ASSUME NEW c \in Client, PinUpdateDone(c) PROVE FlushWritten'
    BY Zenon, <1>19 DEF PinUpdateDone, Return
<1>20. ASSUME NEW c \in Client, MarkRecursive(c) PROVE FlushWritten'
    BY ZenonT(30), <1>20 DEF MarkRecursive, Mark
<1>21. ASSUME NEW c \in Client, MarkBestEffort(c) PROVE FlushWritten'
    BY Zenon, <1>21 DEF MarkBestEffort, Mark
<1>22. ASSUME NEW c \in Client, MarkDirect(c) PROVE FlushWritten'
    BY Zenon, <1>22 DEF MarkDirect, Mark
<1>23. ASSUME NEW c \in Client, MarkInternal(c) PROVE FlushWritten'
    BY <1>23 DEF MarkInternal, Return, GCUnlock
<1>24. ASSUME NEW c \in Client, SweepBlock(c) PROVE FlushWritten'
    BY Zenon, <1>24 DEF SweepBlock
<1>25. ASSUME NEW c \in Client, SweepPinNode(c) PROVE FlushWritten'
    BY Zenon, <1>25 DEF SweepPinNode
<1>26. ASSUME NEW c \in Client, GCReturn(c) PROVE FlushWritten'
    BY Zenon, <1>26 DEF GCReturn, Return, GCUnlock
<1>27. ASSUME NEW c \in Client, FilterPinned(c) PROVE FlushWritten'
    BY Zenon, <1>27 DEF FilterPinned
<1>28. ASSUME NEW c \in Client, RmBlock(c) PROVE FlushWritten'
    BY Zenon, <1>28 DEF RmBlock
<1>29. ASSUME NEW c \in Client, RmReturn(c) PROVE FlushWritten'
    BY Zenon, <1>29 DEF RmReturn, Return, GCUnlock
<1>30. ASSUME NEW c \in Client, Clear(c) PROVE FlushWritten'
    BY Zenon, <1>30 DEF Clear, GCLockRequest
<1>31. ASSUME NEW c \in Client, RemoveCheck(c) PROVE FlushWritten'
    BY Zenon, <1>31 DEF RemoveCheck
<1>32. ASSUME NEW c \in Client, RemoveDelete(c) PROVE FlushWritten'
    BY Zenon, <1>32 DEF RemoveDelete
<1>33. ASSUME NEW c \in Client, RemoveReturn(c) PROVE FlushWritten'
    BY Zenon, <1>33 DEF RemoveReturn, Return, GCUnlock
<1>34. ASSUME NEW c \in Client, FilesFlush(c) PROVE FlushWritten'
    BY ZenonT(30), <1>34 DEF FilesFlush, Return
<1>35. ASSUME NEW c \in Client, Flush(c) PROVE FlushWritten'
    BY Zenon, <1>35 DEF Flush
<1>36. ASSUME NEW c \in Client, PathFails(c) PROVE FlushWritten'
    BY <1>36 DEF PathFails, BetweenPaths, Return
<1>37. ASSUME NEW c \in Client, PinAddCancel(c) PROVE FlushWritten'
    BY Zenon, <1>37 DEF PinAddCancel, PinUnlock
<1>38. ASSUME NEW c \in Client, NEW b \in Target, PinRecursive(c, b) PROVE FlushWritten'
    BY <1>38 DEF PinRecursive, BetweenPaths
<1>39. ASSUME NEW c \in Client, NEW b \in Target, PinDirect(c, b) PROVE FlushWritten'
    BY <1>39 DEF PinDirect, BetweenPaths
<1>40. ASSUME NEW c \in Client, NEW b \in Target, Unpin(c, b) PROVE FlushWritten'
    BY Zenon, <1>40 DEF Unpin
<1>41. CASE PutBlock
    BY Zenon, <1>41 DEF PutBlock
<1>42. CASE Restart
    BY Zenon, <1>42 DEF Restart, LockReset
<1>43. CASE UNCHANGED vars
    BY Zenon, <1>43 DEF vars
<1> QED
    BY ZenonT(30), <1>1, <1>2, <1>3, <1>4, <1>5, <1>6, <1>7, <1>8, <1>9, <1>10,
       <1>11, <1>12, <1>13, <1>14, <1>15, <1>16, <1>17, <1>18, <1>19, <1>20,
       <1>21, <1>22, <1>23, <1>24, <1>25, <1>26, <1>27, <1>28, <1>29, <1>30,
       <1>31, <1>32, <1>33, <1>34, <1>35, <1>36, <1>37, <1>38, <1>39, <1>40,
       <1>41, <1>42, <1>43
    DEF Next, Begin, Acquire, Continue, LeaveLoop

\* A flush names the new state in the datastore and in internalPin at once.
LEMMA StateStep ==
    ASSUME DurableInv, KeepOnly, [Next]_vars
    PROVE  StateNamed' /\ DurablePinned'
<1> USE ClientAssumption, NoStateAssumption
    DEF DurableInv, PinInv, TypeInv, TypeOK, LockTypeOK, Job, NoJob, Admitted,
        LocksHeld, Pinning, Exclusive, Goto, blockVars, pinVars, lockVars,
        KeepOnly, Disciplined, FlushLocked, StateNamed, DurablePinned, PinStateLoadable, Pins, PinState
<1>1. ASSUME NEW c \in Client, PinAdd(c) PROVE StateNamed' /\ DurablePinned'
    BY Zenon, <1>1 DEF PinAdd, Start, PinOps, PinLock
<1>2. ASSUME NEW c \in Client, PinRm(c) PROVE StateNamed' /\ DurablePinned'
    BY Zenon, <1>2 DEF PinRm, Start
<1>3. ASSUME NEW c \in Client, PinUpdate(c) PROVE StateNamed' /\ DurablePinned'
    BY Zenon, <1>3 DEF PinUpdate, Start
<1>4. ASSUME NEW c \in Client, GarbageCollect(c) PROVE StateNamed' /\ DurablePinned'
    BY Zenon, <1>4 DEF GarbageCollect, Start, GCLockRequest
<1>5. ASSUME NEW c \in Client, BlockRm(c) PROVE StateNamed' /\ DurablePinned'
    BY Zenon, <1>5 DEF BlockRm, Start, GCLockRequest
<1>6. ASSUME NEW c \in Client, RepoRm(c) PROVE StateNamed' /\ DurablePinned'
    BY Zenon, <1>6 DEF RepoRm, Start, GCLockRequest
<1>7. ASSUME NEW c \in Client, FilesAdd(c) PROVE StateNamed' /\ DurablePinned'
    BY Zenon, <1>7 DEF FilesAdd, Start
<1>8. ASSUME NEW c \in Client, GCLocked(c) PROVE StateNamed' /\ DurablePinned'
    BY Zenon, <1>8 DEF GCLocked, GCLock
<1>9. ASSUME NEW c \in Client, RmLocked(c) PROVE StateNamed' /\ DurablePinned'
    BY Zenon, <1>9 DEF RmLocked, GCLock
<1>10. ASSUME NEW c \in Client, RemoveLocked(c) PROVE StateNamed' /\ DurablePinned'
    BY Zenon, <1>10 DEF RemoveLocked, GCLock
<1>11. ASSUME NEW c \in Client, FetchGraph(c) PROVE StateNamed' /\ DurablePinned'
    BY Zenon, <1>11 DEF FetchGraph
<1>12. ASSUME NEW c \in Client, FetchGraphFails(c) PROVE StateNamed' /\ DurablePinned'
    BY Zenon, <1>12 DEF FetchGraphFails
<1>13. ASSUME NEW c \in Client, PinRecursiveDone(c) PROVE StateNamed' /\ DurablePinned'
    BY Zenon, <1>13 DEF PinRecursiveDone
<1>14. ASSUME NEW c \in Client, FlushPut(c) PROVE StateNamed' /\ DurablePinned'
    BY <1>14 DEF FlushPut, AfterFlush, Return
<1>15. ASSUME NEW c \in Client, FlushFails(c) PROVE StateNamed' /\ DurablePinned'
    BY Zenon, <1>15 DEF FlushFails, AfterFlush, Return
<1>16. ASSUME NEW c \in Client, PinAddReturn(c) PROVE StateNamed' /\ DurablePinned'
    BY Zenon, <1>16 DEF PinAddReturn, Return, PinUnlock
<1>17. ASSUME NEW c \in Client, DiffEnumerate(c) PROVE StateNamed' /\ DurablePinned'
    BY Zenon, <1>17 DEF DiffEnumerate
<1>18. ASSUME NEW c \in Client, DiffEnumerateFails(c) PROVE StateNamed' /\ DurablePinned'
    BY Zenon, <1>18 DEF DiffEnumerateFails, Return
<1>19. ASSUME NEW c \in Client, PinUpdateDone(c) PROVE StateNamed' /\ DurablePinned'
    BY Zenon, <1>19 DEF PinUpdateDone, Return
<1>20. ASSUME NEW c \in Client, MarkRecursive(c) PROVE StateNamed' /\ DurablePinned'
    BY Zenon, <1>20 DEF MarkRecursive, Mark
<1>21. ASSUME NEW c \in Client, MarkBestEffort(c) PROVE StateNamed' /\ DurablePinned'
    BY Zenon, <1>21 DEF MarkBestEffort, Mark
<1>22. ASSUME NEW c \in Client, MarkDirect(c) PROVE StateNamed' /\ DurablePinned'
    BY Zenon, <1>22 DEF MarkDirect, Mark
<1>23. ASSUME NEW c \in Client, MarkInternal(c) PROVE StateNamed' /\ DurablePinned'
    BY Zenon, <1>23 DEF MarkInternal, Return, GCUnlock
<1>24. ASSUME NEW c \in Client, SweepBlock(c) PROVE StateNamed' /\ DurablePinned'
    BY Zenon, <1>24 DEF SweepBlock
<1>25. ASSUME NEW c \in Client, SweepPinNode(c) PROVE StateNamed' /\ DurablePinned'
    BY Zenon, <1>25 DEF SweepPinNode
<1>26. ASSUME NEW c \in Client, GCReturn(c) PROVE StateNamed' /\ DurablePinned'
    BY Zenon, <1>26 DEF GCReturn, Return, GCUnlock
<1>27. ASSUME NEW c \in Client, FilterPinned(c) PROVE StateNamed' /\ DurablePinned'
    BY Zenon, <1>27 DEF FilterPinned
<1>28. ASSUME NEW c \in Client, RmBlock(c) PROVE StateNamed' /\ DurablePinned'
    BY Zenon, <1>28 DEF RmBlock
<1>29. ASSUME NEW c \in Client, RmReturn(c) PROVE StateNamed' /\ DurablePinned'
    BY Zenon, <1>29 DEF RmReturn, Return, GCUnlock
<1>30. ASSUME NEW c \in Client, Clear(c) PROVE StateNamed' /\ DurablePinned'
    BY Zenon, <1>30 DEF Clear, GCLockRequest
<1>31. ASSUME NEW c \in Client, RemoveCheck(c) PROVE StateNamed' /\ DurablePinned'
    BY Zenon, <1>31 DEF RemoveCheck
<1>32. ASSUME NEW c \in Client, RemoveDelete(c) PROVE StateNamed' /\ DurablePinned'
    BY Zenon, <1>32 DEF RemoveDelete
<1>33. ASSUME NEW c \in Client, RemoveReturn(c) PROVE StateNamed' /\ DurablePinned'
    BY Zenon, <1>33 DEF RemoveReturn, Return, GCUnlock
<1>34. ASSUME NEW c \in Client, FilesFlush(c) PROVE StateNamed' /\ DurablePinned'
    BY Zenon, <1>34 DEF FilesFlush, Return
<1>35. ASSUME NEW c \in Client, Flush(c) PROVE StateNamed' /\ DurablePinned'
    BY Zenon, <1>35 DEF Flush
<1>36. ASSUME NEW c \in Client, PathFails(c) PROVE StateNamed' /\ DurablePinned'
    BY Zenon, <1>36 DEF PathFails, BetweenPaths, Return
<1>37. ASSUME NEW c \in Client, PinAddCancel(c) PROVE StateNamed' /\ DurablePinned'
    BY Zenon, <1>37 DEF PinAddCancel, PinUnlock
<1>38. ASSUME NEW c \in Client, NEW b \in Target, PinRecursive(c, b) PROVE StateNamed' /\ DurablePinned'
    BY Zenon, <1>38 DEF PinRecursive, BetweenPaths
<1>39. ASSUME NEW c \in Client, NEW b \in Target, PinDirect(c, b) PROVE StateNamed' /\ DurablePinned'
    BY Zenon, <1>39 DEF PinDirect, BetweenPaths
<1>40. ASSUME NEW c \in Client, NEW b \in Target, Unpin(c, b) PROVE StateNamed' /\ DurablePinned'
    BY Zenon, <1>40 DEF Unpin
<1>41. CASE PutBlock
    BY Zenon, <1>41 DEF PutBlock
<1>42. CASE Restart
    BY ZenonT(30), <1>42 DEF Restart, LockReset
<1>43. CASE UNCHANGED vars
    BY Zenon, <1>43 DEF vars
<1> QED
    BY ZenonT(30), <1>1, <1>2, <1>3, <1>4, <1>5, <1>6, <1>7, <1>8, <1>9, <1>10,
       <1>11, <1>12, <1>13, <1>14, <1>15, <1>16, <1>17, <1>18, <1>19, <1>20,
       <1>21, <1>22, <1>23, <1>24, <1>25, <1>26, <1>27, <1>28, <1>29, <1>30,
       <1>31, <1>32, <1>33, <1>34, <1>35, <1>36, <1>37, <1>38, <1>39, <1>40,
       <1>41, <1>42, <1>43
    DEF Next, Begin, Acquire, Continue, LeaveLoop

\* The flushed state is marked before the sweep, and stays the flushed state.
LEMMA SweepStep ==
    ASSUME DurableInv, KeepOnly, [Next]_vars
    PROVE  SweepSpares'
<1> USE ClientAssumption, NoStateAssumption
    DEF DurableInv, PinInv, TypeInv, TypeOK, LockTypeOK, Job, NoJob, Admitted,
        LocksHeld, Pinning, Exclusive, Goto, blockVars, pinVars, lockVars,
        KeepOnly, Disciplined, FlushLocked, SweepSpares, StateNamed
<1>1. ASSUME NEW c \in Client, PinAdd(c) PROVE SweepSpares'
    BY <1>1 DEF PinAdd, Start, PinOps, PinLock
<1>2. ASSUME NEW c \in Client, PinRm(c) PROVE SweepSpares'
    BY Zenon, <1>2 DEF PinRm, Start
<1>3. ASSUME NEW c \in Client, PinUpdate(c) PROVE SweepSpares'
    BY Zenon, <1>3 DEF PinUpdate, Start
<1>4. ASSUME NEW c \in Client, GarbageCollect(c) PROVE SweepSpares'
    BY <1>4 DEF GarbageCollect, Start, GCLockRequest
<1>5. ASSUME NEW c \in Client, BlockRm(c) PROVE SweepSpares'
    BY Zenon, <1>5 DEF BlockRm, Start, GCLockRequest
<1>6. ASSUME NEW c \in Client, RepoRm(c) PROVE SweepSpares'
    BY Zenon, <1>6 DEF RepoRm, Start, GCLockRequest
<1>7. ASSUME NEW c \in Client, FilesAdd(c) PROVE SweepSpares'
    BY <1>7 DEF FilesAdd, Start
<1>8. ASSUME NEW c \in Client, GCLocked(c) PROVE SweepSpares'
    BY ZenonT(30), <1>8 DEF GCLocked, GCLock
<1>9. ASSUME NEW c \in Client, RmLocked(c) PROVE SweepSpares'
    BY Zenon, <1>9 DEF RmLocked, GCLock
<1>10. ASSUME NEW c \in Client, RemoveLocked(c) PROVE SweepSpares'
    BY Zenon, <1>10 DEF RemoveLocked, GCLock
<1>11. ASSUME NEW c \in Client, FetchGraph(c) PROVE SweepSpares'
    BY <1>11 DEF FetchGraph
<1>12. ASSUME NEW c \in Client, FetchGraphFails(c) PROVE SweepSpares'
    BY ZenonT(30), <1>12 DEF FetchGraphFails
<1>13. ASSUME NEW c \in Client, PinRecursiveDone(c) PROVE SweepSpares'
    BY <1>13 DEF PinRecursiveDone
<1>14. ASSUME NEW c \in Client, FlushPut(c) PROVE SweepSpares'
    BY <1>14 DEF FlushPut, AfterFlush, Return
<1>15. ASSUME NEW c \in Client, FlushFails(c) PROVE SweepSpares'
    BY <1>15 DEF FlushFails, AfterFlush, Return
<1>16. ASSUME NEW c \in Client, PinAddReturn(c) PROVE SweepSpares'
    BY ZenonT(30), <1>16 DEF PinAddReturn, Return, PinUnlock
<1>17. ASSUME NEW c \in Client, DiffEnumerate(c) PROVE SweepSpares'
    BY Zenon, <1>17 DEF DiffEnumerate
<1>18. ASSUME NEW c \in Client, DiffEnumerateFails(c) PROVE SweepSpares'
    BY Zenon, <1>18 DEF DiffEnumerateFails, Return
<1>19. ASSUME NEW c \in Client, PinUpdateDone(c) PROVE SweepSpares'
    BY Zenon, <1>19 DEF PinUpdateDone, Return
<1>20. ASSUME NEW c \in Client, MarkRecursive(c) PROVE SweepSpares'
    BY <1>20 DEF MarkRecursive, Mark
<1>21. ASSUME NEW c \in Client, MarkBestEffort(c) PROVE SweepSpares'
    BY <1>21 DEF MarkBestEffort, Mark
<1>22. ASSUME NEW c \in Client, MarkDirect(c) PROVE SweepSpares'
    BY <1>22 DEF MarkDirect, Mark
<1>23. ASSUME NEW c \in Client, MarkInternal(c) PROVE SweepSpares'
    <2> DEFINE items == StatePins(internalPin) \ job[c].set
               D == Descendants(store, job[c].set, items)
    <2>1. job[c].set \in SUBSET Block /\ items \in SUBSET Block
        BY DEF StatePins, PinState
    <2>2. job[c].set \cup items \subseteq D
        BY Zenon, <2>1, DescendantsClosed DEF WalkClosed
    <2>3. /\ dsRoot' = dsRoot
          /\ \A d \in Client : d # c => pc'[d] = pc[d] /\ job'[d] = job[d]
        BY ZenonT(60), <1>23 DEF MarkInternal, Return
    <2>4. ASSUME pc'[c] = "sweep"
          PROVE  /\ job'[c].keep = dsRoot
                 /\ dsRoot # NoState =>
                        GraphOf(dsRoot.rec) \cup dsRoot.dir \subseteq job'[c].set
        <3>1. /\ "errors" \notin job[c].opts
              /\ job' = [job EXCEPT ![c].set = D, ![c].keep = internalPin]
            BY Zenon, <1>23, <2>4 DEF MarkInternal, Return
        <3>2. job'[c].set = D /\ job'[c].keep = internalPin
            BY <3>1
        <3>3. GraphOf(recursePin) \subseteq job[c].set
            BY Zenon, <1>23, <3>1 DEF MarkedCover, MarkInternal
        <3>4. dsRoot # NoState =>
                  /\ GraphOf(dsRoot.rec) \subseteq job[c].set
                  /\ dsRoot.dir \subseteq job[c].set \cup items
            BY Zenon, <3>3, GraphOfFacts DEF DurablePinned, StatePins
        <3>5. internalPin = dsRoot
            OBVIOUS
        <3> HIDE DEF DurableInv, D, items
        <3> QED
            BY Zenon, <2>2, <3>2, <3>4, <3>5
    <2> QED
        BY Zenon, <2>3, <2>4
<1>24. ASSUME NEW c \in Client, SweepBlock(c) PROVE SweepSpares'
    BY Zenon, <1>24 DEF SweepBlock
<1>25. ASSUME NEW c \in Client, SweepPinNode(c) PROVE SweepSpares'
    BY Zenon, <1>25 DEF SweepPinNode
<1>26. ASSUME NEW c \in Client, GCReturn(c) PROVE SweepSpares'
    BY <1>26 DEF GCReturn, Return, GCUnlock
<1>27. ASSUME NEW c \in Client, FilterPinned(c) PROVE SweepSpares'
    BY Zenon, <1>27 DEF FilterPinned
<1>28. ASSUME NEW c \in Client, RmBlock(c) PROVE SweepSpares'
    BY Zenon, <1>28 DEF RmBlock
<1>29. ASSUME NEW c \in Client, RmReturn(c) PROVE SweepSpares'
    BY Zenon, <1>29 DEF RmReturn, Return, GCUnlock
<1>30. ASSUME NEW c \in Client, Clear(c) PROVE SweepSpares'
    BY Zenon, <1>30 DEF Clear, GCLockRequest
<1>31. ASSUME NEW c \in Client, RemoveCheck(c) PROVE SweepSpares'
    BY Zenon, <1>31 DEF RemoveCheck
<1>32. ASSUME NEW c \in Client, RemoveDelete(c) PROVE SweepSpares'
    BY Zenon, <1>32 DEF RemoveDelete
<1>33. ASSUME NEW c \in Client, RemoveReturn(c) PROVE SweepSpares'
    BY Zenon, <1>33 DEF RemoveReturn, Return, GCUnlock
<1>34. ASSUME NEW c \in Client, FilesFlush(c) PROVE SweepSpares'
    BY ZenonT(30), <1>34 DEF FilesFlush, Return
<1>35. ASSUME NEW c \in Client, Flush(c) PROVE SweepSpares'
    BY Zenon, <1>35 DEF Flush
<1>36. ASSUME NEW c \in Client, PathFails(c) PROVE SweepSpares'
    BY <1>36 DEF PathFails, BetweenPaths, Return
<1>37. ASSUME NEW c \in Client, PinAddCancel(c) PROVE SweepSpares'
    BY Zenon, <1>37 DEF PinAddCancel, PinUnlock
<1>38. ASSUME NEW c \in Client, NEW b \in Target, PinRecursive(c, b) PROVE SweepSpares'
    BY <1>38 DEF PinRecursive, BetweenPaths
<1>39. ASSUME NEW c \in Client, NEW b \in Target, PinDirect(c, b) PROVE SweepSpares'
    BY <1>39 DEF PinDirect, BetweenPaths
<1>40. ASSUME NEW c \in Client, NEW b \in Target, Unpin(c, b) PROVE SweepSpares'
    BY Zenon, <1>40 DEF Unpin
<1>41. CASE PutBlock
    BY Zenon, <1>41 DEF PutBlock
<1>42. CASE Restart
    BY Zenon, <1>42 DEF Restart, LockReset
<1>43. CASE UNCHANGED vars
    BY Zenon, <1>43 DEF vars
<1> QED
    BY Zenon, <1>1, <1>2, <1>3, <1>4, <1>5, <1>6, <1>7, <1>8, <1>9, <1>10,
       <1>11, <1>12, <1>13, <1>14, <1>15, <1>16, <1>17, <1>18, <1>19, <1>20,
       <1>21, <1>22, <1>23, <1>24, <1>25, <1>26, <1>27, <1>28, <1>29, <1>30,
       <1>31, <1>32, <1>33, <1>34, <1>35, <1>36, <1>37, <1>38, <1>39, <1>40,
       <1>41, <1>42, <1>43
    DEF Next, Begin, Acquire, Continue, LeaveLoop

\* The nodes of the flushed state are never deleted.
LEMMA LoadStep ==
    ASSUME DurableInv, KeepOnly, [Next]_vars
    PROVE  PinStateLoadable'
<1> USE ClientAssumption, NoStateAssumption
    DEF DurableInv, PinInv, TypeInv, TypeOK, LockTypeOK, Job, NoJob, Admitted,
        LocksHeld, Pinning, Exclusive, Goto, blockVars, pinVars, lockVars,
        KeepOnly, Disciplined, FlushLocked, PinStateLoadable, Loadable, KeptSets
<1>1. ASSUME NEW c \in Client, PinAdd(c) PROVE PinStateLoadable'
    BY Zenon, <1>1 DEF PinAdd, Start, PinOps, PinLock
<1>2. ASSUME NEW c \in Client, PinRm(c) PROVE PinStateLoadable'
    BY Zenon, <1>2 DEF PinRm, Start
<1>3. ASSUME NEW c \in Client, PinUpdate(c) PROVE PinStateLoadable'
    BY Zenon, <1>3 DEF PinUpdate, Start
<1>4. ASSUME NEW c \in Client, GarbageCollect(c) PROVE PinStateLoadable'
    BY Zenon, <1>4 DEF GarbageCollect, Start, GCLockRequest
<1>5. ASSUME NEW c \in Client, BlockRm(c) PROVE PinStateLoadable'
    BY Zenon, <1>5 DEF BlockRm, Start, GCLockRequest
<1>6. ASSUME NEW c \in Client, RepoRm(c) PROVE PinStateLoadable'
    BY Zenon, <1>6 DEF RepoRm, Start, GCLockRequest
<1>7. ASSUME NEW c \in Client, FilesAdd(c) PROVE PinStateLoadable'
    BY Zenon, <1>7 DEF FilesAdd, Start
<1>8. ASSUME NEW c \in Client, GCLocked(c) PROVE PinStateLoadable'
    BY Zenon, <1>8 DEF GCLocked, GCLock
<1>9. ASSUME NEW c \in Client, RmLocked(c) PROVE PinStateLoadable'
    BY Zenon, <1>9 DEF RmLocked, GCLock
<1>10. ASSUME NEW c \in Client, RemoveLocked(c) PROVE PinStateLoadable'
    BY Zenon, <1>10 DEF RemoveLocked, GCLock
<1>11. ASSUME NEW c \in Client, FetchGraph(c) PROVE PinStateLoadable'
    BY Zenon, <1>11 DEF FetchGraph
<1>12. ASSUME NEW c \in Client, FetchGraphFails(c) PROVE PinStateLoadable'
    BY Zenon, <1>12 DEF FetchGraphFails
<1>13. ASSUME NEW c \in Client, PinRecursiveDone(c) PROVE PinStateLoadable'
    BY Zenon, <1>13 DEF PinRecursiveDone
<1>14. ASSUME NEW c \in Client, FlushPut(c) PROVE PinStateLoadable'
    BY Zenon, <1>14 DEF FlushPut, AfterFlush, Return, FlushWritten,
        DropGarbage, Pins
<1>15. ASSUME NEW c \in Client, FlushFails(c) PROVE PinStateLoadable'
    BY Zenon, <1>15 DEF FlushFails, AfterFlush, Return, DropGarbage
<1>16. ASSUME NEW c \in Client, PinAddReturn(c) PROVE PinStateLoadable'
    BY Zenon, <1>16 DEF PinAddReturn, Return, PinUnlock
<1>17. ASSUME NEW c \in Client, DiffEnumerate(c) PROVE PinStateLoadable'
    BY Zenon, <1>17 DEF DiffEnumerate
<1>18. ASSUME NEW c \in Client, DiffEnumerateFails(c) PROVE PinStateLoadable'
    BY Zenon, <1>18 DEF DiffEnumerateFails, Return
<1>19. ASSUME NEW c \in Client, PinUpdateDone(c) PROVE PinStateLoadable'
    BY Zenon, <1>19 DEF PinUpdateDone, Return
<1>20. ASSUME NEW c \in Client, MarkRecursive(c) PROVE PinStateLoadable'
    BY Zenon, <1>20 DEF MarkRecursive, Mark
<1>21. ASSUME NEW c \in Client, MarkBestEffort(c) PROVE PinStateLoadable'
    BY Zenon, <1>21 DEF MarkBestEffort, Mark
<1>22. ASSUME NEW c \in Client, MarkDirect(c) PROVE PinStateLoadable'
    BY Zenon, <1>22 DEF MarkDirect, Mark
<1>23. ASSUME NEW c \in Client, MarkInternal(c) PROVE PinStateLoadable'
    BY Zenon, <1>23 DEF MarkInternal, Return, GCUnlock
<1>24. ASSUME NEW c \in Client, SweepBlock(c) PROVE PinStateLoadable'
    BY Zenon, <1>24 DEF SweepBlock
<1>25. ASSUME NEW c \in Client, SweepPinNode(c) PROVE PinStateLoadable'
    BY <1>25 DEF SweepPinNode, SweepSpares
<1>26. ASSUME NEW c \in Client, GCReturn(c) PROVE PinStateLoadable'
    BY Zenon, <1>26 DEF GCReturn, Return, GCUnlock
<1>27. ASSUME NEW c \in Client, FilterPinned(c) PROVE PinStateLoadable'
    BY Zenon, <1>27 DEF FilterPinned
<1>28. ASSUME NEW c \in Client, RmBlock(c) PROVE PinStateLoadable'
    BY Zenon, <1>28 DEF RmBlock
<1>29. ASSUME NEW c \in Client, RmReturn(c) PROVE PinStateLoadable'
    BY Zenon, <1>29 DEF RmReturn, Return, GCUnlock
<1>30. ASSUME NEW c \in Client, Clear(c) PROVE PinStateLoadable'
    BY Zenon, <1>30 DEF Clear, GCLockRequest
<1>31. ASSUME NEW c \in Client, RemoveCheck(c) PROVE PinStateLoadable'
    BY Zenon, <1>31 DEF RemoveCheck
<1>32. ASSUME NEW c \in Client, RemoveDelete(c) PROVE PinStateLoadable'
    BY Zenon, <1>32 DEF RemoveDelete
<1>33. ASSUME NEW c \in Client, RemoveReturn(c) PROVE PinStateLoadable'
    BY Zenon, <1>33 DEF RemoveReturn, Return, GCUnlock
<1>34. ASSUME NEW c \in Client, FilesFlush(c) PROVE PinStateLoadable'
    BY Zenon, <1>34 DEF FilesFlush, Return
<1>35. ASSUME NEW c \in Client, Flush(c) PROVE PinStateLoadable'
    BY ZenonT(30), <1>35 DEF Flush, Pins
<1>36. ASSUME NEW c \in Client, PathFails(c) PROVE PinStateLoadable'
    BY <1>36 DEF PathFails, BetweenPaths, Return
<1>37. ASSUME NEW c \in Client, PinAddCancel(c) PROVE PinStateLoadable'
    BY Zenon, <1>37 DEF PinAddCancel, PinUnlock
<1>38. ASSUME NEW c \in Client, NEW b \in Target, PinRecursive(c, b) PROVE PinStateLoadable'
    BY Zenon, <1>38 DEF PinRecursive, BetweenPaths
<1>39. ASSUME NEW c \in Client, NEW b \in Target, PinDirect(c, b) PROVE PinStateLoadable'
    BY Zenon, <1>39 DEF PinDirect, BetweenPaths
<1>40. ASSUME NEW c \in Client, NEW b \in Target, Unpin(c, b) PROVE PinStateLoadable'
    BY Zenon, <1>40 DEF Unpin
<1>41. CASE PutBlock
    BY Zenon, <1>41 DEF PutBlock
<1>42. CASE Restart
    BY Zenon, <1>42 DEF Restart, LockReset, DropGarbage
<1>43. CASE UNCHANGED vars
    BY Zenon, <1>43 DEF vars
<1> QED
    BY ZenonT(30), <1>1, <1>2, <1>3, <1>4, <1>5, <1>6, <1>7, <1>8, <1>9, <1>10,
       <1>11, <1>12, <1>13, <1>14, <1>15, <1>16, <1>17, <1>18, <1>19, <1>20,
       <1>21, <1>22, <1>23, <1>24, <1>25, <1>26, <1>27, <1>28, <1>29, <1>30,
       <1>31, <1>32, <1>33, <1>34, <1>35, <1>36, <1>37, <1>38, <1>39, <1>40,
       <1>41, <1>42, <1>43
    DEF Next, Begin, Acquire, Continue, LeaveLoop

\* What the flushed state pins is never deleted.
LEMMA FlushedStep ==
    ASSUME DurableInv, KeepOnly, [Next]_vars
    PROVE  FlushedPresent'
<1> USE ClientAssumption, NoStateAssumption
    DEF DurableInv, PinInv, TypeInv, TypeOK, LockTypeOK, Job, NoJob, Admitted,
        LocksHeld, Pinning, Exclusive, Goto, blockVars, pinVars, lockVars,
        KeepOnly, Disciplined, FlushLocked, FlushedPresent
<1>1. ASSUME NEW c \in Client, PinAdd(c) PROVE FlushedPresent'
    BY Zenon, <1>1 DEF PinAdd, Start, PinOps, PinLock
<1>2. ASSUME NEW c \in Client, PinRm(c) PROVE FlushedPresent'
    BY Zenon, <1>2 DEF PinRm, Start
<1>3. ASSUME NEW c \in Client, PinUpdate(c) PROVE FlushedPresent'
    BY Zenon, <1>3 DEF PinUpdate, Start
<1>4. ASSUME NEW c \in Client, GarbageCollect(c) PROVE FlushedPresent'
    BY Zenon, <1>4 DEF GarbageCollect, Start, GCLockRequest
<1>5. ASSUME NEW c \in Client, BlockRm(c) PROVE FlushedPresent'
    BY Zenon, <1>5 DEF BlockRm, Start, GCLockRequest
<1>6. ASSUME NEW c \in Client, RepoRm(c) PROVE FlushedPresent'
    BY Zenon, <1>6 DEF RepoRm, Start, GCLockRequest
<1>7. ASSUME NEW c \in Client, FilesAdd(c) PROVE FlushedPresent'
    BY Zenon, <1>7 DEF FilesAdd, Start
<1>8. ASSUME NEW c \in Client, GCLocked(c) PROVE FlushedPresent'
    BY Zenon, <1>8 DEF GCLocked, GCLock
<1>9. ASSUME NEW c \in Client, RmLocked(c) PROVE FlushedPresent'
    BY Zenon, <1>9 DEF RmLocked, GCLock
<1>10. ASSUME NEW c \in Client, RemoveLocked(c) PROVE FlushedPresent'
    BY Zenon, <1>10 DEF RemoveLocked, GCLock
<1>11. ASSUME NEW c \in Client, FetchGraph(c) PROVE FlushedPresent'
    BY Zenon, <1>11 DEF FetchGraph
<1>12. ASSUME NEW c \in Client, FetchGraphFails(c) PROVE FlushedPresent'
    BY Zenon, <1>12 DEF FetchGraphFails
<1>13. ASSUME NEW c \in Client, PinRecursiveDone(c) PROVE FlushedPresent'
    BY Zenon, <1>13 DEF PinRecursiveDone
<1>14. ASSUME NEW c \in Client, FlushPut(c) PROVE FlushedPresent'
    BY Zenon, <1>14 DEF FlushPut, AfterFlush, Return, PinnedPresent, Pins
<1>15. ASSUME NEW c \in Client, FlushFails(c) PROVE FlushedPresent'
    BY Zenon, <1>15 DEF FlushFails, AfterFlush, Return
<1>16. ASSUME NEW c \in Client, PinAddReturn(c) PROVE FlushedPresent'
    BY Zenon, <1>16 DEF PinAddReturn, Return, PinUnlock
<1>17. ASSUME NEW c \in Client, DiffEnumerate(c) PROVE FlushedPresent'
    BY Zenon, <1>17 DEF DiffEnumerate
<1>18. ASSUME NEW c \in Client, DiffEnumerateFails(c) PROVE FlushedPresent'
    BY Zenon, <1>18 DEF DiffEnumerateFails, Return
<1>19. ASSUME NEW c \in Client, PinUpdateDone(c) PROVE FlushedPresent'
    BY Zenon, <1>19 DEF PinUpdateDone, Return
<1>20. ASSUME NEW c \in Client, MarkRecursive(c) PROVE FlushedPresent'
    BY Zenon, <1>20 DEF MarkRecursive, Mark
<1>21. ASSUME NEW c \in Client, MarkBestEffort(c) PROVE FlushedPresent'
    BY Zenon, <1>21 DEF MarkBestEffort, Mark
<1>22. ASSUME NEW c \in Client, MarkDirect(c) PROVE FlushedPresent'
    BY Zenon, <1>22 DEF MarkDirect, Mark
<1>23. ASSUME NEW c \in Client, MarkInternal(c) PROVE FlushedPresent'
    BY Zenon, <1>23 DEF MarkInternal, Return, GCUnlock
<1>24. ASSUME NEW c \in Client, SweepBlock(c) PROVE FlushedPresent'
    BY <1>24 DEF SweepBlock, SweepSpares
<1>25. ASSUME NEW c \in Client, SweepPinNode(c) PROVE FlushedPresent'
    BY Zenon, <1>25 DEF SweepPinNode
<1>26. ASSUME NEW c \in Client, GCReturn(c) PROVE FlushedPresent'
    BY Zenon, <1>26 DEF GCReturn, Return, GCUnlock
<1>27. ASSUME NEW c \in Client, FilterPinned(c) PROVE FlushedPresent'
    BY Zenon, <1>27 DEF FilterPinned
<1>28. ASSUME NEW c \in Client, RmBlock(c) PROVE FlushedPresent'
    BY Zenon, <1>28 DEF RmBlock
<1>29. ASSUME NEW c \in Client, RmReturn(c) PROVE FlushedPresent'
    BY Zenon, <1>29 DEF RmReturn, Return, GCUnlock
<1>30. ASSUME NEW c \in Client, Clear(c) PROVE FlushedPresent'
    BY Zenon, <1>30 DEF Clear, GCLockRequest
<1>31. ASSUME NEW c \in Client, RemoveCheck(c) PROVE FlushedPresent'
    BY Zenon, <1>31 DEF RemoveCheck
<1>32. ASSUME NEW c \in Client, RemoveDelete(c) PROVE FlushedPresent'
    BY Zenon, <1>32 DEF RemoveDelete
<1>33. ASSUME NEW c \in Client, RemoveReturn(c) PROVE FlushedPresent'
    BY Zenon, <1>33 DEF RemoveReturn, Return, GCUnlock
<1>34. ASSUME NEW c \in Client, FilesFlush(c) PROVE FlushedPresent'
    BY Zenon, <1>34 DEF FilesFlush, Return
<1>35. ASSUME NEW c \in Client, Flush(c) PROVE FlushedPresent'
    BY Zenon, <1>35 DEF Flush
<1>36. ASSUME NEW c \in Client, PathFails(c) PROVE FlushedPresent'
    BY Zenon, <1>36 DEF PathFails, BetweenPaths, Return
<1>37. ASSUME NEW c \in Client, PinAddCancel(c) PROVE FlushedPresent'
    BY Zenon, <1>37 DEF PinAddCancel, PinUnlock
<1>38. ASSUME NEW c \in Client, NEW b \in Target, PinRecursive(c, b) PROVE FlushedPresent'
    BY Zenon, <1>38 DEF PinRecursive, BetweenPaths
<1>39. ASSUME NEW c \in Client, NEW b \in Target, PinDirect(c, b) PROVE FlushedPresent'
    BY Zenon, <1>39 DEF PinDirect, BetweenPaths
<1>40. ASSUME NEW c \in Client, NEW b \in Target, Unpin(c, b) PROVE FlushedPresent'
    BY Zenon, <1>40 DEF Unpin
<1>41. CASE PutBlock
    BY Zenon, <1>41 DEF PutBlock
<1>42. CASE Restart
    BY Zenon, <1>42 DEF Restart, LockReset
<1>43. CASE UNCHANGED vars
    BY Zenon, <1>43 DEF vars
<1> QED
    BY ZenonT(30), <1>1, <1>2, <1>3, <1>4, <1>5, <1>6, <1>7, <1>8, <1>9, <1>10,
       <1>11, <1>12, <1>13, <1>14, <1>15, <1>16, <1>17, <1>18, <1>19, <1>20,
       <1>21, <1>22, <1>23, <1>24, <1>25, <1>26, <1>27, <1>28, <1>29, <1>30,
       <1>31, <1>32, <1>33, <1>34, <1>35, <1>36, <1>37, <1>38, <1>39, <1>40,
       <1>41, <1>42, <1>43
    DEF Next, Begin, Acquire, Continue, LeaveLoop

\* With pin add, repo gc, files writes, block puts and restarts in any
\* interleaving: the pin state on disk can always be read back, what it pins
\* and what is pinned in memory is complete in the blockstore, and no
\* recursive pin that was flushed is lost.
THEOREM PinsSurviveRestart ==
    ASSUME KeepOnly
    PROVE  Spec => [](PinnedPresent /\ PinStateLoadable /\ FlushedPresent /\ DurablePinned)
<1>1. Init => DurableInv
    BY Zenon, PinInvInit DEF DurableInv, Init, Pinning, FlushLocked, FlushWritten,
       StateNamed, SweepSpares, PinStateLoadable, FlushedPresent, DurablePinned
<1>2. DurableInv /\ [Next]_vars => DurableInv'
    <2>1. KeepOnly => Disciplined
        BY Zenon DEF KeepOnly
    <2> QED
        BY Zenon, <2>1, TypeInvStep, LocksStep, FetchStep, CoverStep, PresentStep,
           FlushLockStep, FlushWriteStep, StateStep, SweepStep, LoadStep,
           FlushedStep
        DEF DurableInv, PinInv
<1>3. DurableInv => PinnedPresent /\ PinStateLoadable /\ FlushedPresent /\ DurablePinned
    BY Zenon DEF DurableInv, PinInv
<1> QED
    BY <1>1, <1>2, <1>3, PTL DEF Spec

\* The pin state on disk can be read back in every state: LoadPinner never
\* fails on a node that the collector took or that was not yet written.
THEOREM StateLoads ==
    ASSUME KeepOnly
    PROVE  Spec => []PinStateLoadable
BY PinsSurviveRestart, PTL

\* A restart at any point finds every block below the pins it loads.
THEOREM FlushedStays ==
    ASSUME KeepOnly
    PROVE  Spec => []FlushedPresent
BY PinsSurviveRestart, PTL

\* A recursive pin that a command flushed and reported stays pinned, through
\* collections, other flushes and restarts.
THEOREM DurableStays ==
    ASSUME KeepOnly
    PROVE  Spec => []DurablePinned
BY PinsSurviveRestart, PTL
=============================================================================
