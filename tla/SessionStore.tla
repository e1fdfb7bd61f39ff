---------------------------- MODULE SessionStore ----------------------------
(***************************************************************************)
(* The session files: <id>.json, replaced by writing <id>.json.tmp and     *)
(* renaming it.  Any file operation may fail, which the daemon at most     *)
(* logs, and the daemon may die between any two of them; the next daemon   *)
(* starts from the files it can read.  SessionLifecycle has each of these  *)
(* updates as one step that succeeds.                                      *)
(*                                                                         *)
(* Sessions are numbered in the order of their creation, so that one that  *)
(* uses the ID of an earlier one can be told apart from it.  The rest of a *)
(* record (output, times, PID) is not kept: an update rewrites the record. *)
(***************************************************************************)
EXTENDS Naturals

CONSTANTS ID,           \* session IDs
          Actor,        \* goroutines that change session files
          Nil,          \* no record, nobody
          Torn,         \* what a file holds that was not written to its end
          MaxSessions,  \* bound: sessions ever created
          MaxFaults,    \* bound: file operations that fail
          MaxCrashes    \* bound: times the daemon dies

ASSUME StoreAssumption ==
    /\ Nil \notin Actor /\ Nil \notin ID
    /\ Nil # Torn
    /\ \A s \in 1 .. MaxSessions : s # Nil
    /\ \A s \in 1 .. MaxSessions, c \in BOOLEAN :
        [session |-> s, closed |-> c] \notin {Nil, Torn}
    /\ MaxSessions \in Nat /\ MaxFaults \in Nat /\ MaxCrashes \in Nat

VARIABLES
    sessions,   \* Daemon.sessions: per ID the record of its session, or Nil
    disk,       \* <id>.json: a record, Torn, or Nil when there is none
    tmp,        \* <id>.json.tmp
    fileLock,   \* per ID: the actor between lockSessionFile and its unlock
    mu,         \* SessionStore.mu: who holds it
    pc, op, sid, meta,  \* per actor: where it is, its operation, the ID and
                        \* the session it is about
    image,      \* per actor: the record it is about to write
    made, faults, crashes,
    home,       \* the ID of each session
    saved,      \* history: sessions whose first save succeeded
    asked,      \* history: sessions somebody closed, purged or rolled back
    ended,      \* history: those of which that succeeded
    failed      \* history: those whose creation or end was not written, or
                \* whose file a starting daemon could not read

files == <<disk, tmp>>
locals == <<op, sid, meta, image>>
bounds == <<faults, crashes>>
history == <<saved, asked, ended, failed>>
vars == <<sessions, disk, tmp, fileLock, mu, pc, op, sid, meta, image,
          made, faults, crashes, home, saved, asked, ended, failed>>

Session == 1 .. MaxSessions
Record == [session : Session, closed : BOOLEAN]
Op == {"save", "MarkClosed", "remove", "rollback", "update"}
PC == {"idle", "call", "enter", "load", "create", "write", "rename", "remove"}

Init ==
    /\ sessions = [id \in ID |-> Nil]
    /\ disk = [id \in ID |-> Nil]
    /\ tmp = [id \in ID |-> Nil]
    /\ fileLock = [id \in ID |-> Nil]
    /\ mu = Nil
    /\ pc = [a \in Actor |-> "idle"]
    /\ op = [a \in Actor |-> Nil]
    /\ sid = [a \in Actor |-> Nil]
    /\ meta = [a \in Actor |-> Nil]
    /\ image = [a \in Actor |-> Nil]
    /\ made = 0 /\ faults = 0 /\ crashes = 0
    /\ home = [s \in Session |-> Nil]
    /\ saved = {} /\ asked = {} /\ ended = {} /\ failed = {}

\* Their variables are gone when the functions of A are over.
Forget(A) ==
    /\ pc' = [a \in Actor |-> IF a \in A THEN "idle" ELSE pc[a]]
    /\ op' = [a \in Actor |-> IF a \in A THEN Nil ELSE op[a]]
    /\ sid' = [a \in Actor |-> IF a \in A THEN Nil ELSE sid[a]]
    /\ meta' = [a \in Actor |-> IF a \in A THEN Nil ELSE meta[a]]
    /\ image' = [a \in Actor |-> IF a \in A THEN Nil ELSE image[a]]

-----------------------------------------------------------------------------
(* The daemon's side: under the file lock, the registry first and the file *)
(* after it.                                                               *)

\* A request: create or purge an ID; close, roll back or update a session
\* somebody has looked up earlier.
Call(a) ==
    /\ pc[a] = "idle"
    /\ \E id \in ID, o \in Op :
        /\ op' = [op EXCEPT ![a] = o]
        /\ sid' = [sid EXCEPT ![a] = id]
        /\ IF o \in {"MarkClosed", "rollback", "update"}
           THEN \E s \in Session :
                    home[s] = id /\ meta' = [meta EXCEPT ![a] = s]
           ELSE meta' = [meta EXCEPT ![a] = Nil]
    /\ pc' = [pc EXCEPT ![a] = "call"]
    /\ UNCHANGED <<sessions, files, fileLock, mu, image, made, bounds, home, history>>

\* Mutant of LockFile: nobody waits for the lock.
LockFileUnchecked(a) ==
    fileLock' = [fileLock EXCEPT ![sid[a]] = a]

LockFile(a) ==
    /\ fileLock[sid[a]] = Nil
    /\ fileLock' = [fileLock EXCEPT ![sid[a]] = a]

\* The meta is still the registered one.
Current(a) == sessions[sid[a]] # Nil /\ sessions[sid[a]].session = meta[a]

\* The check finds nothing to do; the file lock is released at once.
Declines(a) ==
    \/ op[a] = "save" /\ sessions[sid[a]] # Nil
    \/ op[a] \in {"MarkClosed", "rollback"} /\ ~Current(a)
    \/ op[a] = "update" /\ sessions[sid[a]] # [session |-> meta[a], closed |-> FALSE]

Decline(a) ==
    /\ pc[a] = "call"
    /\ fileLock[sid[a]] = Nil
    /\ Declines(a)
    /\ Forget({a})
    /\ UNCHANGED <<sessions, files, fileLock, mu, made, bounds, home, history>>

\* NewSession: the new meta is registered.
Register(a) ==
    /\ pc[a] = "call" /\ op[a] = "save"
    /\ made < MaxSessions
    /\ LockFile(a)
    /\ ~Declines(a)
    /\ LET r == [session |-> made + 1, closed |-> FALSE] IN
        /\ sessions' = [sessions EXCEPT ![sid[a]] = r]
        /\ image' = [image EXCEPT ![a] = r]
    /\ made' = made + 1
    /\ home' = [home EXCEPT ![made + 1] = sid[a]]
    /\ meta' = [meta EXCEPT ![a] = made + 1]
    /\ pc' = [pc EXCEPT ![a] = "enter"]
    /\ UNCHANGED <<files, mu, op, sid, bounds, history>>

\* markSessionMetaClosed: the registered meta is closed.
Close(a) ==
    /\ pc[a] = "call" /\ op[a] = "MarkClosed"
    /\ LockFile(a)
    /\ ~Declines(a)
    /\ sessions' = [sessions EXCEPT ![sid[a]].closed = TRUE]
    /\ asked' = asked \union {meta[a]}
    /\ pc' = [pc EXCEPT ![a] = "enter"]
    /\ UNCHANGED <<files, mu, locals, made, bounds, home, saved, ended, failed>>

\* PurgeSession: whatever is registered under the ID goes.
Purge(a) ==
    /\ pc[a] = "call" /\ op[a] = "remove"
    /\ LockFile(a)
    /\ LET s == sessions[sid[a]] IN
        /\ meta' = [meta EXCEPT ![a] = IF s = Nil THEN Nil ELSE s.session]
        /\ asked' = asked \union IF s = Nil THEN {} ELSE {s.session}
    /\ sessions' = [sessions EXCEPT ![sid[a]] = Nil]
    /\ pc' = [pc EXCEPT ![a] = "enter"]
    /\ UNCHANGED <<files, mu, op, sid, image, made, bounds, home, saved, ended, failed>>

\* rollbackNewSession: the meta is taken out again.
Rollback(a) ==
    /\ pc[a] = "call" /\ op[a] = "rollback"
    /\ LockFile(a)
    /\ ~Declines(a)
    /\ sessions' = [sessions EXCEPT ![sid[a]] = Nil]
    /\ asked' = asked \union {meta[a]}
    /\ pc' = [pc EXCEPT ![a] = "enter"]
    /\ UNCHANGED <<files, mu, locals, made, bounds, home, saved, ended, failed>>

\* persistCurrentSession: the check has passed.
Persist(a) ==
    /\ pc[a] = "call" /\ op[a] = "update"
    /\ LockFile(a)
    /\ ~Declines(a)
    /\ pc' = [pc EXCEPT ![a] = "enter"]
    /\ UNCHANGED <<sessions, files, mu, locals, made, bounds, home, history>>

-----------------------------------------------------------------------------
(* The store.                                                              *)

\* Each public operation is one critical section of mu.
Enter(a) ==
    /\ pc[a] = "enter"
    /\ mu = Nil
    /\ mu' = a
    /\ pc' = [pc EXCEPT ![a] = CASE op[a] = "save" -> "create"
                                 [] op[a] \in {"remove", "rollback"} -> "remove"
                                 [] OTHER -> "load"]
    /\ UNCHANGED <<sessions, files, fileLock, locals, made, bounds, home, history>>

\* It closes or removes a session.
Ends(a) == op[a] \notin {"save", "update"} /\ meta[a] # Nil

\* The operation is over, without an error: mu and the file lock are free.
Succeeds(a) ==
    /\ saved' = IF op[a] = "save" THEN saved \union {meta[a]} ELSE saved
    /\ ended' = IF Ends(a)
                THEN ended \union {meta[a]} ELSE ended
    /\ UNCHANGED <<failed, faults>>

\* It is over with an error, which is only logged.
Fails(a) ==
    /\ failed' = IF op[a] # "update" /\ meta[a] # Nil
                 THEN failed \union {meta[a]} ELSE failed
    /\ UNCHANGED <<saved, ended>>

Return(a) ==
    /\ mu' = Nil
    /\ fileLock' = [fileLock EXCEPT ![sid[a]] = Nil]
    /\ Forget({a})
    /\ UNCHANGED <<sessions, made, crashes, home, asked>>

\* What UpdateOutput and its like, and MarkClosed, write in place of r.
NewRecord(a, r) == IF op[a] = "MarkClosed" THEN [r EXCEPT !.closed = TRUE] ELSE r

\* loadLocked of a file that is there and whole.
Load(a) ==
    /\ pc[a] = "load"
    /\ disk[sid[a]] \in Record
    /\ op[a] = "update" => ~disk[sid[a]].closed
    /\ image' = [image EXCEPT ![a] = NewRecord(a, disk[sid[a]])]
    /\ pc' = [pc EXCEPT ![a] = "create"]
    /\ UNCHANGED <<sessions, files, fileLock, mu, op, sid, meta, made, bounds, home, history>>

\* An update leaves a closed record alone, and reports no error.
LoadClosed(a) ==
    /\ pc[a] = "load" /\ op[a] = "update"
    /\ disk[sid[a]] \in Record /\ disk[sid[a]].closed
    /\ Succeeds(a)
    /\ Return(a)
    /\ UNCHANGED files

\* There is no file, or it does not parse.
LoadFails(a) ==
    /\ pc[a] = "load"
    /\ disk[sid[a]] \notin Record
    /\ Fails(a)
    /\ Return(a)
    /\ UNCHANGED <<files, faults>>

\* Mutant of Create: the file itself is emptied first.
CreateEmptying(a) ==
    /\ pc[a] = "create"
    /\ tmp' = [tmp EXCEPT ![sid[a]] = Torn]
    /\ disk' = [disk EXCEPT ![sid[a]] = Torn]
    /\ pc' = [pc EXCEPT ![a] = "write"]
    /\ UNCHANGED <<sessions, fileLock, mu, locals, made, bounds, home, history>>

\* os.WriteFile first creates or empties the temporary file, ...
Create(a) ==
    /\ pc[a] = "create"
    /\ tmp' = [tmp EXCEPT ![sid[a]] = Torn]
    /\ pc' = [pc EXCEPT ![a] = "write"]
    /\ UNCHANGED <<sessions, disk, fileLock, mu, locals, made, bounds, home, history>>

\* ... and then fills it.
Fill(a) ==
    /\ pc[a] = "write"
    /\ tmp' = [tmp EXCEPT ![sid[a]] = image[a]]
    /\ pc' = [pc EXCEPT ![a] = "rename"]
    /\ UNCHANGED <<sessions, disk, fileLock, mu, locals, made, bounds, home, history>>

Rename(a) ==
    /\ pc[a] = "rename"
    /\ disk' = [disk EXCEPT ![sid[a]] = tmp[sid[a]]]
    /\ tmp' = [tmp EXCEPT ![sid[a]] = Nil]
    /\ Succeeds(a)
    /\ Return(a)

\* removeLocked: that there is no file is no error.
Remove(a) ==
    /\ pc[a] = "remove"
    /\ disk' = [disk EXCEPT ![sid[a]] = Nil]
    /\ UNCHANGED tmp
    /\ Succeeds(a)
    /\ Return(a)

\* Mutant of IOFails: the error is not passed on.
IOFailsSilently(a) ==
    /\ pc[a] \in {"load", "create", "write", "rename", "remove"}
    /\ faults < MaxFaults
    /\ faults' = faults + 1
    /\ saved' = IF op[a] = "save" THEN saved \union {meta[a]} ELSE saved
    /\ ended' = IF Ends(a)
                THEN ended \union {meta[a]} ELSE ended
    /\ Return(a)
    /\ UNCHANGED <<files, failed>>

\* The file operation fails; what was there stays there.
IOFails(a) ==
    /\ pc[a] \in {"load", "create", "write", "rename", "remove"}
    /\ faults < MaxFaults
    /\ faults' = faults + 1
    /\ Fails(a)
    /\ Return(a)
    /\ UNCHANGED files

\* list skips what does not parse and what is closed.
Restorable(id) == disk[id] \in Record /\ ~disk[id].closed

\* The daemon dies, and the next one restores what list returns.  The file of
\* each ID in unread cannot be read, which list passes over in silence; when
\* it cannot read the directory, restoreSessions restores nothing.
Crash ==
    /\ crashes < MaxCrashes
    /\ crashes' = crashes + 1
    /\ \E unread \in SUBSET {id \in ID : Restorable(id)} :
        /\ \/ unread = {} /\ UNCHANGED faults
           \/ unread # {} /\ faults < MaxFaults /\ faults' = faults + 1
        /\ sessions' = [id \in ID |->
                IF Restorable(id) /\ id \notin unread THEN disk[id] ELSE Nil]
        /\ failed' = failed \union {disk[id].session : id \in unread}
    /\ fileLock' = [id \in ID |-> Nil]
    /\ mu' = Nil
    /\ Forget(Actor)
    /\ UNCHANGED <<files, made, home, saved, asked, ended>>

Next ==
    \/ Crash
    \/ \E a \in Actor :
        \/ Call(a) \/ Decline(a) \/ Register(a) \/ Close(a) \/ Purge(a)
        \/ Rollback(a) \/ Persist(a) \/ Enter(a)
        \/ Load(a) \/ LoadClosed(a) \/ LoadFails(a)
        \/ Create(a) \/ Fill(a) \/ Rename(a) \/ Remove(a) \/ IOFails(a)

Spec == Init /\ [][Next]_vars

-----------------------------------------------------------------------------
\* Every variable has its type.
TypeOK ==
    /\ sessions \in [ID -> Record \union {Nil}]
    /\ disk \in [ID -> Record \union {Nil, Torn}]
    /\ tmp \in [ID -> Record \union {Nil, Torn}]
    /\ fileLock \in [ID -> Actor \union {Nil}]
    /\ mu \in Actor \union {Nil}
    /\ pc \in [Actor -> PC]
    /\ op \in [Actor -> Op \union {Nil}]
    /\ sid \in [Actor -> ID \union {Nil}]
    /\ meta \in [Actor -> Session \union {Nil}]
    /\ image \in [Actor -> Record \union {Nil}]
    /\ \A a \in Actor :
        pc[a] \in {"create", "write", "rename"} => image[a] \in Record
    /\ made \in 0 .. MaxSessions /\ faults \in 0 .. MaxFaults
    /\ crashes \in 0 .. MaxCrashes
    /\ home \in [Session -> ID \union {Nil}]
    /\ \A h \in {saved, asked, ended, failed} : h \subseteq Session

\* A session whose creation was saved, and that nobody has closed or removed,
\* is there and open: no crash in the middle of an update, no failed update
\* and no operation on another session loses it.  Only a starting daemon that
\* cannot read its file does: the session is not served, and a later session
\* of the same ID takes its file.
SavedSurvives ==
    \A s \in saved \ (asked \union failed) :
        sessions[home[s]] = [session |-> s, closed |-> FALSE]

\* A session whose close or removal was written never comes back, although
\* updates by ID run beside it and the next daemon restores what it finds.
EndedStaysEnded ==
    \A id \in ID, s \in ended :
        sessions[id] # [session |-> s, closed |-> FALSE]

\* While nobody works on a file, it says what the registry says, except about
\* a session whose own creation or end could not be written, or that could not
\* be read at a start: a failure is not passed on to the next session of the
\* same ID.
FailureStaysOwn ==
    \A id \in ID :
        fileLock[id] = Nil =>
            IF sessions[id] # Nil
            THEN sessions[id].session \in failed \/ disk[id] = sessions[id]
            ELSE disk[id] # Nil => disk[id].closed \/ disk[id].session \in failed
=============================================================================
