----------------------------- MODULE JournalStore -----------------------------
(***************************************************************************)
(* Journal.WriteTo and Load (internal/journal/store.go) on a file system   *)
(* with a page cache: overlapping writers and readers, failing system      *)
(* calls, killed processes and power loss between any two calls.           *)
(*                                                                         *)
(* A write w is one call of WriteTo; it has an inode of its own, so w also *)
(* names that inode and the journal in it.                                 *)
(***************************************************************************)
EXTENDS Naturals, Sequences

CONSTANTS
    Writes,       \* calls of WriteTo
    Valid,        \* the calls whose journal passes Validate
    Readers,      \* calls of Load
    DirSyncs,     \* the file system can fsync a directory (else EINVAL)
    MaxFaults     \* bound on failing calls, kills and power losses

ASSUME StoreAssumption ==
    /\ Valid \subseteq Writes
    /\ DirSyncs \in BOOLEAN
    /\ MaxFaults \in Nat

None == "none"

ASSUME NoneAssumption == None \notin Writes

VARIABLES
    stage,    \* per write: the next call of WriteTo, or how it ended
    cache,    \* per write: the file's content as processes see it
    disk,     \* per write: the file's content on stable storage
    temps,    \* writes whose temporary name is in the directory
    links,    \* the inodes the journal path has named, oldest first
    synced,   \* how many of those renames are on stable storage
    planted,  \* inodes with a second hard link, outside the journal path
    loose,    \* inodes with a loose mode or another owner
    rpc,      \* per reader: the next call of Load
    rfile,    \* per reader: the inode its descriptor refers to
    result,   \* per reader: the journal Load returned, or None
    faults

writer == <<stage, cache, disk, temps, links, synced>>
reader == <<rpc, rfile, result>>
tamper == <<planted, loose>>
vars   == <<writer, reader, tamper, faults>>

Contents == {"empty", "torn", "full"}
Stages   == {"idle", "chmod", "write", "sync", "close", "rename", "syncdir",
             "acked", "failed", "killed", "lost"}

Current == links[Len(links)]

Init ==
    /\ stage = [w \in Writes |-> "idle"]
    /\ cache = [w \in Writes |-> "empty"]
    /\ disk = [w \in Writes |-> "empty"]
    /\ temps = {}
    /\ links = <<>>
    /\ synced = 0
    /\ planted = {}
    /\ loose = {}
    /\ rpc = [r \in Readers |-> "idle"]
    /\ rfile = [r \in Readers |-> None]
    /\ result = [r \in Readers |-> None]
    /\ faults = MaxFaults

-------------------------------------------------------------------------------
Goto(w, next) == stage' = [stage EXCEPT ![w] = next]

Fault == faults > 0 /\ faults' = faults - 1

\* Validate comes before the first system call; os.CreateTemp makes a new 0600
\* file in the journal's own directory.
CreateTemp(w) ==
    /\ stage[w] = "idle"
    /\ \/ /\ w \in Valid
          /\ Goto(w, "chmod")
          /\ temps' = temps \cup {w}
          /\ UNCHANGED faults
       \/ /\ w \notin Valid
          /\ Goto(w, "failed")
          /\ UNCHANGED <<temps, faults>>
       \/ /\ w \in Valid
          /\ Fault
          /\ Goto(w, "failed")
          /\ UNCHANGED temps
    /\ UNCHANGED <<cache, disk, links, synced, tamper, reader>>

\* A call before the rename failed: the temporary file is removed (cleanup).
FailsLeaking(w) ==   \* mutant: an error path without cleanup()
    /\ stage[w] \in {"chmod", "write", "sync", "close", "rename"}
    /\ Fault
    /\ Goto(w, "failed")
    /\ IF stage[w] = "write" THEN cache' = [cache EXCEPT ![w] = "torn"]
                             ELSE UNCHANGED cache
    /\ temps' = IF stage[w] = "sync" THEN temps ELSE temps \ {w}
    /\ UNCHANGED <<disk, links, synced, tamper, reader>>

Fails(w) ==
    /\ stage[w] \in {"chmod", "write", "sync", "close", "rename"}
    /\ Fault
    /\ Goto(w, "failed")
    /\ IF stage[w] = "write" THEN cache' = [cache EXCEPT ![w] = "torn"]
                             ELSE UNCHANGED cache
    /\ temps' = temps \ {w}
    /\ UNCHANGED <<disk, links, synced, tamper, reader>>

Chmod(w) ==
    /\ stage[w] = "chmod"
    /\ Goto(w, "write")
    /\ UNCHANGED <<cache, disk, temps, links, synced, tamper, reader, faults>>

Write(w) ==
    /\ stage[w] = "write"
    /\ cache' = [cache EXCEPT ![w] = "full"]
    /\ Goto(w, "sync")
    /\ UNCHANGED <<disk, temps, links, synced, tamper, reader, faults>>

SyncSkipped(w) ==   \* mutant: no fsync of the file before the rename
    /\ stage[w] = "sync"
    /\ Goto(w, "close")
    /\ UNCHANGED <<disk, cache, temps, links, synced, tamper, reader, faults>>

Sync(w) ==
    /\ stage[w] = "sync"
    /\ disk' = [disk EXCEPT ![w] = cache[w]]
    /\ Goto(w, "close")
    /\ UNCHANGED <<cache, temps, links, synced, tamper, reader, faults>>

Close(w) ==
    /\ stage[w] = "close"
    /\ Goto(w, "rename")
    /\ UNCHANGED <<cache, disk, temps, links, synced, tamper, reader, faults>>

Rename(w) ==
    /\ stage[w] = "rename"
    /\ w \in temps
    /\ temps' = temps \ {w}
    /\ links' = Append(links, w)
    /\ Goto(w, "syncdir")
    /\ UNCHANGED <<cache, disk, synced, tamper, reader, faults>>

\* fsyncDir: the directory's renames so far become durable. EINVAL is taken for
\* success; any other error makes WriteTo fail although the journal is in place.
FsyncDirSkipped(w) ==   \* mutant: WriteTo returns right after the rename
    /\ stage[w] = "syncdir"
    /\ Goto(w, "acked")
    /\ UNCHANGED <<cache, disk, temps, links, synced, tamper, reader, faults>>

FsyncDir(w) ==
    /\ stage[w] = "syncdir"
    /\ \/ /\ Goto(w, "acked")
          /\ synced' = IF DirSyncs THEN Len(links) ELSE synced
          /\ UNCHANGED faults
       \/ /\ Fault
          /\ Goto(w, "failed")
          /\ UNCHANGED synced
    /\ UNCHANGED <<cache, disk, temps, links, tamper, reader>>

Running(w) == stage[w] \notin {"idle", "acked", "failed", "killed", "lost"}

\* The writing process is killed; the page cache survives it.
Kill(w) ==
    /\ Running(w)
    /\ Fault
    /\ Goto(w, "killed")
    /\ IF stage[w] = "write" THEN cache' \in {cache, [cache EXCEPT ![w] = "torn"]}
                             ELSE UNCHANGED cache
    /\ UNCHANGED <<disk, temps, links, synced, tamper, reader>>

\* What stable storage may show of an inode: the last synced content or, without
\* a sync, anything.
Recovered(w) == IF disk[w] = "full" THEN {"full"} ELSE Contents

\* Power loss: every process is gone, and a suffix of the renames after the last
\* directory sync may be undone, which may bring their temporary names back.
PowerLoss ==
    /\ Fault
    /\ \E keep \in synced .. Len(links) :
         LET undone == {links[x] : x \in keep + 1 .. Len(links)}
         IN  /\ links' = SubSeq(links, 1, keep)
             /\ synced' = keep
             /\ temps' \in SUBSET (temps \cup undone)
             /\ stage' = [w \in Writes |-> IF Running(w) \/ w \in undone
                                           THEN "lost" ELSE stage[w]]
    /\ cache' \in [Writes -> Contents]
    /\ \A w \in Writes : cache'[w] \in Recovered(w)
    /\ disk' = cache'
    /\ rpc' = [r \in Readers |-> "idle"]
    /\ rfile' = [r \in Readers |-> None]
    /\ UNCHANGED <<tamper, result>>

-------------------------------------------------------------------------------
\* Somebody makes a hard link to the current journal, loosens its mode or gives
\* it another owner.
Spoil ==
    /\ Fault
    /\ links # <<>>
    /\ \/ planted' = planted \cup {Current} /\ UNCHANGED loose
       \/ loose' = loose \cup {Current} /\ UNCHANGED planted
    /\ UNCHANGED <<writer, reader>>

\* Load ends with the journal w, or refused (None).
Returns(r, w) ==
    /\ rpc' = [rpc EXCEPT ![r] = "idle"]
    /\ rfile' = [rfile EXCEPT ![r] = None]
    /\ result' = [result EXCEPT ![r] = w]
    /\ UNCHANGED <<writer, tamper, faults>>

\* open with O_NOFOLLOW: the descriptor stays on this inode, whatever is renamed
\* over the path later.
Open(r) ==
    /\ rpc[r] = "idle"
    /\ IF links = <<>>
       THEN Returns(r, None)
       ELSE /\ rpc' = [rpc EXCEPT ![r] = "stat"]
            /\ rfile' = [rfile EXCEPT ![r] = Current]
            /\ result' = [result EXCEPT ![r] = None]
            /\ UNCHANGED <<writer, tamper, faults>>

\* st_nlink: the journal path's own link, gone once another journal is renamed
\* over it, and a planted one.
Nlink(w) == (IF w = Current THEN 1 ELSE 0) + (IF w \in planted THEN 1 ELSE 0)

\* fstat: exactly one link, the mode and the owner as written.
Stat(r) ==
    /\ rpc[r] = "stat"
    /\ IF Nlink(rfile[r]) = 1 /\ rfile[r] \notin loose
       THEN /\ rpc' = [rpc EXCEPT ![r] = "read"]
            /\ UNCHANGED <<writer, rfile, result, tamper, faults>>
       ELSE Returns(r, None)

\* Read everything, decode strictly (a torn document does not parse), Validate.
Read(r) ==
    /\ rpc[r] = "read"
    /\ Returns(r, IF cache[rfile[r]] = "full" /\ rfile[r] \in Valid
                  THEN rfile[r] ELSE None)

-------------------------------------------------------------------------------
WriteTo(w) ==
    \/ CreateTemp(w)
    \/ Chmod(w)
    \/ Write(w)
    \/ Sync(w)
    \/ Close(w)
    \/ Rename(w)
    \/ FsyncDir(w)
    \/ Fails(w)

\* A system call of Load failed.
LoadFails(r) ==
    /\ rpc[r] # "idle"
    /\ Fault
    /\ rpc' = [rpc EXCEPT ![r] = "idle"]
    /\ rfile' = [rfile EXCEPT ![r] = None]
    /\ result' = [result EXCEPT ![r] = None]
    /\ UNCHANGED <<writer, tamper>>

Load(r) == Open(r) \/ Stat(r) \/ Read(r) \/ LoadFails(r)

Next ==
    \/ \E w \in Writes : WriteTo(w) \/ Kill(w)
    \/ \E r \in Readers : Load(r)
    \/ Spoil
    \/ PowerLoss

Spec == Init /\ [][Next]_vars

-------------------------------------------------------------------------------
TypeOK ==
    /\ stage \in [Writes -> Stages]
    /\ cache \in [Writes -> Contents]
    /\ disk \in [Writes -> Contents]
    /\ temps \subseteq Writes
    /\ links \in Seq(Writes)
    /\ synced \in 0 .. Len(links)
    /\ planted \subseteq Writes
    /\ loose \subseteq Writes
    /\ rpc \in [Readers -> {"idle", "stat", "read"}]
    /\ rfile \in [Readers -> Writes \cup {None}]
    /\ result \in [Readers -> Writes \cup {None}]
    /\ faults \in Nat

\* Atomic replacement: whatever the journal path names, and whatever a Load in
\* progress has its descriptor on, is a complete and valid journal, also after a
\* power loss in the middle of any number of WriteTo calls.
NeverTorn ==
    /\ \A x \in 1 .. Len(links) : cache[links[x]] = "full" /\ links[x] \in Valid
    /\ \A r \in Readers : rfile[r] # None =>
         cache[rfile[r]] = "full" /\ rfile[r] \in Valid

\* A journal that WriteTo has acknowledged is not lost: a rename to it is on
\* stable storage, where directories can be synced, so that after a power loss the
\* path still names it or a later one.
AckedIsDurable ==
    DirSyncs => \A w \in Writes : stage[w] = "acked" =>
                  \E x \in 1 .. synced : links[x] = w

\* No error path leaves a temporary file behind: only a kill or a power loss may.
NoTempLeak ==
    \A w \in Writes : stage[w] \in {"acked", "failed"} => w \notin temps
===============================================================================
