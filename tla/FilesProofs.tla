----------------------------- MODULE FilesProofs -----------------------------
(***************************************************************************)
(* The files the program keeps, for any number of processes, of faults and *)
(* of power losses.                                                        *)
(*                                                                         *)
(* JournalStore: a journal in place is never torn, an acknowledged one is  *)
(* durable, and no error path leaks its temporary file.                    *)
(*                                                                         *)
(* KeyFiles: a key reported written is whole and keeps its path, a partial *)
(* one is never taken for a key, and keys come from private files.         *)
(***************************************************************************)
EXTENDS JournalStore, KeyFiles, TLAPS

\* The stages after the rename: an inode in one of them is never written again.
Past == {"syncdir", "acked", "failed", "killed", "lost"}

\* A journal that is complete, for processes and on stable storage.
Complete(w) ==
    /\ cache[w] = "full" /\ disk[w] = "full"
    /\ w \in Valid
    /\ stage[w] \in Past

\* How far the file of a write has come when its next call is due.
Progress ==
    \A w \in Writes :
      /\ stage[w] \in {"chmod", "write", "sync", "close", "rename", "syncdir"} => w \in Valid
      /\ stage[w] \in {"sync", "close", "rename", "syncdir"} => cache[w] = "full"
      /\ stage[w] \in {"close", "rename", "syncdir"} => disk[w] = "full"

LinksComplete == \A i \in 1 .. Len(links) : Complete(links[i])

OpenComplete == \A r \in Readers : rfile[r] # None => Complete(rfile[r])

\* Between the rename and the directory sync the path has named this journal.
Linked ==
    \A w \in Writes : stage[w] = "syncdir" =>
      \E i \in 1 .. Len(links) : links[i] = w

TempsOwned ==
    \A w \in Writes : stage[w] \in {"idle", "syncdir", "acked", "failed"} => w \notin temps

IInv ==
    /\ TypeOK
    /\ Progress
    /\ LinksComplete
    /\ OpenComplete
    /\ Linked
    /\ AckedIsDurable
    /\ TempsOwned

-------------------------------------------------------------------------------
\* The empty directory satisfies the invariant.
LEMMA StoreInit == Init => IInv
  <1> SUFFICES ASSUME Init PROVE IInv
    OBVIOUS
  <1>1. TypeOK
    BY StoreAssumption DEF Init, TypeOK, Stages, Contents
  <1>2. Progress /\ TempsOwned /\ Linked /\ AckedIsDurable /\ OpenComplete
    BY DEF Init, Progress, TempsOwned, Linked, AckedIsDurable, OpenComplete
  <1>3. LinksComplete
    BY DEF Init, LinksComplete
  <1> QED
    BY <1>1, <1>2, <1>3 DEF IInv

\* Every step leaves the variables in their types.
LEMMA StoreType == TypeOK /\ Next => TypeOK'
  <1> SUFFICES ASSUME TypeOK, Next PROVE TypeOK'
    OBVIOUS
  <1> USE DEF TypeOK, Stages, Contents
  <1>F. faults' \in Nat
    <2>1. Fault => faults' \in Nat
      BY DEF Fault
    <2>2. UNCHANGED faults => faults' \in Nat
      OBVIOUS
    <2> QED
      BY <2>1, <2>2 DEF Next, WriteTo, CreateTemp, Chmod, Write, Sync, Close, Rename,
         FsyncDir, Fails, Kill, Load, Open, Stat, Read, LoadFails, Returns, Spoil, PowerLoss
  <1>1. ASSUME NEW w \in Writes, WriteTo(w) \/ Kill(w) PROVE TypeOK'
    <2> USE DEF Goto, reader, tamper
    <2>1. CASE CreateTemp(w)
      BY <2>1, <1>F DEF CreateTemp
    <2>2. CASE Chmod(w)
      BY <2>2, <1>F DEF Chmod
    <2>3. CASE Write(w)
      BY <2>3, <1>F DEF Write
    <2>4. CASE Sync(w)
      BY <2>4, <1>F DEF Sync
    <2>5. CASE Close(w)
      BY <2>5, <1>F DEF Close
    <2>6. CASE Rename(w)
      <3>1. links' \in Seq(Writes) /\ Len(links') = Len(links) + 1
        BY <2>6 DEF Rename
      <3> QED
        BY <2>6, <3>1, <1>F DEF Rename
    <2>7. CASE FsyncDir(w)
      <3>1. synced' \in 0 .. Len(links')
        BY <2>7 DEF FsyncDir
      <3> QED
        BY <2>7, <3>1, <1>F DEF FsyncDir
    <2>8. CASE Fails(w)
      <3>1. cache' \in [Writes -> Contents]
        BY <2>8 DEF Fails
      <3> QED
        BY <2>8, <3>1, <1>F DEF Fails
    <2>9. CASE Kill(w)
      <3>1. cache' \in [Writes -> Contents]
        BY <2>9 DEF Kill
      <3> QED
        BY <2>9, <3>1, <1>F DEF Kill
    <2> QED
      BY <1>1, <2>1, <2>2, <2>3, <2>4, <2>5, <2>6, <2>7, <2>8, <2>9 DEF WriteTo
  <1>2. ASSUME NEW r \in Readers, Load(r) PROVE TypeOK'
    <2> USE DEF writer, tamper, Returns
    <2>1. CASE Open(r)
      <3>1. links # <<>> => Current \in Writes
        BY DEF Current
      <3> QED
        BY <2>1, <3>1, <1>F, ZenonT(60) DEF Open
    <2>2. CASE Stat(r)
      BY <2>2, <1>F, ZenonT(60) DEF Stat
    <2>3. CASE Read(r)
      BY <2>3, <1>F, StoreAssumption DEF Read
    <2>4. CASE LoadFails(r)
      BY <2>4, <1>F DEF LoadFails
    <2> QED
      BY <1>2, <2>1, <2>2, <2>3, <2>4 DEF Load
  <1>3. CASE Spoil
    <2>1. Current \in Writes
      BY <1>3 DEF Spoil, Current
    <2> QED
      BY <1>3, <2>1, <1>F DEF Spoil, writer, reader
  <1>4. CASE PowerLoss
    <2>1. PICK keep \in synced .. Len(links) :
            /\ links' = SubSeq(links, 1, keep)
            /\ synced' = keep
            /\ temps' \in SUBSET (temps \cup {links[i] : i \in keep + 1 .. Len(links)})
            /\ stage' = [w \in Writes |->
                 IF Running(w) \/ w \in {links[i] : i \in keep + 1 .. Len(links)}
                 THEN "lost" ELSE stage[w]]
      BY <1>4 DEF PowerLoss
    <2>2. /\ keep \in Nat /\ keep <= Len(links)
          /\ Len(links') = keep /\ links' \in Seq(Writes)
      BY <2>1
    <2>3. \A i \in keep + 1 .. Len(links) : links[i] \in Writes
      BY <2>2
    <2>4. temps' \subseteq Writes
      BY <2>1, <2>3
    <2>5. stage' \in [Writes -> Stages]
      BY <2>1
    <2>6. synced' \in 0 .. Len(links')
      BY <2>1, <2>2
    <2> QED
      BY <1>4, <1>F, <2>2, <2>4, <2>5, <2>6 DEF PowerLoss, tamper
  <1> QED
    BY <1>1, <1>2, <1>3, <1>4 DEF Next

\* A call of one write leaves the files of the others alone and never touches a
\* complete journal again; only Rename changes what the path has named.
LEMMA WriterKeeps ==
    ASSUME IInv, NEW w \in Writes, WriteTo(w) \/ Kill(w)
    PROVE  /\ \A v \in Writes : Complete(v) => Complete(v)'
           /\ \A v \in Writes : v # w =>
                /\ stage'[v] = stage[v] /\ cache'[v] = cache[v] /\ disk'[v] = disk[v]
                /\ v \in temps' <=> v \in temps
           /\ \A v \in Writes : stage[v] \in Past => stage'[v] \in Past
           /\ Rename(w) \/ links' = links
           /\ rfile' = rfile
  <1> USE DEF TypeOK, IInv, Goto, Stages, Contents, Past
  <1>1. CASE CreateTemp(w)
    BY <1>1 DEF CreateTemp, Complete, reader
  <1>2. CASE Chmod(w)
    BY <1>2 DEF Chmod, Complete, reader
  <1>3. CASE Write(w)
    BY <1>3 DEF Write, Complete, reader
  <1>4. CASE Sync(w)
    BY <1>4 DEF Sync, Complete, reader
  <1>5. CASE Close(w)
    BY <1>5 DEF Close, Complete, reader
  <1>6. CASE Rename(w)
    BY <1>6 DEF Rename, Complete, reader
  <1>7. CASE FsyncDir(w)
    BY <1>7 DEF FsyncDir, Complete, reader
  <1>8. CASE Fails(w)
    BY <1>8 DEF Fails, Complete, reader
  <1>9. CASE Kill(w)
    BY <1>9 DEF Kill, Running, Complete, reader
  <1> QED
    BY <1>1, <1>2, <1>3, <1>4, <1>5, <1>6, <1>7, <1>8, <1>9 DEF WriteTo

\* A call of WriteTo, or its kill, preserves the invariant.
LEMMA StoreWriter ==
    ASSUME IInv, NEW w \in Writes, WriteTo(w) \/ Kill(w)
    PROVE  Progress' /\ LinksComplete' /\ OpenComplete' /\ Linked'
             /\ AckedIsDurable' /\ TempsOwned'
  <1>K. /\ \A v \in Writes : Complete(v) => Complete(v)'
        /\ \A v \in Writes : v # w =>
             /\ stage'[v] = stage[v] /\ cache'[v] = cache[v] /\ disk'[v] = disk[v]
             /\ v \in temps' <=> v \in temps
        /\ Rename(w) \/ links' = links
        /\ rfile' = rfile
    BY WriterKeeps
  <1>T. TypeOK /\ Progress /\ TempsOwned
    BY DEF IInv
  <1>0. \/ CreateTemp(w) \/ Chmod(w) \/ Write(w) \/ Sync(w) \/ Close(w)
        \/ Rename(w) \/ FsyncDir(w) \/ Fails(w) \/ Kill(w)
    BY DEF WriteTo
  <1>1. Progress'
    <2>1. /\ stage'[w] \in {"chmod", "write", "sync", "close", "rename", "syncdir"} => w \in Valid
          /\ stage'[w] \in {"sync", "close", "rename", "syncdir"} => cache'[w] = "full"
          /\ stage'[w] \in {"close", "rename", "syncdir"} => disk'[w] = "full"
      <3> USE <1>T DEF TypeOK, Progress, Goto, Stages, Contents
      <3>1. CASE CreateTemp(w)
        BY <3>1 DEF CreateTemp
      <3>2. CASE Chmod(w) \/ Close(w) \/ Rename(w)
        BY <3>2 DEF Chmod, Close, Rename
      <3>3. CASE Write(w) \/ Sync(w)
        BY <3>3 DEF Write, Sync
      <3>4. CASE FsyncDir(w) \/ Fails(w) \/ Kill(w)
        BY <3>4 DEF FsyncDir, Fails, Kill
      <3> QED
        BY <1>0, <3>1, <3>2, <3>3, <3>4
    <2> QED
      BY <2>1, <1>K, <1>T DEF Progress
  <1>2. LinksComplete'
    <2>1. CASE Rename(w)
      <3>1. Complete(w)'
        BY <2>1, <1>T, <1>K DEF Rename, Complete, Progress, TypeOK, Goto, Past
      <3>2. /\ Len(links') = Len(links) + 1
            /\ \A i \in 1 .. Len(links) : links'[i] = links[i] /\ links[i] \in Writes
            /\ links'[Len(links) + 1] = w
        BY <2>1, <1>T DEF Rename, TypeOK
      <3>3. \A i \in 1 .. Len(links) : Complete(links[i])'
        BY <1>K, <3>2 DEF IInv, LinksComplete, Complete
      <3>4. \A i \in 1 .. Len(links) + 1 : i \in 1 .. Len(links) \/ i = Len(links) + 1
        BY <1>T DEF TypeOK
      <3> QED
        BY <3>1, <3>2, <3>3, <3>4 DEF LinksComplete, Complete
    <2>2. CASE links' = links
      <3>1. \A i \in 1 .. Len(links) : links[i] \in Writes
        BY <1>T DEF TypeOK
      <3> QED
        BY <2>2, <3>1, <1>K DEF IInv, LinksComplete, Complete
    <2> QED
      BY <2>1, <2>2, <1>K
  <1>3. OpenComplete'
    <2>1. \A r \in Readers : rfile[r] \in Writes \cup {None}
      BY <1>T DEF TypeOK
    <2> QED
      BY <2>1, <1>K DEF IInv, OpenComplete, Complete
  <1>4. Linked'
    <2>1. CASE Rename(w)
      <3>1. /\ Len(links') = Len(links) + 1 /\ Len(links) \in Nat
            /\ \A i \in 1 .. Len(links) : links'[i] = links[i]
            /\ links'[Len(links) + 1] = w
        BY <2>1, <1>T DEF Rename, TypeOK
      <3> QED
        BY <3>1, <1>K DEF IInv, Linked
    <2>2. CASE links' = links
      <3>1. stage'[w] # "syncdir" \/ Rename(w)
        BY <1>0, <1>T DEF CreateTemp, Chmod, Write, Sync, Close, FsyncDir, Fails, Kill,
           Goto, TypeOK
      <3> QED
        BY <2>1, <2>2, <3>1, <1>K DEF IInv, Linked
    <2> QED
      BY <2>1, <2>2, <1>K
  <1>5. AckedIsDurable'
    <2> SUFFICES ASSUME DirSyncs, NEW v \in Writes, stage'[v] = "acked"
                 PROVE  \E i \in 1 .. synced' : links'[i] = v
      BY DEF AckedIsDurable
    <2>1. /\ synced <= synced' /\ synced \in Nat /\ synced' \in Nat
          /\ synced <= Len(links) /\ Len(links) \in Nat
          /\ \A i \in 1 .. Len(links) : links'[i] = links[i]
      BY <1>0, <1>T, SMTT(60) DEF CreateTemp, Chmod, Write, Sync, Close, Rename, FsyncDir,
         Fails, Kill, TypeOK
    <2>2. CASE stage[v] = "acked"
      <3>1. PICK i \in 1 .. synced : links[i] = v
        BY <2>2 DEF IInv, AckedIsDurable
      <3>2. i \in 1 .. synced' /\ links'[i] = v
        BY <2>1, <3>1
      <3> QED
        BY <3>2
    <2>3. CASE stage[v] # "acked"
      <3>1. v = w
        BY <2>3, <1>K
      <3>2. FsyncDir(w) /\ synced' = Len(links) /\ links' = links /\ stage[w] = "syncdir"
        BY <1>0, <1>T, <2>3, <3>1 DEF CreateTemp, Chmod, Write, Sync, Close, Rename, FsyncDir,
           Fails, Kill, Goto, TypeOK
      <3> QED
        BY <3>1, <3>2 DEF IInv, Linked
    <2> QED
      BY <2>2, <2>3
  <1>6. TempsOwned'
    <2>1. stage'[w] \in {"idle", "syncdir", "acked", "failed"} => w \notin temps'
      <3> USE <1>T DEF TypeOK, TempsOwned, Goto, Stages
      <3>1. CASE CreateTemp(w)
        BY <3>1 DEF CreateTemp
      <3>2. CASE Chmod(w) \/ Write(w) \/ Sync(w) \/ Close(w) \/ Kill(w)
        BY <3>2 DEF Chmod, Write, Sync, Close, Kill
      <3>3. CASE Rename(w) \/ FsyncDir(w) \/ Fails(w)
        BY <3>3 DEF Rename, FsyncDir, Fails
      <3> QED
        BY <1>0, <3>1, <3>2, <3>3
    <2> QED
      BY <2>1, <1>K, <1>T DEF TempsOwned
  <1> QED
    BY <1>1, <1>2, <1>3, <1>4, <1>5, <1>6

\* A power loss takes only what was never acknowledged: synced files keep their
\* content, renames are undone from the newest back to the last directory sync.
LEMMA StorePowerLoss ==
    ASSUME IInv, TypeOK', PowerLoss
    PROVE  Progress' /\ LinksComplete' /\ OpenComplete' /\ Linked'
             /\ AckedIsDurable' /\ TempsOwned'
  <1> DEFINE Undone(k) == {links[i] : i \in k + 1 .. Len(links)}
  <1>1. PICK keep \in synced .. Len(links) :
          /\ links' = SubSeq(links, 1, keep)
          /\ synced' = keep
          /\ temps' \in SUBSET (temps \cup Undone(keep))
          /\ stage' = [w \in Writes |-> IF Running(w) \/ w \in Undone(keep)
                                        THEN "lost" ELSE stage[w]]
    BY DEF PowerLoss
  <1>2. /\ keep \in Nat /\ synced \in Nat /\ synced <= keep /\ Len(links) \in Nat
        /\ keep <= Len(links) /\ Len(links') = keep
        /\ \A i \in 1 .. keep : links'[i] = links[i] /\ links[i] \in Writes
    BY <1>1 DEF IInv, TypeOK
  <1>3. \A w \in Writes : stage'[w] = stage[w] \/ stage'[w] = "lost"
    BY <1>1
  <1>4. \A w \in Writes : stage[w] \in Stages
    BY DEF IInv, TypeOK
  <1>5. \A w \in Writes : stage'[w] \in {"idle", "acked", "failed", "killed", "lost"}
    BY <1>1, <1>4 DEF Running, Stages
  <1>6. \A w \in Writes : disk[w] = "full" => cache'[w] = "full" /\ disk'[w] = "full"
    BY DEF PowerLoss, Recovered
  <1>7. \A w \in Writes : Complete(w) => Complete(w)'
    BY <1>3, <1>6 DEF Complete, Past
  <1>8. Progress' /\ Linked'
    BY <1>5 DEF Progress, Linked
  <1>9. LinksComplete'
    <2>1. \A i \in 1 .. keep : i \in 1 .. Len(links)
      BY <1>2
    <2> QED
      BY <2>1, <1>2, <1>7 DEF IInv, LinksComplete, Complete
  <1>10. OpenComplete'
    BY DEF PowerLoss, OpenComplete
  <1>11. AckedIsDurable'
    <2> SUFFICES ASSUME DirSyncs, NEW w \in Writes, stage'[w] = "acked"
                 PROVE  \E i \in 1 .. synced' : links'[i] = w
      BY DEF AckedIsDurable
    <2>1. stage[w] = "acked"
      BY <1>3
    <2>2. PICK i \in 1 .. synced : links[i] = w
      BY <2>1 DEF IInv, AckedIsDurable
    <2>3. i \in 1 .. keep
      BY <1>2
    <2> QED
      BY <2>2, <2>3, <1>1, <1>2
  <1>12. TempsOwned'
    <2> SUFFICES ASSUME NEW w \in Writes, stage'[w] \in {"idle", "syncdir", "acked", "failed"}
                 PROVE  w \notin temps'
      BY DEF TempsOwned
    <2>1. stage'[w] = stage[w] /\ w \notin Undone(keep)
      BY <1>1, <1>3
    <2>2. w \notin temps
      BY <2>1 DEF IInv, TempsOwned
    <2> QED
      BY <1>1, <2>1, <2>2
  <1> QED
    BY <1>8, <1>9, <1>10, <1>11, <1>12

\* Every step of the system preserves the invariant.
LEMMA StoreNext == IInv /\ [Next]_vars => IInv'
  <1> SUFFICES ASSUME IInv, [Next]_vars PROVE IInv'
    OBVIOUS
  <1> USE DEF IInv
  <1>1. CASE UNCHANGED vars
    BY <1>1 DEF vars, writer, reader, tamper, TypeOK, Progress, LinksComplete, OpenComplete,
       Linked, AckedIsDurable, TempsOwned, Complete
  <1>2. CASE Next
    <2>T. TypeOK'
      BY <1>2, StoreType
    <2>1. ASSUME NEW w \in Writes, WriteTo(w) \/ Kill(w) PROVE IInv'
      <3>1. Progress' /\ LinksComplete' /\ OpenComplete' /\ Linked'
              /\ AckedIsDurable' /\ TempsOwned'
        BY <2>1, StoreWriter
      <3> QED
        BY <3>1, <2>T
    <2>2. ASSUME NEW r \in Readers, Load(r) PROVE IInv'
      <3>1. UNCHANGED writer
        BY <2>2 DEF Load, Open, Stat, Read, LoadFails, Returns
      <3>2. \A q \in Readers : rfile'[q] \in {rfile[q], None} \/ (links # <<>> /\ rfile'[q] = Current)
        BY <2>2 DEF Load, Open, Stat, Read, LoadFails, Returns, TypeOK
      <3>3. links # <<>> => Complete(Current)
        <4>1. links # <<>> => Len(links) \in 1 .. Len(links)
          BY DEF TypeOK
        <4> QED
          BY <4>1 DEF LinksComplete, Current
      <3>4. OpenComplete'
        BY <3>1, <3>2, <3>3 DEF writer, OpenComplete, Complete
      <3> QED
        BY <2>T, <3>1, <3>4 DEF writer, Progress, LinksComplete, Linked, AckedIsDurable,
           TempsOwned, Complete
    <2>3. CASE Spoil
      BY <2>T, <2>3 DEF Spoil, writer, reader, Progress, LinksComplete, OpenComplete, Linked,
         AckedIsDurable, TempsOwned, Complete
    <2>4. CASE PowerLoss
      <3>1. Progress' /\ LinksComplete' /\ OpenComplete' /\ Linked'
              /\ AckedIsDurable' /\ TempsOwned'
        BY <2>4, <2>T, StorePowerLoss
      <3> QED
        BY <3>1, <2>T
    <2> QED
      BY <1>2, <2>1, <2>2, <2>3, <2>4 DEF Next
  <1> QED
    BY <1>1, <1>2

-------------------------------------------------------------------------------
\* Whatever calls of WriteTo and Load overlap, fail, are killed or lose power, the
\* journal path and every open descriptor of Load show a complete, valid journal.
THEOREM StoreNeverTorn == Spec => []NeverTorn
  <1>1. IInv => NeverTorn
    BY DEF IInv, NeverTorn, LinksComplete, OpenComplete, Complete
  <1> QED
    BY <1>1, StoreInit, StoreNext, PTL DEF Spec

\* Where directories can be synced, a journal that WriteTo has acknowledged is on
\* stable storage, together with the rename that put it in place.
THEOREM StoreAckedIsDurable == Spec => []AckedIsDurable
  <1>1. IInv => AckedIsDurable
    BY DEF IInv
  <1> QED
    BY <1>1, StoreInit, StoreNext, PTL DEF Spec

\* A WriteTo that returns, with or without an error, leaves no temporary file.
THEOREM StoreNoTempLeak == Spec => []NoTempLeak
  <1>1. IInv => NoTempLeak
    BY DEF IInv, TempsOwned, NoTempLeak
  <1> QED
    BY <1>1, StoreInit, StoreNext, PTL DEF Spec
-------------------------------------------------------------------------------
\* Sequences with the same elements are the same.
LEMMA SeqEqual ==
  ASSUME NEW S, NEW s \in Seq(S), NEW t \in Seq(S), Len(s) = Len(t),
         \A i \in 1 .. Len(t) : s[i] = t[i]
  PROVE  s = t
  OBVIOUS
\* Kinds of characters in a key file.
Kinds == {"b64", "nl", "cr", "pad", "other"}

LEMMA KeyType ==
  /\ Key \in Seq(Kinds) /\ Len(Key) = KeyChars /\ Key # <<>>
  /\ \A i \in 1 .. KeyChars : Key[i] = "b64"
  BY KeyAssumption DEF Key, Kinds

LEMMA EncodeType ==
  /\ Encode \in Seq(Kinds) /\ Len(Encode) = KeyChars + 1
  /\ Encode[KeyChars + 1] = "nl"
  /\ \A i \in 1 .. KeyChars : Encode[i] = "b64"
  /\ SubSeq(Encode, 1, KeyChars) = Key
  /\ Truncated(Len(Encode)) = Encode
<1>1. KeyChars \in Nat /\ "nl" \in Kinds BY KeyAssumption DEF Kinds
<1>2. /\ Encode \in Seq(Kinds) /\ Len(Encode) = KeyChars + 1
      /\ Encode[KeyChars + 1] = "nl"
      /\ \A i \in 1 .. KeyChars : Encode[i] = Key[i]
  BY <1>1, KeyType DEF Encode
<1>3. SubSeq(Encode, 1, KeyChars) = Key
  <2>1. SubSeq(Encode, 1, KeyChars) = [i \in 1 .. KeyChars |-> Encode[i]] BY <1>1, <1>2
  <2>2. QED BY <1>1, <1>2, <2>1 DEF Key
<1>4. SubSeq(Encode, 1, KeyChars + 1) = Encode BY <1>1, <1>2
<1>5. QED BY <1>1, <1>2, <1>3, <1>4, KeyType DEF Truncated

\* What DropLast leaves of a text.
LEMMA DropLastType ==
  ASSUME NEW t \in Seq(Kinds), NEW c \in Kinds
  PROVE  /\ DropLast(t, c) \in Seq(Kinds)
         /\ \/ DropLast(t, c) = t /\ (t # <<>> => t[Len(t)] # c)
            \/ t # <<>> /\ t = Append(DropLast(t, c), c)
<1>1. CASE t # <<>> /\ t[Len(t)] = c
  <2> DEFINE u == SubSeq(t, 1, Len(t) - 1)
  <2>1. DropLast(t, c) = u BY <1>1 DEF DropLast
  <2>2. Len(t) \in Nat /\ Len(t) > 0 BY <1>1
  <2>3. /\ u \in Seq(Kinds) /\ Len(u) = Len(t) - 1
        /\ \A i \in 1 .. Len(u) : u[i] = t[i]
    <3> DEFINE m == Len(t) - 1
    <3>1. m \in Nat /\ m <= Len(t) /\ m = Len(t) - 1 BY <2>2
    <3>2. u = SubSeq(t, 1, m) OBVIOUS
    <3> HIDE DEF m, u
    <3>3. QED BY <3>1, <3>2
  <2> HIDE DEF u
  <2>4. t = Append(u, c)
    <3>1. Append(u, c) \in Seq(Kinds) /\ Len(Append(u, c)) = Len(t) BY <2>2, <2>3
    <3>2. ASSUME NEW i \in 1 .. Len(t) PROVE Append(u, c)[i] = t[i]
      <4>1. CASE i = Len(t) BY <1>1, <2>2, <2>3, <4>1
      <4>2. CASE i # Len(t) BY <2>2, <2>3, <4>2
      <4>3. QED BY <4>1, <4>2
    <3>3. QED BY <3>1, <3>2, SeqEqual
  <2>5. QED BY <1>1, <2>1, <2>3, <2>4
<1>2. CASE ~(t # <<>> /\ t[Len(t)] = c) BY <1>2 DEF DropLast
<1>3. QED BY <1>1, <1>2
\* Appending twice is appending a pair.
LEMMA TwoMore ==
  ASSUME NEW S, NEW s \in Seq(S), NEW a \in S, NEW b \in S
  PROVE  Append(Append(s, a), b) = s \o <<a, b>>
<1> DEFINE u == Append(Append(s, a), b)
           v == s \o <<a, b>>
<1>1. /\ u \in Seq(S) /\ Len(u) = Len(s) + 2 /\ Len(s) \in Nat
      /\ \A i \in 1 .. Len(s) : u[i] = s[i]
      /\ u[Len(s) + 1] = a /\ u[Len(s) + 2] = b
  OBVIOUS
<1>2. <<a, b>> \in Seq(S) /\ Len(<<a, b>>) = 2 /\ <<a, b>>[1] = a /\ <<a, b>>[2] = b OBVIOUS
<1>3. /\ v \in Seq(S) /\ Len(v) = Len(s) + 2
      /\ \A i \in 1 .. Len(v) : v[i] = IF i <= Len(s) THEN s[i] ELSE <<a, b>>[i - Len(s)]
  BY <1>2
<1> HIDE DEF u, v
<1>4. ASSUME NEW i \in 1 .. Len(v) PROVE u[i] = v[i]
  <2>1. i \in 1 .. Len(s) \/ i = Len(s) + 1 \/ i = Len(s) + 2 BY <1>1, <1>3
  <2>2. CASE i \in 1 .. Len(s) BY <1>1, <1>3, <2>2
  <2>3. CASE i = Len(s) + 1
    <3>1. i - Len(s) = 1 /\ ~(i <= Len(s)) BY <1>1, <2>3
    <3>2. QED BY <1>1, <1>2, <1>3, <2>3, <3>1
  <2>4. CASE i = Len(s) + 2
    <3>1. i - Len(s) = 2 /\ ~(i <= Len(s)) BY <1>1, <2>4
    <3>2. QED BY <1>1, <1>2, <1>3, <2>4, <3>1
  <2>5. QED BY <2>1, <2>2, <2>3, <2>4
<1>5. u = v BY <1>1, <1>3, <1>4, SeqEqual
<1>6. QED BY <1>5 DEF u, v

\* What writeExclusive writes, ParseKey reads.
LEMMA EncodeParses == ParseKey(Encode)
<1>1. KeyChars \in Nat /\ KeyChars > 0 BY KeyAssumption
<1>2. DropLast(Encode, "nl") = Key
  <2>1. Encode # <<>> /\ Encode[Len(Encode)] = "nl" /\ Len(Encode) - 1 = KeyChars
    BY <1>1, EncodeType
  <2>2. QED BY <2>1, EncodeType DEF DropLast
<1>3. Key # Encode BY <1>1, KeyType, EncodeType
<1>4. DropLast(Key, "cr") = Key
  <2>1. Key[Len(Key)] = "b64" BY <1>1, KeyType
  <2>2. QED BY <2>1 DEF DropLast
<1>5. Body(Encode) = Key BY <1>2, <1>3, <1>4 DEF Body
<1>6. QED BY <1>5, KeyType DEF ParseKey

\* What ParseKey reads is one whole key with at most a line end after it.
LEMMA ParsedIsWhole ==
  ASSUME NEW raw \in Seq(Kinds), ParseKey(raw)
  PROVE  raw \in {Key, Encode, Key \o <<"cr", "nl">>}
<1> DEFINE d == DropLast(raw, "nl")
<1>0. "nl" \in Kinds /\ "cr" \in Kinds BY DEF Kinds
<1>1. d \in Seq(Kinds) /\ (d = raw \/ raw = Append(d, "nl")) BY <1>0, DropLastType
<1>2. /\ DropLast(d, "cr") \in Seq(Kinds)
      /\ DropLast(d, "cr") = d \/ d = Append(DropLast(d, "cr"), "cr")
  BY <1>0, <1>1, DropLastType
<1>3. Body(raw) = IF d = raw THEN raw ELSE DropLast(d, "cr") BY DEF Body
<1> HIDE DEF d
<1>4. Body(raw) \in Seq(Kinds) BY <1>2, <1>3
<1>5. Body(raw) = Key
  <2>1. /\ Len(Body(raw)) = KeyChars
        /\ \A i \in 1 .. Len(Body(raw)) : Body(raw)[i] = "b64"
    BY DEF ParseKey
  <2>2. QED BY <1>4, <2>1, KeyType, SeqEqual
<1>6. CASE d = raw BY <1>3, <1>5, <1>6
<1>7. CASE d # raw
  <2>1. raw = Append(d, "nl") /\ DropLast(d, "cr") = Key BY <1>1, <1>3, <1>5, <1>7
  <2>2. CASE d = Key BY <2>1, <2>2 DEF Encode
  <2>3. CASE d = Append(Key, "cr")
    <3>1. raw = Append(Append(Key, "cr"), "nl") BY <2>1, <2>3
    <3>2. Append(Append(Key, "cr"), "nl") = Key \o <<"cr", "nl">>
      BY <1>0, KeyType, TwoMore
    <3>3. QED BY <3>1, <3>2
  <2>4. QED BY <1>2, <2>1, <2>2, <2>3
<1>8. QED BY <1>6, <1>7
-------------------------------------------------------------------------------
KeyTypeOK ==
    /\ name \in Inodes \cup {NoFile}
    /\ text \in [Inodes -> Seq(Kinds)]
    /\ mode \in [Inodes -> SUBSET Others]
    /\ stable \subseteq Inodes
    /\ pc \in [Procs -> {"start", "create", "write", "sync", "stat", "open", "read"} \cup Codes]
    /\ cmd \in [Procs -> Commands]
    /\ fd \in [Procs -> Inodes \cup {NoFile}]
    /\ out \in [Procs -> Seq(Kinds) \cup {NoFile}]
    /\ unnamed \subseteq Inodes
    /\ keyFaults \in Nat

\* Which command takes which steps.
KeyPath ==
    \A p \in Procs :
      /\ pc[p] \in {"create", "write", "sync"} => cmd[p] \in {"keygen", "psk"}
      /\ pc[p] \in {"stat", "open", "read"} => cmd[p] = "public-key"

\* p has exited 0 after writing a key.
Wrote(p) == pc[p] = "ok" /\ cmd[p] \in {"keygen", "psk"}

\* The file is whole before it is synced, and synced before the command exits.
KeyContent ==
    \A p \in Procs :
      /\ pc[p] = "sync" \/ Wrote(p) => text[p] = Encode
      /\ Wrote(p) => p \in stable

\* A file that was created has the path, or somebody took it away.
KeyNamed ==
    \A p \in Procs : pc[p] \in {"write", "sync"} \/ Wrote(p) => name = p \/ p \in unnamed

\* A reader reads the file it has opened.
KeyOpened == \A p \in Procs : pc[p] = "read" => fd[p] \in Inodes

KInv == KeyTypeOK /\ KeyPath /\ KeyContent /\ KeyNamed /\ KeyOpened /\ WholeKeys

\* The operator's texts, and what a power loss leaves of a text, are texts.
LEMMA TextTypes ==
  /\ OperatorTexts \subseteq Seq(Kinds)
  /\ \A t \in Seq(Kinds) : Remains(t) \subseteq Seq(Kinds)
<1>0. "nl" \in Kinds /\ "cr" \in Kinds /\ "pad" \in Kinds /\ "other" \in Kinds BY DEF Kinds
<1>1. OperatorTexts \subseteq Seq(Kinds)
  <2>1. <<"cr", "nl">> \in Seq(Kinds) BY <1>0
  <2>2. Key \o <<"cr", "nl">> \in Seq(Kinds) BY <2>1, KeyType
  <2>3. Append(Key, "pad") \in Seq(Kinds) /\ Append(Encode, "nl") \in Seq(Kinds)
    BY <1>0, KeyType, EncodeType
  <2>4. QED BY <2>2, <2>3 DEF OperatorTexts
<1>2. ASSUME NEW t \in Seq(Kinds) PROVE Remains(t) \subseteq Seq(Kinds)
  <2>1. Len(t) \in Nat OBVIOUS
  <2>2. ASSUME NEW n \in 0 .. Len(t) PROVE SubSeq(t, 1, n) \in Seq(Kinds)
    BY <2>1, <2>2
  <2>3. [i \in 1 .. Len(t) |-> "other"] \in Seq(Kinds) BY <1>0, <2>1
  <2>4. QED BY <2>2, <2>3 DEF Remains
<1>3. QED BY <1>1, <1>2

\* No command has started.
LEMMA KInvInit == KeyInit => KInv
<1> SUFFICES ASSUME KeyInit PROVE KInv OBVIOUS
<1>1. KeyTypeOK
  <2>1. PICK t \in OperatorTexts : text = [i \in Inodes |-> IF i = name THEN t ELSE <<>>]
    BY DEF KeyInit
  <2>2. t \in Seq(Kinds) /\ <<>> \in Seq(Kinds) BY TextTypes
  <2>3. text \in [Inodes -> Seq(Kinds)] BY <2>1, <2>2
  <2>4. name \in Inodes \cup {NoFile} /\ stable \subseteq Inodes BY DEF KeyInit, Inodes
  <2>5. keyFaults \in Nat BY KeyAssumption DEF KeyInit
  <2>6. cmd \in [Procs -> Commands] BY DEF KeyInit, Commands
  <2>7. QED BY <2>3, <2>4, <2>5, <2>6 DEF KeyInit, KeyTypeOK
<1>2. KeyPath /\ KeyContent /\ KeyNamed /\ KeyOpened
  BY DEF KeyInit, KeyPath, KeyContent, KeyNamed, KeyOpened, Wrote
<1>3. WholeKeys BY DEF KeyInit, WholeKeys
<1>4. QED BY <1>1, <1>2, <1>3 DEF KInv

\* Every step leaves the variables in their types.
LEMMA KeyTypeNext == KInv /\ [KeyNext]_keyVars => KeyTypeOK'
<1> SUFFICES ASSUME KInv, [KeyNext]_keyVars PROVE KeyTypeOK' OBVIOUS
<1> USE DEF files, procs, Continue
<1>0. KeyTypeOK BY DEF KInv
<1>1. KeyFault => keyFaults' \in Nat BY <1>0 DEF KeyTypeOK, KeyFault
<1>2. ASSUME NEW p \in Procs, Start(p) PROVE KeyTypeOK'
  <2>1. PICK a \in CommandLines :
           \/ pc' = [pc EXCEPT ![p] = "usage"] /\ UNCHANGED <<cmd, keyFaults>>
           \/ /\ cmd' = [cmd EXCEPT ![p] = a.cmd]
              /\ \/ /\ pc' = [pc EXCEPT ![p] = IF a.cmd = "public-key" THEN "stat" ELSE "create"]
                    /\ UNCHANGED keyFaults
                 \/ KeyFault /\ pc' = [pc EXCEPT ![p] = "runtime"]
    BY <1>2 DEF Start
  <2>2. a.cmd \in Commands BY DEF CommandLines
  <2>3. keyFaults' \in Nat BY <1>0, <1>1, <2>1 DEF KeyTypeOK
  <2>4. cmd' \in [Procs -> Commands] BY <1>0, <2>1, <2>2 DEF KeyTypeOK
  <2>5. pc' \in [Procs -> {"start", "create", "write", "sync", "stat", "open", "read"} \cup Codes]
    BY <1>0, <2>1 DEF KeyTypeOK, Codes
  <2>6. UNCHANGED <<files, fd, out, unnamed>> BY <1>2 DEF Start
  <2>7. QED BY <1>0, <2>3, <2>4, <2>5, <2>6 DEF KeyTypeOK
<1>3. ASSUME NEW p \in Procs, Create(p) PROVE KeyTypeOK'
  BY <1>0, <1>1, <1>3 DEF Create, KeyTypeOK, Codes, Inodes
<1>4. ASSUME NEW p \in Procs, WriteKey(p) PROVE KeyTypeOK'
  <2>1. text' \in [Inodes -> Seq(Kinds)]
    <3>1. CASE UNCHANGED text BY <1>0, <3>1 DEF KeyTypeOK
    <3>2. ASSUME NEW n \in Len(text[p]) + 1 .. Len(Encode),
                 text' = [text EXCEPT ![p] = Truncated(n)]
          PROVE  text' \in [Inodes -> Seq(Kinds)]
      <4>1. Len(text[p]) \in Nat BY <1>0 DEF KeyTypeOK, Inodes
      <4>2. n \in 1 .. Len(Encode) /\ Len(Encode) \in Nat BY <4>1, EncodeType, KeyAssumption
      <4>3. Truncated(n) \in Seq(Kinds) BY <4>2, EncodeType DEF Truncated
      <4>4. QED BY <1>0, <3>2, <4>3 DEF KeyTypeOK
    <3>3. QED BY <1>4, <3>1, <3>2 DEF WriteKey
  <2>2. /\ pc' = pc \/ pc' = [pc EXCEPT ![p] = "sync"] \/ pc' = [pc EXCEPT ![p] = "runtime"]
        /\ keyFaults' = keyFaults \/ KeyFault
        /\ UNCHANGED <<name, mode, stable, cmd, fd, out, unnamed>>
    BY <1>4 DEF WriteKey
  <2>3. QED BY <1>0, <1>1, <2>1, <2>2 DEF KeyTypeOK, Codes
<1>5. ASSUME NEW p \in Procs, SyncKey(p) PROVE KeyTypeOK'
  <2>1. Printed(p) \in Seq(Kinds) \cup {NoFile}
    BY EncodeType DEF Printed, Inodes
  <2>2. out' \in [Procs -> Seq(Kinds) \cup {NoFile}]
    BY <1>0, <1>5, <2>1 DEF SyncKey, KeyTypeOK
  <2>3. QED BY <1>0, <1>1, <1>5, <2>2 DEF SyncKey, KeyTypeOK, Codes, Inodes
<1>6. ASSUME NEW p \in Procs, NEW at, NEW ok, NEW l \in {"open", "read", "ok"},
             LoadStep(p, at, ok, l)
      PROVE  /\ pc' \in [Procs -> {"start", "create", "write", "sync", "stat", "open", "read"}
                                    \cup Codes]
             /\ keyFaults' \in Nat
             /\ pc'[p] = l => pc[p] = at /\ ok
  BY <1>0, <1>1, <1>6 DEF LoadStep, KeyTypeOK, Codes
<1>7. ASSUME NEW p \in Procs, StatKey(p) PROVE KeyTypeOK'
  BY <1>0, <1>6, <1>7 DEF StatKey, KeyTypeOK
<1>8. ASSUME NEW p \in Procs, OpenKey(p) PROVE KeyTypeOK'
  BY <1>0, <1>6, <1>8 DEF OpenKey, KeyTypeOK
<1>9. ASSUME NEW p \in Procs, ReadKey(p) PROVE KeyTypeOK'
  <2>1. /\ pc' \in [Procs -> {"start", "create", "write", "sync", "stat", "open", "read"}
                               \cup Codes]
        /\ keyFaults' \in Nat
        /\ pc'[p] = "ok" => pc[p] = "read"
    BY <1>6, <1>9 DEF ReadKey
  <2>2. out' \in [Procs -> Seq(Kinds) \cup {NoFile}]
    <3>1. CASE pc'[p] = "ok"
      <4>1. fd[p] \in Inodes BY <2>1, <3>1 DEF KInv, KeyOpened
      <4>2. text[fd[p]] \in Seq(Kinds) BY <1>0, <4>1 DEF KeyTypeOK
      <4>3. QED BY <1>0, <1>9, <3>1, <4>1, <4>2 DEF ReadKey, KeyTypeOK
    <3>2. CASE pc'[p] # "ok" BY <1>0, <1>9, <3>2 DEF ReadKey, KeyTypeOK
    <3>3. QED BY <3>1, <3>2
  <2>3. QED BY <1>0, <1>9, <2>1, <2>2 DEF ReadKey, KeyTypeOK
<1>10. ASSUME NEW p \in Procs, KillCommand(p) PROVE KeyTypeOK'
  BY <1>0, <1>1, <1>10 DEF KillCommand, KeyTypeOK, Codes
<1>11. CASE KeyPowerLoss
  <2>1. text' \in [Inodes -> Seq(Kinds)]
    <3>1. PICK left : /\ \A i \in Unsynced : left[i] \in Remains(text[i])
                      /\ text' = [i \in Inodes |-> IF i \in Unsynced THEN left[i] ELSE text[i]]
      BY <1>11 DEF KeyPowerLoss
    <3>2. \A i \in Inodes : text[i] \in Seq(Kinds) BY <1>0 DEF KeyTypeOK
    <3>3. \A i \in Unsynced : left[i] \in Seq(Kinds) BY <3>1, <3>2, TextTypes DEF Unsynced
    <3>4. QED BY <3>1, <3>2, <3>3
  <2>2. pc' \in [Procs -> {"start", "create", "write", "sync", "stat", "open", "read"} \cup Codes]
    BY <1>0, <1>11 DEF KeyPowerLoss, KeyTypeOK, Codes
  <2>3. name' \in Inodes \cup {NoFile} /\ unnamed' \subseteq Inodes
    <3>1. Procs \subseteq Inodes BY DEF Inodes
    <3>2. QED BY <1>0, <1>11, <3>1 DEF KeyPowerLoss, KeyTypeOK
  <2>4. keyFaults' \in Nat BY <1>1, <1>11 DEF KeyPowerLoss
  <2>5. QED BY <1>0, <1>11, <2>1, <2>2, <2>3, <2>4 DEF KeyPowerLoss, KeyTypeOK
<1>12. CASE ChmodKey
  BY <1>0, <1>1, <1>12 DEF ChmodKey, KeyTypeOK
<1>13. CASE Remove
  BY <1>0, <1>1, <1>13 DEF Remove, KeyTypeOK
<1>14. CASE Replace
  <2>1. text' \in [Inodes -> Seq(Kinds)] /\ mode' \in [Inodes -> SUBSET Others]
    BY <1>0, <1>14, TextTypes DEF Replace, KeyTypeOK, Others
  <2>2. QED BY <1>0, <1>1, <1>14, <2>1 DEF Replace, KeyTypeOK, Inodes
<1>15. CASE UNCHANGED keyVars BY <1>0, <1>15 DEF keyVars, KeyTypeOK
<1>16. QED
  BY <1>2, <1>3, <1>4, <1>5, <1>7, <1>8, <1>9, <1>10, <1>11, <1>12, <1>13, <1>14, <1>15
  DEF KeyNext
\* Every step keeps what a writer relies on: no one else writes its file, and only
\* the operator and a power loss take its name away.
LEMMA KeyWriterNext == KInv /\ [KeyNext]_keyVars => (KeyPath /\ KeyContent /\ KeyNamed)'
<1> SUFFICES ASSUME KInv, [KeyNext]_keyVars PROVE KeyPath' /\ KeyContent' /\ KeyNamed'
  OBVIOUS
<1> USE DEF files, procs, Continue, Wrote
<1>0. /\ KeyPath /\ KeyContent /\ KeyNamed
      /\ pc \in [Procs -> {"start", "create", "write", "sync", "stat", "open", "read"} \cup Codes]
      /\ cmd \in [Procs -> Commands] /\ text \in [Inodes -> Seq(Kinds)]
      /\ name \in Inodes \cup {NoFile}
  BY DEF KInv, KeyTypeOK
<1>1. /\ Operator \notin Procs /\ NoFile \notin Procs /\ NoFile # Operator
      /\ Procs \subseteq Inodes /\ Operator \in Inodes
  BY KeyAssumption DEF Inodes
<1>2. ASSUME NEW p \in Procs, Start(p) PROVE KeyPath' /\ KeyContent' /\ KeyNamed'
  <2>1. PICK a \in CommandLines :
           \/ pc' = [pc EXCEPT ![p] = "usage"] /\ UNCHANGED cmd
           \/ /\ cmd' = [cmd EXCEPT ![p] = a.cmd] /\ a.cmd # "unknown"
              /\ \/ pc' = [pc EXCEPT ![p] = IF a.cmd = "public-key" THEN "stat" ELSE "create"]
                 \/ pc' = [pc EXCEPT ![p] = "runtime"]
    BY <1>2 DEF Start
  <2>2. a.cmd \in Commands BY DEF CommandLines
  <2>3. UNCHANGED <<name, text, stable, unnamed>> BY <1>2 DEF Start
  <2>4. KeyPath' BY <1>0, <2>1, <2>2 DEF KeyPath, Commands
  <2>5. KeyContent' BY <1>0, <2>1, <2>3 DEF KeyContent
  <2>6. KeyNamed' BY <1>0, <2>1, <2>3 DEF KeyNamed
  <2>7. QED BY <2>4, <2>5, <2>6
<1>3. ASSUME NEW p \in Procs, Create(p) PROVE KeyPath' /\ KeyContent' /\ KeyNamed'
  <2>1. UNCHANGED <<text, stable, cmd, unnamed>> /\ pc[p] = "create"
        /\ \/ name = NoFile /\ name' = p /\ pc' = [pc EXCEPT ![p] = "write"]
           \/ name' = name /\ pc' = [pc EXCEPT ![p] = "runtime"]
    BY <1>3 DEF Create
  <2>2. KeyPath' /\ KeyContent' BY <1>0, <2>1 DEF KeyPath, KeyContent
  <2>3. KeyNamed' BY <1>0, <1>1, <2>1 DEF KeyNamed
  <2>4. QED BY <2>2, <2>3
<1>4. ASSUME NEW p \in Procs, WriteKey(p) PROVE KeyPath' /\ KeyContent' /\ KeyNamed'
  <2>1. /\ UNCHANGED <<name, stable, cmd, unnamed>> /\ pc[p] = "write"
        /\ \/ /\ pc' = [pc EXCEPT ![p] = "sync"]
              /\ text' = [text EXCEPT ![p] = Encode]
           \/ pc' = pc /\ \E t : text' = [text EXCEPT ![p] = t]
           \/ pc' = [pc EXCEPT ![p] = "runtime"] /\ text' = text
    BY <1>4, EncodeType DEF WriteKey
  <2>2. KeyPath' BY <1>0, <2>1 DEF KeyPath
  <2>3. KeyContent' BY <1>0, <1>1, <2>1 DEF KeyContent
  <2>4. KeyNamed' BY <1>0, <2>1 DEF KeyNamed
  <2>5. QED BY <2>2, <2>3, <2>4
<1>5. ASSUME NEW p \in Procs, SyncKey(p) PROVE KeyPath' /\ KeyContent' /\ KeyNamed'
  <2>1. /\ UNCHANGED <<name, text, cmd, unnamed>> /\ pc[p] = "sync"
        /\ \/ pc' = [pc EXCEPT ![p] = "ok"] /\ stable' = stable \cup {p}
           \/ pc' = [pc EXCEPT ![p] = "runtime"] /\ stable' = stable
    BY <1>5 DEF SyncKey
  <2>2. QED BY <1>0, <2>1 DEF KeyPath, KeyContent, KeyNamed
<1>6. ASSUME NEW p \in Procs, StatKey(p) \/ OpenKey(p) \/ ReadKey(p)
      PROVE  KeyPath' /\ KeyContent' /\ KeyNamed'
  <2>1. /\ UNCHANGED <<name, text, stable, cmd, unnamed>>
        /\ pc[p] \in {"stat", "open", "read"}
        /\ \E l \in {"open", "read", "ok", "permission"} : pc' = [pc EXCEPT ![p] = l]
    BY <1>6 DEF StatKey, OpenKey, ReadKey, LoadStep
  <2>2. QED BY <1>0, <2>1 DEF KeyPath, KeyContent, KeyNamed
<1>7. ASSUME NEW p \in Procs, KillCommand(p) PROVE KeyPath' /\ KeyContent' /\ KeyNamed'
  <2>1. UNCHANGED <<name, text, stable, cmd, unnamed>> /\ pc' = [pc EXCEPT ![p] = "killed"]
    BY <1>7 DEF KillCommand
  <2>2. QED BY <1>0, <2>1 DEF KeyPath, KeyContent, KeyNamed
<1>8. CASE KeyPowerLoss
  <2>1. /\ UNCHANGED <<stable, cmd>>
        /\ pc' = [p \in Procs |-> IF Busy(p) THEN "killed" ELSE pc[p]]
        /\ \A i \in Inodes : i \in stable => text'[i] = text[i]
        /\ \/ UNCHANGED <<name, unnamed>>
           \/ name' = NoFile /\ unnamed' = unnamed \cup {name}
    BY <1>8 DEF KeyPowerLoss, Unsynced
  <2>2. \A p \in Procs : pc'[p] \in {"start", "killed"} \cup Codes /\ (pc'[p] = "ok" => pc[p] = "ok")
    BY <1>0, <2>1 DEF Busy, Codes
  <2>3. KeyPath' BY <2>2 DEF KeyPath, Codes
  <2>4. KeyContent' BY <1>0, <1>1, <2>1, <2>2 DEF KeyContent, Codes
  <2>5. KeyNamed' BY <1>0, <2>1, <2>2 DEF KeyNamed, Codes
  <2>6. QED BY <2>3, <2>4, <2>5
<1>9. CASE ChmodKey \/ Remove \/ Replace
  <2>1. /\ UNCHANGED <<stable, pc, cmd>>
        /\ \A p \in Procs : text'[p] = text[p]
        /\ \/ name' = name /\ unnamed' = unnamed
           \/ name = NoFile /\ unnamed' = unnamed
           \/ unnamed' = unnamed \cup {name}
    BY <1>0, <1>1, <1>9 DEF ChmodKey, Remove, Replace
  <2>2. KeyPath' /\ KeyContent' BY <1>0, <2>1 DEF KeyPath, KeyContent
  <2>3. KeyNamed' BY <1>0, <1>1, <2>1 DEF KeyNamed
  <2>4. QED BY <2>2, <2>3
<1>10. CASE UNCHANGED keyVars BY <1>0, <1>10 DEF keyVars, KeyPath, KeyContent, KeyNamed
<1>11. QED
  BY <1>2, <1>3, <1>4, <1>5, <1>6, <1>7, <1>8, <1>9, <1>10 DEF KeyNext

\* A reader's file stays open until it has read it.
LEMMA KeyReaderNext == KInv /\ [KeyNext]_keyVars => KeyOpened'
<1> SUFFICES ASSUME KInv, [KeyNext]_keyVars PROVE KeyOpened' OBVIOUS
<1> USE DEF files, procs, Continue
<1>0. /\ KeyOpened
      /\ pc \in [Procs -> {"start", "create", "write", "sync", "stat", "open", "read"} \cup Codes]
      /\ fd \in [Procs -> Inodes \cup {NoFile}] /\ name \in Inodes \cup {NoFile}
  BY DEF KInv, KeyTypeOK
<1>1. ASSUME NEW p \in Procs, Start(p) \/ Create(p) \/ WriteKey(p) \/ SyncKey(p) \/ StatKey(p)
      PROVE  KeyOpened'
  <2>1. fd' = fd BY <1>1 DEF Start, Create, WriteKey, SyncKey, StatKey
  <2>2. pc' = pc \/ \E l : l # "read" /\ pc' = [pc EXCEPT ![p] = l]
    BY <1>1 DEF Start, Create, WriteKey, SyncKey, StatKey, LoadStep
  <2>3. QED BY <1>0, <2>1, <2>2 DEF KeyOpened
<1>2. ASSUME NEW p \in Procs, OpenKey(p) PROVE KeyOpened'
  <2>1. \/ /\ name # NoFile /\ pc' = [pc EXCEPT ![p] = "read"]
           /\ fd' = [fd EXCEPT ![p] = name]
        \/ /\ pc' = [pc EXCEPT ![p] = "permission"]
           /\ fd' = [fd EXCEPT ![p] = NoFile]
    BY <1>0, <1>2 DEF OpenKey, LoadStep
  <2>2. QED BY <1>0, <2>1 DEF KeyOpened
<1>3. ASSUME NEW p \in Procs, ReadKey(p) \/ KillCommand(p) PROVE KeyOpened'
  <2>1. /\ fd' = [fd EXCEPT ![p] = NoFile]
        /\ \E l \in {"ok", "permission", "killed"} : pc' = [pc EXCEPT ![p] = l]
    BY <1>3 DEF ReadKey, LoadStep, KillCommand
  <2>2. QED BY <1>0, <2>1 DEF KeyOpened
<1>4. CASE KeyPowerLoss
  <2>1. pc' = [p \in Procs |-> IF Busy(p) THEN "killed" ELSE pc[p]] BY <1>4 DEF KeyPowerLoss
  <2>2. \A p \in Procs : pc'[p] # "read" BY <1>0, <2>1 DEF Busy, Codes
  <2>3. QED BY <2>2 DEF KeyOpened
<1>5. CASE ChmodKey \/ Remove \/ Replace
  BY <1>0, <1>5 DEF ChmodKey, Remove, Replace, KeyOpened
<1>6. CASE UNCHANGED keyVars BY <1>0, <1>6 DEF keyVars, KeyOpened
<1>7. QED
  BY <1>1, <1>2, <1>3, <1>4, <1>5, <1>6 DEF KeyNext

\* Every command prints the public key of a whole key.
LEMMA KeyOutNext == KInv /\ [KeyNext]_keyVars => WholeKeys'
<1> SUFFICES ASSUME KInv, [KeyNext]_keyVars PROVE WholeKeys' OBVIOUS
<1> USE DEF files, procs, Continue
<1>0. WholeKeys /\ KeyOpened /\ KeyTypeOK BY DEF KInv
<1>1. CASE out' = out BY <1>0, <1>1 DEF WholeKeys
<1>2. ASSUME NEW p \in Procs, NEW o, out' = [out EXCEPT ![p] = o],
             o = NoFile \/ o \in {Key, Encode, Key \o <<"cr", "nl">>}
      PROVE  WholeKeys'
  BY <1>0, <1>2 DEF WholeKeys, KeyTypeOK
<1>3. ASSUME NEW p \in Procs, SyncKey(p) PROVE WholeKeys'
  <2>1. out' = [out EXCEPT ![p] = Printed(p)] \/ out' = out
    BY <1>3 DEF SyncKey
  <2>2. Printed(p) = NoFile \/ Printed(p) \in {Key, Encode, Key \o <<"cr", "nl">>}
    BY DEF Printed
  <2>3. QED BY <1>1, <1>2, <2>1, <2>2
<1>4. ASSUME NEW p \in Procs, ReadKey(p) PROVE WholeKeys'
  <2>1. \/ /\ pc[p] = "read" /\ ParseKey(text[fd[p]])
           /\ out' = [out EXCEPT ![p] = text[fd[p]]]
        \/ out' = out
    BY <1>0, <1>4 DEF ReadKey, LoadStep, KeyTypeOK
  <2>2. CASE pc[p] = "read" /\ ParseKey(text[fd[p]]) /\ out' = [out EXCEPT ![p] = text[fd[p]]]
    <3>1. fd[p] \in Inodes BY <1>0, <2>2 DEF KeyOpened
    <3>2. text[fd[p]] \in {Key, Encode, Key \o <<"cr", "nl">>}
      BY <1>0, <2>2, <3>1, ParsedIsWhole DEF KeyTypeOK
    <3>3. QED BY <1>2, <2>2, <3>2
  <2>3. QED BY <1>1, <2>1, <2>2
<1>5. ASSUME NEW p \in Procs, Start(p) \/ Create(p) \/ WriteKey(p) \/ StatKey(p) \/ OpenKey(p)
                                \/ KillCommand(p)
      PROVE  out' = out
  BY <1>5 DEF Start, Create, WriteKey, StatKey, OpenKey, KillCommand
<1>6. KeyPowerLoss \/ ChmodKey \/ Remove \/ Replace => out' = out
  BY DEF KeyPowerLoss, ChmodKey, Remove, Replace
<1>7. CASE UNCHANGED keyVars BY <1>1, <1>7 DEF keyVars
<1>8. QED BY <1>1, <1>3, <1>4, <1>5, <1>6, <1>7 DEF KeyNext

LEMMA KInvariance == KeySpec => []KInv
<1>1. KInv /\ [KeyNext]_keyVars => KInv'
  BY KeyTypeNext, KeyWriterNext, KeyReaderNext, KeyOutNext DEF KInv
<1>2. QED BY <1>1, KInvInit, PTL DEF KeySpec

\* A key that keygen or psk has reported written is whole and loadable, and keeps the
\* path until the operator or a power loss takes it away, for any number of commands
\* at once (writeExclusive).
THEOREM KeyFilesKept == KeySpec => []KeysKept
<1>1. KInv => KeysKept BY EncodeParses DEF KInv, KeyContent, KeyNamed, Wrote, KeysKept
<1>2. QED BY <1>1, KInvariance, PTL

\* public-key never takes a file that is being written, was torn by a failure or was
\* left by a power loss for a key (ParseKey).
THEOREM KeyFilesWhole == KeySpec => []WholeKeys
<1>1. KInv => WholeKeys BY DEF KInv
<1>2. QED BY <1>1, KInvariance, PTL
===============================================================================
